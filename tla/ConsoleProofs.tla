---------------------------- MODULE ConsoleProofs ----------------------------
(***************************************************************************)
(* What one session of the console guarantees for any number of messages,  *)
(* tool calls, mode changes, stops and tabs: that the busy gate admits no  *)
(* message the session would refuse, that plan mode holds but for the one  *)
(* tool that had asked before it was set, that a tool draws on a card of    *)
(* its own turn, that every call that ran settles one card of its turn, and *)
(* that a tab that missed nothing shows the transcript.                     *)
(***************************************************************************)
EXTENDS Console, SequenceTheorems, FiniteSetTheorems, TLAPS

(* What the steps of a script are.                                          *)
Called == [id : Nat, name : Names, decodes : BOOLEAN]
Risky == [id : Nat, name : {"write", "shell"}, decodes : BOOLEAN]
Kinds == {"user", "agent", "error", "deny", "tool"}
Marks == {"note", "out", "exit", "diff", "read", "write", "deny", "refused"}
Noted == [kind : Kinds, id : Nat, marks : SUBSET Marks]
Frames == [to : {"stream"}, entry : Noted] \cup [to : {"card"}, id : Nat, mark : Marks]
          \cup [to : {"meter", "stop", "todos"}, value : Nat] \cup [to : {"mode"}, value : {"plan", "act"}]

Saying == [do : {"note"}, entry : Noted] \cup [do : {"send"}, frame : Frames]
          \cup [do : {"set"}, id : Nat, mark : Marks] \cup [do : {"meter", "scan", "wait", "returned"}]
Calm == Saying \cup [do : {"queue", "todos"}, call : Called]
Asking == [do : {"claim"}, call : {c \in Called : c.name # "other"}] \cup [do : {"plan"}, call : Risky, card : Nat]
Armed == [do : {"write", "shell"}, card : Nat]
Idles == [do : {"idle"}]
Tooling == Asking \cup Armed
Steps == Calm \cup Tooling \cup Idles

LEMMA StepKinds ==
    /\ \A s \in Calm : s.do \in {"note", "send", "set", "queue", "todos", "meter", "scan", "wait", "returned"}
    /\ \A s \in Asking : s.do \in {"claim", "plan"}
    /\ \A s \in Armed : s.do \in {"write", "shell"}
    /\ \A s \in Idles : s.do = "idle"
BY DEF Calm, Saying, Asking, Armed, Idles

LEMMA KindsApart ==
    \A s \in Steps :
        /\ s.do = "idle" <=> s \in Idles
        /\ s.do \in {"write", "shell"} <=> s \in Armed
        /\ s.do \in {"claim", "plan"} <=> s \in Asking
        /\ s.do \notin {"idle", "write", "shell", "claim", "plan"} <=> s \in Calm
BY StepKinds DEF Steps, Tooling

Idling(s) == \E i \in 1..Len(s) : s[i] \in Idles
Using(s) == \E i \in 1..Len(s) : s[i] \in Tooling
Arming(s) == s # <<>> /\ Head(s) \in Armed

\* A script idles once, and writes or runs its command before anything else.
WellMade(s) ==
    /\ s \in Seq(Steps)
    /\ \A i \in 2..Len(s) : s[i] \notin Armed
    /\ \A i, j \in 1..Len(s) : s[i] \in Idles /\ s[j] \in Idles => i = j

\* What follows what a goroutine does next.
Rest(s) == WellMade(s) /\ \A i \in 1..Len(s) : s[i] \notin Armed

Places == {"free", "asked", "refused", "begun", "sending", "tools", "leaving", "left"}
Holding == {"begun", "sending", "tools", "leaving"}
ShellStates == [card : Nat, leader : BOOLEAN, child : {"none", "pipe", "quiet"}, done : BOOLEAN, lines : 0..1]

Types ==
    /\ at \in [Asks -> Places] /\ busy \in BOOLEAN /\ inFlight \in BOOLEAN
    /\ mode \in {"plan", "act"} /\ slipped \in Nat /\ turns \in Nat
    /\ pending \in [Names -> Seq(Nat)]
    /\ made \in [Asks -> Nat] /\ work \in Seq(Called)
    /\ shell \in ShellStates
    /\ script \in [Asks \cup Modes -> Seq(Steps)]

\* From the moment the gate was passed until idle: the message has the session.
Active(n) == at[n] \in {"asked"} \cup Holding \/ Idling(script[n])

Scripts ==
    \A a \in Asks \cup Modes :
        /\ WellMade(script[a])
        /\ Idling(script[a]) => a \in Asks /\ at[a] = "left"
        /\ Using(script[a]) => a \in Asks /\ at[a] = "tools"
Gate ==
    /\ \A m, n \in Asks : Active(m) /\ Active(n) => m = n
    /\ \A n \in Asks : Active(n) => busy
    /\ inFlight => \E n \in Asks : at[n] \in Holding
Planned ==
    mode = "plan" => slipped <= 1 /\ (slipped = 1 => \A a \in Asks \cup Modes : ~Arming(script[a]))

(* The inductive invariant: the types; what is in the scripts and where the *)
(* goroutine is that has it; that one message at most has the session; and  *)
(* that in plan mode what was counted and what may still come are one.      *)
Inv == Types /\ Scripts /\ AskIsAdmitted /\ Gate /\ Planned

(* ------------------------------- scripts -------------------------------- *)

LEMMA RestOfScript ==
    ASSUME NEW s, WellMade(s), s # <<>>
    PROVE  /\ Head(s) = s[1] /\ Head(s) \in Steps /\ Rest(Tail(s))
           /\ Using(Tail(s)) => Using(s)
           /\ Head(s) \notin Idles => (Idling(Tail(s)) <=> Idling(s))
           /\ Head(s) \in Idles => Idling(s) /\ ~Idling(Tail(s))
           /\ Head(s) \in Tooling => Using(s)
<1>1. s \in Seq(Steps)
  BY DEF WellMade
<1>2. /\ Head(s) \in Steps /\ Tail(s) \in Seq(Steps) /\ Len(Tail(s)) = Len(s) - 1
      /\ \A i \in 1..Len(Tail(s)) : Tail(s)[i] = s[i + 1]
  BY <1>1, HeadTailProperties
<1>3. Len(s) \in Nat \ {0} /\ Head(s) = s[1]
  BY <1>1, EmptySeq
<1>4. \A i \in 1..Len(Tail(s)) : i + 1 \in 2..Len(s) /\ Tail(s)[i] = s[i + 1]
  BY <1>2, <1>3
<1>5. Rest(Tail(s))
  <2>1. \A i \in 1..Len(Tail(s)) : Tail(s)[i] \notin Armed
    BY <1>4 DEF WellMade
  <2>2. \A i, j \in 1..Len(Tail(s)) : Tail(s)[i] \in Idles /\ Tail(s)[j] \in Idles => i = j
    <3>1. SUFFICES ASSUME NEW i \in 1..Len(Tail(s)), NEW j \in 1..Len(Tail(s)), Tail(s)[i] \in Idles, Tail(s)[j] \in Idles
                   PROVE  i = j
      OBVIOUS
    <3>2. i + 1 \in 1..Len(s) /\ j + 1 \in 1..Len(s) /\ s[i + 1] \in Idles /\ s[j + 1] \in Idles
      BY <1>4, <3>1
    <3>3. i + 1 = j + 1
      BY <3>2 DEF WellMade
    <3>4. QED
      BY <3>3
  <2>3. QED
    BY <1>2, <2>1, <2>2 DEF Rest, WellMade
<1>6. Using(Tail(s)) => Using(s)
  BY <1>4 DEF Using
<1>7. Idling(Tail(s)) => Idling(s)
  BY <1>4 DEF Idling
<1>8. ASSUME Head(s) \notin Idles, Idling(s) PROVE Idling(Tail(s))
  <2>1. PICK i \in 1..Len(s) : s[i] \in Idles
    BY <1>8 DEF Idling
  <2>2. i - 1 \in 1..Len(Tail(s)) /\ Tail(s)[i - 1] = s[i]
    <3>1. i # 1
      BY <2>1, <1>8, <1>3
    <3>2. i - 1 \in 1..Len(Tail(s))
      BY <2>1, <3>1, <1>2, <1>3
    <3>3. Tail(s)[i - 1] = s[(i - 1) + 1]
      BY <3>2, <1>2
    <3>4. QED
      BY <3>2, <3>3, <2>1
  <2>3. QED
    BY <2>1, <2>2 DEF Idling
<1>9. ASSUME Head(s) \in Idles PROVE Idling(s) /\ ~Idling(Tail(s))
  <2>1. 1 \in 1..Len(s) /\ s[1] \in Idles
    BY <1>3, <1>9
  <2>2. \A i \in 2..Len(s) : s[i] \notin Idles
    <3>1. \A i \in 2..Len(s) : i \in 1..Len(s) /\ i # 1
      OBVIOUS
    <3>2. QED
      BY <2>1, <3>1 DEF WellMade
  <2>3. QED
    BY <2>1, <2>2, <1>4 DEF Idling
<1>10. Head(s) \in Tooling => Using(s)
  BY <1>3 DEF Using
<1>11. QED
  BY <1>2, <1>3, <1>5, <1>6, <1>7, <1>8, <1>9, <1>10

\* What a goroutine does first, before the rest of its script.
LEMMA Prepend ==
    ASSUME NEW t \in Seq(Calm \cup Asking), NEW u, Rest(u)
    PROVE  /\ Rest(t \o u) /\ ~Arming(t \o u)
           /\ Idling(t \o u) <=> Idling(u)
           /\ Using(t \o u) => Using(u) \/ t \notin Seq(Calm)
<1>1. t \in Seq(Steps) /\ u \in Seq(Steps)
  BY DEF Rest, WellMade, Steps, Tooling
<1>2. /\ t \o u \in Seq(Steps) /\ Len(t \o u) = Len(t) + Len(u)
      /\ \A i \in 1..Len(t) + Len(u) : (t \o u)[i] = IF i <= Len(t) THEN t[i] ELSE u[i - Len(t)]
  BY <1>1, ConcatProperties
<1>3. Len(t) \in Nat /\ Len(u) \in Nat
  BY <1>1
<1>4. \A i \in 1..Len(t) : t[i] \in Calm \cup Asking /\ t[i] \notin Armed /\ t[i] \notin Idles
  <2>1. \A i \in 1..Len(t) : t[i] \in Calm \cup Asking
    BY ElementOfSeq
  <2>2. QED
    BY <2>1, StepKinds
<1>5. \A i \in 1..Len(u) : (t \o u)[Len(t) + i] = u[i]
  BY <1>2, <1>3
<1>6. \A i \in 1..Len(t \o u) : (t \o u)[i] \notin Armed
  BY <1>2, <1>3, <1>4 DEF Rest
<1>7. \A i \in 1..Len(t \o u) : (t \o u)[i] \in Idles => i > Len(t) /\ (t \o u)[i] = u[i - Len(t)]
  BY <1>2, <1>3, <1>4
<1>8. WellMade(t \o u)
  <2>1. \A i, j \in 1..Len(t \o u) : (t \o u)[i] \in Idles /\ (t \o u)[j] \in Idles => i = j
    <3>1. SUFFICES ASSUME NEW i \in 1..Len(t \o u), NEW j \in 1..Len(t \o u), (t \o u)[i] \in Idles, (t \o u)[j] \in Idles
                   PROVE  i = j
      OBVIOUS
    <3>2. i - Len(t) \in 1..Len(u) /\ j - Len(t) \in 1..Len(u) /\ u[i - Len(t)] \in Idles /\ u[j - Len(t)] \in Idles
      BY <1>2, <1>3, <1>7, <3>1
    <3>3. i - Len(t) = j - Len(t)
      BY <3>2 DEF Rest, WellMade
    <3>4. QED
      BY <3>3, <1>2, <1>3
  <2>2. QED
    BY <1>2, <1>3, <1>6, <2>1 DEF WellMade
<1>9. ~Arming(t \o u)
  <2>1. SUFFICES ASSUME t \o u # <<>> PROVE Head(t \o u) \notin Armed
    BY DEF Arming
  <2>2. Len(t \o u) > 0 /\ Head(t \o u) = (t \o u)[1]
    BY <1>2, <2>1, EmptySeq
  <2>3. QED
    BY <2>2, <1>2, <1>3, <1>6
<1>10. Idling(t \o u) <=> Idling(u)
  <2>1. ASSUME Idling(t \o u) PROVE Idling(u)
    <3>1. PICK i \in 1..Len(t \o u) : (t \o u)[i] \in Idles
      BY <2>1 DEF Idling
    <3>2. i - Len(t) \in 1..Len(u) /\ u[i - Len(t)] \in Idles
      BY <3>1, <1>2, <1>3, <1>7
    <3>3. QED
      BY <3>2 DEF Idling
  <2>2. ASSUME Idling(u) PROVE Idling(t \o u)
    <3>1. PICK i \in 1..Len(u) : u[i] \in Idles
      BY <2>2 DEF Idling
    <3>2. Len(t) + i \in 1..Len(t \o u) /\ (t \o u)[Len(t) + i] \in Idles
      BY <3>1, <1>2, <1>3, <1>5
    <3>3. QED
      BY <3>2 DEF Idling
  <2>3. QED
    BY <2>1, <2>2
<1>11. ASSUME Using(t \o u), t \in Seq(Calm) PROVE Using(u)
  <2>1. PICK i \in 1..Len(t \o u) : (t \o u)[i] \in Tooling
    BY <1>11 DEF Using
  <2>2. \A k \in 1..Len(t) : t[k] \notin Tooling
    <3>1. \A k \in 1..Len(t) : t[k] \in Calm
      BY <1>11, ElementOfSeq
    <3>2. QED
      BY <3>1, StepKinds DEF Tooling
  <2>3. i - Len(t) \in 1..Len(u) /\ u[i - Len(t)] \in Tooling
    BY <2>1, <2>2, <1>2, <1>3
  <2>4. QED
    BY <2>3 DEF Using
<1>12. QED
  BY <1>6, <1>8, <1>9, <1>10, <1>11 DEF Rest

\* A write or a command may come first.
LEMMA PrependArmed ==
    ASSUME NEW c \in Armed, NEW u, Rest(u)
    PROVE  /\ WellMade(<<c>> \o u)
           /\ Idling(<<c>> \o u) <=> Idling(u)
<1>1. u \in Seq(Steps) /\ c \in Steps /\ c \notin Idles
  BY StepKinds DEF Rest, WellMade, Steps, Tooling
<1>2. /\ <<c>> \o u \in Seq(Steps) /\ Len(<<c>> \o u) = 1 + Len(u) /\ Len(u) \in Nat
      /\ \A i \in 1..1 + Len(u) : (<<c>> \o u)[i] = IF i <= 1 THEN c ELSE u[i - 1]
  <2>1. <<c>> \in Seq(Steps) /\ Len(<<c>>) = 1 /\ <<c>>[1] = c
    BY <1>1
  <2>2. QED
    BY <1>1, <2>1, ConcatProperties
<1>3. \A i \in 1..Len(u) : i + 1 \in 1..1 + Len(u) /\ (<<c>> \o u)[i + 1] = u[i]
  BY <1>2
<1>4. \A i \in 2..Len(<<c>> \o u) : i - 1 \in 1..Len(u) /\ (<<c>> \o u)[i] = u[i - 1]
  BY <1>2
<1>5. (<<c>> \o u)[1] \notin Idles
  BY <1>1, <1>2
<1>6. \A i, j \in 1..Len(<<c>> \o u) : (<<c>> \o u)[i] \in Idles /\ (<<c>> \o u)[j] \in Idles => i = j
  <2>1. SUFFICES ASSUME NEW i \in 1..Len(<<c>> \o u), NEW j \in 1..Len(<<c>> \o u),
                        (<<c>> \o u)[i] \in Idles, (<<c>> \o u)[j] \in Idles
                 PROVE  i = j
    OBVIOUS
  <2>2. i \in 2..Len(<<c>> \o u) /\ j \in 2..Len(<<c>> \o u)
    BY <2>1, <1>2, <1>5
  <2>3. i - 1 = j - 1
    BY <2>1, <2>2, <1>4 DEF Rest, WellMade
  <2>4. QED
    BY <2>2, <2>3, <1>2
<1>7. Idling(<<c>> \o u) <=> Idling(u)
  <2>1. ASSUME Idling(<<c>> \o u) PROVE Idling(u)
    <3>1. PICK i \in 1..Len(<<c>> \o u) : (<<c>> \o u)[i] \in Idles
      BY <2>1 DEF Idling
    <3>2. i \in 2..Len(<<c>> \o u)
      BY <3>1, <1>2, <1>5
    <3>3. QED
      BY <3>1, <3>2, <1>4 DEF Idling
  <2>2. ASSUME Idling(u) PROVE Idling(<<c>> \o u)
    BY <2>2, <1>2, <1>3 DEF Idling
  <2>3. QED
    BY <2>1, <2>2
<1>8. QED
  BY <1>2, <1>4, <1>6, <1>7 DEF WellMade, Rest

LEMMA Speaking ==
    /\ \A kind \in Kinds : Tell(kind) \in Seq(Saying)
    /\ \A id \in Nat, mark \in Marks : Put(id, mark) \in Seq(Saying) /\ Settle(id, mark) \in Seq(Saying)
    /\ \A id \in Nat : ShowDiff(id) \in Seq(Saying) /\ Fail(id) \in Seq(Saying)
    /\ \A id \in Nat, kind \in Marks : FinishShell(id, kind) \in Seq(Saying)
<1>1. ASSUME NEW kind \in Kinds, NEW id \in Nat PROVE NoteStep(kind, id) \in Saying /\ SendStep(Fragment(kind, id)) \in Saying
  <2>1. Entry(kind, id) \in Noted
    BY DEF Entry, Noted
  <2>2. Fragment(kind, id) \in Frames
    BY <2>1 DEF Fragment, Frames
  <2>3. QED
    BY <2>1, <2>2 DEF NoteStep, SendStep, Saying
<1>2. ASSUME NEW id \in Nat, NEW mark \in Marks PROVE SetStep(id, mark) \in Saying /\ SendStep(Patch(id, mark)) \in Saying
  <2>1. Patch(id, mark) \in Frames
    BY DEF Patch, Frames
  <2>2. QED
    BY <2>1 DEF SetStep, SendStep, Saying
<1>3. \A x, y \in Saying : <<x, y>> \in Seq(Saying)
  OBVIOUS
<1>4. <<>> \in Seq(Saying) /\ \A s, t \in Seq(Saying) : s \o t \in Seq(Saying)
  BY ConcatProperties
<1>5. ASSUME NEW kind \in Kinds PROVE Tell(kind) \in Seq(Saying)
  <2>1. NoteStep(kind, 0) \in Saying /\ SendStep(Fragment(kind, 0)) \in Saying
    BY <1>1
  <2>2. QED
    BY <2>1, <1>3 DEF Tell
<1>6. ASSUME NEW id \in Nat, NEW mark \in Marks PROVE Put(id, mark) \in Seq(Saying) /\ Settle(id, mark) \in Seq(Saying)
  <2>1. SetStep(id, mark) \in Saying /\ SendStep(Patch(id, mark)) \in Saying
    BY <1>2
  <2>2. Put(id, mark) \in Seq(Saying)
    BY <2>1, <1>3 DEF Put
  <2>3. QED
    BY <2>2, <1>4 DEF Settle
<1>7. ASSUME NEW id \in Nat PROVE ShowDiff(id) \in Seq(Saying) /\ Fail(id) \in Seq(Saying)
  <2>1. /\ Put(id, "diff") \in Seq(Saying) /\ Settle(id, "write") \in Seq(Saying)
        /\ Put(id, "note") \in Seq(Saying) /\ Settle(id, "deny") \in Seq(Saying)
    BY <1>6 DEF Marks
  <2>2. Put(id, "diff") \o Settle(id, "write") \in Seq(Saying) /\ Put(id, "note") \o Settle(id, "deny") \in Seq(Saying)
    BY <2>1, <1>4
  <2>3. QED
    BY <2>2, <1>4 DEF ShowDiff, Fail
<1>8. ASSUME NEW id \in Nat, NEW kind \in Marks PROVE FinishShell(id, kind) \in Seq(Saying)
  <2>1. SetStep(id, "out") \in Saying /\ SetStep(id, "exit") \in Saying /\ SendStep(Patch(id, "exit")) \in Saying
    BY <1>2 DEF Marks
  <2>2. <<SetStep(id, "out"), SetStep(id, "exit"), SendStep(Patch(id, "exit"))>> \in Seq(Saying)
    BY <2>1
  <2>3. Settle(id, kind) \in Seq(Saying)
    BY <1>6
  <2>4. <<SetStep(id, "out"), SetStep(id, "exit"), SendStep(Patch(id, "exit"))>> \o Settle(id, kind) \in Seq(Saying)
    BY <2>2, <2>3, <1>4
  <2>5. QED
    BY <2>4, <1>4 DEF FinishShell
<1>9. QED
  BY <1>5, <1>6, <1>7, <1>8

LEMMA SpokenFrames ==
    /\ StopButton \in Saying
    /\ \A v \in Nat : SendStep(Header("meter", v)) \in Saying /\ SendStep(Header("todos", v)) \in Saying
    /\ \A m \in {"plan", "act"} : SendStep(Header("mode", m)) \in Saying
    /\ \A id \in Nat : SendStep(Patch(id, "out")) \in Saying
    /\ \A id \in Nat : NoteStep("tool", id) \in Saying /\ SendStep(Fragment("tool", id)) \in Saying
<1>1. /\ Header("stop", 0) \in Frames
      /\ \A v \in Nat : Header("meter", v) \in Frames /\ Header("todos", v) \in Frames
      /\ \A m \in {"plan", "act"} : Header("mode", m) \in Frames
  BY DEF Header, Frames
<1>2. \A id \in Nat : Patch(id, "out") \in Frames
  BY DEF Patch, Frames, Marks
<1>3. \A id \in Nat : Entry("tool", id) \in Noted
  BY DEF Entry, Noted, Kinds
<1>4. \A id \in Nat : Fragment("tool", id) \in Frames
  BY <1>3 DEF Fragment, Frames
<1>5. \A f \in Frames : SendStep(f) \in Saying
  BY DEF SendStep, Saying
<1>6. \A id \in Nat : NoteStep("tool", id) \in Saying
  BY <1>3 DEF NoteStep, Saying
<1>7. QED
  BY <1>1, <1>2, <1>4, <1>5, <1>6 DEF StopButton

LEMMA Scripting ==
    /\ \A kind \in Kinds : Tell(kind) \in Seq(Calm)
    /\ \A id \in Nat, mark \in Marks : Put(id, mark) \in Seq(Calm) /\ Settle(id, mark) \in Seq(Calm)
    /\ \A id \in Nat : ShowDiff(id) \in Seq(Calm) /\ Fail(id) \in Seq(Calm)
    /\ \A id \in Nat, kind \in Marks : FinishShell(id, kind) \in Seq(Calm)
<1>1. \A t \in Seq(Saying) : t \in Seq(Calm)
  BY SeqMonotonic DEF Calm
<1>2. QED
  BY <1>1, Speaking

LEMMA FrameSteps ==
    /\ StopButton \in Calm
    /\ \A v \in Nat : SendStep(Header("meter", v)) \in Calm /\ SendStep(Header("todos", v)) \in Calm
    /\ \A m \in {"plan", "act"} : SendStep(Header("mode", m)) \in Calm
    /\ \A id \in Nat : SendStep(Patch(id, "out")) \in Calm
    /\ \A id \in Nat : NoteStep("tool", id) \in Calm /\ SendStep(Fragment("tool", id)) \in Calm
BY SpokenFrames DEF Calm

\* The messages of a response.
LEMMA Announcing ==
    ASSUME NEW calls \in Seq(Called)
    PROVE  AnnounceAll(calls) \in Seq(Calm)
<1>1. ASSUME NEW call \in Called, NEW k \in 1..3 PROVE Announce(call)[k] \in Calm
  <2>1. call.id \in Nat
    BY DEF Called
  <2>2. [do |-> "queue", call |-> call] \in Calm /\ NoteStep("tool", call.id) \in Calm /\ SendStep(Fragment("tool", call.id)) \in Calm
    BY <2>1, FrameSteps DEF Calm, Saying
  <2>3. QED
    BY <2>2 DEF Announce
<1>2. \A i \in 1..3 * Len(calls) : ((i - 1) \div 3) + 1 \in 1..Len(calls) /\ ((i - 1) % 3) + 1 \in 1..3
  <2>1. Len(calls) \in Nat
    OBVIOUS
  <2>2. QED
    BY <2>1
<1>3. \A i \in 1..3 * Len(calls) : Announce(calls[((i - 1) \div 3) + 1])[((i - 1) % 3) + 1] \in Calm
  BY <1>1, <1>2, ElementOfSeq
<1>4. 3 * Len(calls) \in Nat
  OBVIOUS
<1>5. QED
  BY <1>3, <1>4 DEF AnnounceAll

LEMMA ToolScripting ==
    ASSUME NEW call \in Called
    PROVE  /\ ToolScript(call) \in Seq(Calm \cup Asking)
           /\ call.name # "other" => \A card \in Nat : WithCard(call, card) \in Seq(Calm \cup Asking)
<1>1. call.id \in Nat /\ call.name \in Names
  BY DEF Called
<1>2. Tell("deny") \in Seq(Calm \cup Asking)
  <2>1. Tell("deny") \in Seq(Calm)
    BY Scripting DEF Kinds
  <2>2. QED
    BY <2>1, SeqMonotonic
<1>3. call.name # "other" => [do |-> "claim", call |-> call] \in Calm \cup Asking
  BY DEF Asking
<1>4. [do |-> "todos", call |-> call] \in Calm \cup Asking /\ SendStep(Header("todos", call.id)) \in Calm \cup Asking
  BY <1>1, FrameSteps DEF Calm, Saying
<1>5. ToolScript(call) \in Seq(Calm \cup Asking)
  <2>1. CASE call.name = "other"
    BY <2>1, <1>2 DEF ToolScript
  <2>2. CASE call.name # "other" /\ ~call.decodes
    BY <2>2 DEF ToolScript
  <2>3. CASE call.name # "other" /\ call.decodes /\ call.name = "todo"
    BY <2>3, <1>3, <1>4 DEF ToolScript
  <2>4. CASE call.name # "other" /\ call.decodes /\ call.name # "todo"
    BY <2>4, <1>3 DEF ToolScript
  <2>5. QED
    BY <2>1, <2>2, <2>3, <2>4
<1>6. ASSUME call.name # "other", NEW card \in Nat PROVE WithCard(call, card) \in Seq(Calm \cup Asking)
  <2>1. CASE call.name \in {"read", "todo"}
    <3>1. Settle(card, "read") \in Seq(Calm)
      BY Scripting DEF Marks
    <3>2. QED
      BY <2>1, <3>1, SeqMonotonic DEF WithCard
  <2>2. CASE call.name \notin {"read", "todo"}
    <3>1. call \in Risky
      BY <2>2, <1>1, <1>6 DEF Called, Risky, Names
    <3>2. [do |-> "plan", call |-> call, card |-> card] \in Calm \cup Asking
      BY <3>1 DEF Asking
    <3>3. QED
      BY <2>2, <3>2 DEF WithCard
  <2>3. QED
    BY <2>1, <2>2
<1>7. QED
  BY <1>5, <1>6

LEMMA Empty == Rest(<<>>) /\ ~Idling(<<>>) /\ ~Using(<<>>) /\ ~Arming(<<>>)
<1>1. <<>> \in Seq(Steps) /\ Len(<<>>) = 0
  OBVIOUS
<1>2. QED
  BY <1>1 DEF Rest, WellMade, Idling, Using, Arming

LEMMA Calming ==
    ASSUME NEW t \in Seq(Calm)
    PROVE  Rest(t) /\ ~Idling(t) /\ ~Using(t) /\ ~Arming(t)
<1>1. t \in Seq(Calm \cup Asking) /\ t \o <<>> = t
  BY SeqMonotonic, ConcatEmptySeq
<1>2. QED
  BY <1>1, Prepend, Empty

\* A turn ends with its last messages, and idle after them.
LEMMA Ending ==
    \A r \in {Failed, Finish} : Rest(r) /\ Idling(r) /\ ~Using(r) /\ ~Arming(r)
<1>1. Do("idle") \in Idles /\ StopButton \in Calm /\ Do("meter") \in Calm
  BY FrameSteps DEF Do, Idles, Calm, Saying
<1>2. Idle \in Seq(Steps) /\ Len(Idle) = 2 /\ Idle[1] = Do("idle") /\ Idle[2] = StopButton
  BY <1>1 DEF Idle, Steps
<1>3. Do("idle") \notin Armed /\ Do("idle") \notin Tooling /\ StopButton \notin Armed /\ StopButton \notin Tooling /\ StopButton \notin Idles
  BY <1>1, StepKinds DEF Tooling
<1>4. 1..Len(Idle) = {1, 2}
  BY <1>2
<1>5. Rest(Idle) /\ Idling(Idle) /\ ~Using(Idle)
  <2>1. \A i \in 1..Len(Idle) : Idle[i] \notin Armed /\ Idle[i] \notin Tooling
    BY <1>2, <1>3, <1>4
  <2>2. \A i \in 1..Len(Idle) : Idle[i] \in Idles <=> i = 1
    BY <1>1, <1>2, <1>3, <1>4
  <2>3. 1 \in 1..Len(Idle)
    BY <1>4
  <2>4. \A i \in 2..Len(Idle) : i \in 1..Len(Idle)
    BY <1>2
  <2>5. Idling(Idle)
    BY <2>2, <2>3 DEF Idling
  <2>6. ~Using(Idle)
    BY <2>1 DEF Using
  <2>7. WellMade(Idle)
    BY <1>2, <2>1, <2>2, <2>4 DEF WellMade
  <2>8. QED
    BY <2>1, <2>5, <2>6, <2>7 DEF Rest
<1>6. /\ Tell("error") \in Seq(Calm) /\ Tell("error") \in Seq(Calm \cup Asking)
      /\ <<Do("meter")>> \in Seq(Calm) /\ <<Do("meter")>> \in Seq(Calm \cup Asking)
  <2>1. Tell("error") \in Seq(Calm)
    BY Scripting DEF Kinds
  <2>2. <<Do("meter")>> \in Seq(Calm)
    BY <1>1
  <2>3. QED
    BY <2>1, <2>2, SeqMonotonic
<1>7. Rest(Failed) /\ Idling(Failed) /\ ~Using(Failed) /\ ~Arming(Failed)
  <2>1. Tell("error") \in Seq(Calm) /\ Tell("error") \in Seq(Calm \cup Asking)
    BY <1>6
  <2>2. QED
    BY <1>5, <2>1, Prepend DEF Failed
<1>8. Rest(Finish) /\ Idling(Finish) /\ ~Using(Finish) /\ ~Arming(Finish)
  BY <1>5, <1>6, Prepend DEF Finish
<1>9. QED
  BY <1>7, <1>8

\* Before it ends its last text is told.
LEMMA LastText == Rest(Tell("agent")) /\ ~Idling(Tell("agent")) /\ ~Using(Tell("agent")) /\ ~Arming(Tell("agent"))
<1>1. Tell("agent") \in Seq(Calm)
  BY Scripting DEF Kinds
<1> QED
  BY <1>1, Calming

(* ------------------------------ steps of a script ----------------------- *)

LEMMA ArmingUses == ASSUME NEW s, s \in Seq(Steps), Arming(s) PROVE Using(s)
<1>1. 1 \in 1..Len(s) /\ Head(s) = s[1]
  BY EmptySeq DEF Arming
<1>2. QED
  BY <1>1 DEF Arming, Using, Tooling

\* A script changes, and not what the gate depends on.
LEMMA Scripted ==
    ASSUME Inv, NEW a \in Asks \cup Modes,
           NEW r, Rest(r), ~Arming(r), Idling(r) <=> Idling(script[a]), Using(r) => Using(script[a]),
           script' = [script EXCEPT ![a] = r], UNCHANGED <<at, busy, inFlight>>,
           \/ mode' = mode /\ slipped' = slipped
           \/ mode' = mode /\ slipped' = slipped + 1 /\ Arming(script[a])
           \/ slipped' = 0
    PROVE  Scripts' /\ AskIsAdmitted' /\ Gate' /\ Planned' /\ script' \in [Asks \cup Modes -> Seq(Steps)]
<1>1. script \in [Asks \cup Modes -> Seq(Steps)] /\ r \in Seq(Steps)
  BY DEF Inv, Types, Rest, WellMade
<1>2. script' \in [Asks \cup Modes -> Seq(Steps)] /\ script'[a] = r /\ \A b \in Asks \cup Modes : b # a => script'[b] = script[b]
  BY <1>1
<1>3. \A b \in Asks \cup Modes : Idling(script'[b]) <=> Idling(script[b])
  BY <1>2
<1>4. \A b \in Asks \cup Modes : Using(script'[b]) => Using(script[b])
  BY <1>2
<1>5. \A b \in Asks \cup Modes : WellMade(script'[b])
  BY <1>2 DEF Rest, Inv, Scripts
<1>6. Scripts'
  BY <1>3, <1>4, <1>5 DEF Inv, Scripts
<1>7. AskIsAdmitted'
  BY DEF Inv, AskIsAdmitted
<1>8. \A n \in Asks : Active(n)' <=> Active(n)
  BY <1>3 DEF Active
<1>9. Gate'
  BY <1>8 DEF Inv, Gate
<1>10. \A b \in Asks \cup Modes : Arming(script'[b]) => b # a /\ Arming(script[b])
  BY <1>2
<1>11. Planned'
  <2>1. CASE slipped' = 0
    BY <2>1 DEF Planned
  <2>2. CASE mode' = mode /\ slipped' = slipped
    BY <2>2, <1>10 DEF Inv, Planned
  <2>3. CASE mode' = mode /\ slipped' = slipped + 1 /\ Arming(script[a])
    <3>1. SUFFICES ASSUME mode = "plan" PROVE slipped' <= 1 /\ \A b \in Asks \cup Modes : ~Arming(script'[b])
      BY <2>3 DEF Planned
    <3>2. slipped \in Nat /\ slipped <= 1 /\ (slipped = 1 => \A b \in Asks \cup Modes : ~Arming(script[b]))
      BY <3>1 DEF Inv, Types, Planned
    <3>3. slipped = 0
      BY <3>2, <2>3
    <3>4. \A b \in Asks \cup Modes : Arming(script[b]) => b \in Asks /\ at[b] = "tools"
      BY <1>1, ArmingUses DEF Inv, Scripts
    <3>5. \A b \in Asks \cup Modes : Arming(script[b]) => b = a
      BY <3>4, <2>3 DEF Inv, Gate, Active, Holding
    <3>6. QED
      BY <3>3, <3>5, <2>3, <1>10
  <2>4. QED
    BY <2>1, <2>2, <2>3
<1>12. QED
  BY <1>2, <1>6, <1>7, <1>9, <1>11

\* A goroutine does the first step of its script, which is not idle, and has t to do
\* before the rest.
LEMMA Works ==
    ASSUME Inv, NEW a \in Asks \cup Modes, script[a] # <<>>, Head(script[a]) \notin Idles,
           NEW t \in Seq(Calm \cup Asking), t \in Seq(Calm) \/ Head(script[a]) \in Tooling,
           Then(a, t), UNCHANGED <<at, busy, inFlight, mode>>,
           slipped' = slipped \/ (slipped' = slipped + 1 /\ Head(script[a]) \in Armed)
    PROVE  Scripts' /\ AskIsAdmitted' /\ Gate' /\ Planned' /\ script' \in [Asks \cup Modes -> Seq(Steps)]
<1> DEFINE u == Tail(script[a])
<1>1. WellMade(script[a])
  BY DEF Inv, Scripts
<1>2. /\ Rest(u) /\ (Using(u) => Using(script[a])) /\ (Idling(u) <=> Idling(script[a]))
      /\ Head(script[a]) \in Tooling => Using(script[a])
  BY <1>1, RestOfScript
<1>3. /\ Rest(t \o u) /\ ~Arming(t \o u) /\ (Idling(t \o u) <=> Idling(u))
      /\ Using(t \o u) => Using(u) \/ t \notin Seq(Calm)
  BY <1>2, Prepend
<1>4. (Idling(t \o u) <=> Idling(script[a])) /\ (Using(t \o u) => Using(script[a]))
  BY <1>2, <1>3
<1>5. script' = [script EXCEPT ![a] = t \o u]
  BY DEF Then
<1>6. \/ mode' = mode /\ slipped' = slipped
      \/ mode' = mode /\ slipped' = slipped + 1 /\ Arming(script[a])
  BY DEF Arming
<1> HIDE DEF u
<1>7. QED
  BY <1>3, <1>4, <1>5, <1>6, Scripted

\* A goroutine says something before it goes on.
LEMMA Interjects ==
    ASSUME Inv, NEW a \in Asks \cup Modes, script[a] # <<>>, Head(script[a]) \in Calm,
           NEW t \in Seq(Calm), script' = [script EXCEPT ![a] = t \o @],
           UNCHANGED <<at, busy, inFlight, mode, slipped>>
    PROVE  Scripts' /\ AskIsAdmitted' /\ Gate' /\ Planned' /\ script' \in [Asks \cup Modes -> Seq(Steps)]
<1>1. WellMade(script[a])
  BY DEF Inv, Scripts
<1>2. Rest(script[a])
  <2>1. script[a][1] \notin Armed
    <3>1. Head(script[a]) = script[a][1]
      BY <1>1, RestOfScript
    <3>2. QED
      BY <3>1, StepKinds
  <2>2. \A i \in 1..Len(script[a]) : i = 1 \/ i \in 2..Len(script[a])
    OBVIOUS
  <2>3. QED
    BY <1>1, <2>1, <2>2 DEF Rest, WellMade
<1>3. t \in Seq(Calm \cup Asking)
  BY SeqMonotonic
<1>4. Rest(t \o script[a]) /\ ~Arming(t \o script[a]) /\ (Idling(t \o script[a]) <=> Idling(script[a]))
      /\ (Using(t \o script[a]) => Using(script[a]))
  BY <1>2, <1>3, Prepend
<1>5. QED
  BY <1>4, Scripted

\* A goroutine that has done its script goes to the next place.
LEMMA Moves ==
    ASSUME Inv, NEW n \in Asks, NEW l \in Places \ {"refused"}, at' = [at EXCEPT ![n] = l],
           NEW r, Rest(r), ~Arming(r), Idling(r) => l = "left", Using(r) => l = "tools",
           script' = [script EXCEPT ![n] = r],
           Active(n) \/ \A m \in Asks : ~Active(m),
           busy' = TRUE \/ (busy' = busy /\ Active(n)),
           inFlight' => l \in Holding \/ (inFlight /\ at[n] \notin Holding),
           UNCHANGED <<mode, slipped>>
    PROVE  Scripts' /\ AskIsAdmitted' /\ Gate' /\ Planned'
           /\ script' \in [Asks \cup Modes -> Seq(Steps)] /\ at' \in [Asks -> Places]
<1>1. script \in [Asks \cup Modes -> Seq(Steps)] /\ r \in Seq(Steps) /\ at \in [Asks -> Places]
  BY DEF Inv, Types, Rest, WellMade
<1>2. script' \in [Asks \cup Modes -> Seq(Steps)] /\ script'[n] = r /\ \A b \in Asks \cup Modes : b # n => script'[b] = script[b]
  BY <1>1
<1>3. at' \in [Asks -> Places] /\ at'[n] = l /\ \A m \in Asks : m # n => at'[m] = at[m]
  BY <1>1
<1>4. Scripts'
  <2>1. SUFFICES ASSUME NEW a \in Asks \cup Modes
                 PROVE  /\ WellMade(script'[a])
                        /\ Idling(script'[a]) => a \in Asks /\ at'[a] = "left"
                        /\ Using(script'[a]) => a \in Asks /\ at'[a] = "tools"
    BY DEF Scripts
  <2>2. CASE a = n
    BY <2>2, <1>2, <1>3 DEF Rest
  <2>3. CASE a # n
    BY <2>3, <1>2, <1>3 DEF Inv, Scripts
  <2>4. QED
    BY <2>2, <2>3
<1>5. AskIsAdmitted'
  BY <1>3 DEF Inv, AskIsAdmitted
<1>6. \A m \in Asks : m # n => (Active(m)' <=> Active(m))
  BY <1>2, <1>3 DEF Active
<1>7. Gate'
  <2>1. \A m \in Asks : Active(m)' => m = n
    BY <1>6 DEF Inv, Gate
  <2>2. \A m \in Asks : Active(m)' => busy'
    BY <2>1 DEF Inv, Gate
  <2>3. inFlight' => \E m \in Asks : at'[m] \in Holding
    BY <1>3 DEF Inv, Gate
  <2>4. QED
    BY <2>1, <2>2, <2>3 DEF Gate
<1>8. Planned'
  BY <1>2 DEF Inv, Planned
<1>9. QED
  BY <1>2, <1>3, <1>4, <1>5, <1>7, <1>8

LEMMA Kept ==
    ASSUME Inv, UNCHANGED <<script, at, busy, inFlight, mode, slipped>>
    PROVE  Scripts' /\ AskIsAdmitted' /\ Gate' /\ Planned'
<1>1. Scripts' /\ AskIsAdmitted' /\ Planned'
  BY DEF Inv, Scripts, AskIsAdmitted, Planned
<1>2. \A n \in Asks : Active(n)' <=> Active(n)
  BY DEF Active
<1>3. Gate'
  BY <1>2 DEF Inv, Gate
<1>4. QED
  BY <1>1, <1>3

LEMMA Fields ==
    ASSUME NEW s \in Steps
    PROVE  /\ s.do \in {"queue", "todos"} => s.call \in Called
           /\ s.do = "claim" => s.call \in Called /\ s.call.name # "other"
           /\ s.do = "plan" => s.call \in Risky /\ s.card \in Nat
           /\ s.do \in {"write", "shell"} => s.card \in Nat
<1>1. s.do \in {"queue", "todos"} => s \in [do : {"queue", "todos"}, call : Called]
  BY KindsApart DEF Calm, Saying
<1>2. s.do = "claim" => s \in [do : {"claim"}, call : {c \in Called : c.name # "other"}]
  BY KindsApart DEF Asking
<1>3. s.do = "plan" => s \in [do : {"plan"}, call : Risky, card : Nat]
  BY KindsApart DEF Asking
<1>4. s.do \in {"write", "shell"} => s \in Armed
  BY KindsApart
<1>5. QED
  BY <1>1, <1>2, <1>3, <1>4 DEF Armed

LEMMA Doings ==
    ASSUME Inv, NEW a \in Asks \cup Modes, NEW what, Doing(a, what)
    PROVE  script[a] # <<>> /\ Head(script[a]) \in Steps /\ Now(a) = Head(script[a]) /\ Now(a).do = what
<1>1. WellMade(script[a]) /\ script[a] # <<>> /\ Head(script[a]).do = what
  BY DEF Inv, Scripts, Doing
<1>2. QED
  BY <1>1, RestOfScript DEF Now

LEMMA Nothing == <<>> \in Seq(Calm) /\ <<>> \in Seq(Calm \cup Asking)
OBVIOUS

\* The types of what a step leaves alone.
Still == UNCHANGED <<at, busy, inFlight, made, work, mode>>

LEMMA SaysInv ==
    ASSUME Inv, NEW a \in Asks \cup Modes, Send(a) \/ Note(a) \/ UpdateCard(a) \/ ShellRead(a)
    PROVE  Inv'
<1>1. /\ Then(a, <<>>) \/ Then(a, <<Do("wait")>>)
      /\ Still /\ UNCHANGED <<slipped, turns, pending, shell>>
  BY DEF Send, Note, UpdateCard, ShellRead, Still, own, core, cmd
<1>2. script[a] # <<>> /\ Head(script[a]) \notin Idles
  <2>1. \E what \in {"send", "note", "set", "scan"} : Doing(a, what)
    BY DEF Send, Note, UpdateCard, ShellRead
  <2>2. QED
    BY <2>1, Doings, KindsApart
<1>3. <<Do("wait")>> \in Seq(Calm) /\ <<Do("wait")>> \in Seq(Calm \cup Asking)
  <2>1. Do("wait") \in Calm
    BY DEF Do, Calm, Saying
  <2>2. QED
    BY <2>1
<1>4. Scripts' /\ AskIsAdmitted' /\ Gate' /\ Planned' /\ script' \in [Asks \cup Modes -> Seq(Steps)]
  <2>1. CASE Then(a, <<>>)
    BY <2>1, <1>1, <1>2, Nothing, Works DEF Still
  <2>2. CASE Then(a, <<Do("wait")>>)
    BY <2>2, <1>1, <1>2, <1>3, Works DEF Still
  <2>3. QED
    BY <1>1, <2>1, <2>2
<1>5. QED
  BY <1>1, <1>4 DEF Inv, Types, Still

LEMMA QueueCardInv == ASSUME Inv, NEW a \in Asks \cup Modes, QueueCard(a) PROVE Inv'
<1>1. script[a] # <<>> /\ Head(script[a]) \in Steps /\ Now(a) = Head(script[a]) /\ Now(a).do = "queue"
  BY Doings DEF QueueCard
<1>2. Head(script[a]) \notin Idles /\ Now(a).call \in Called
  BY <1>1, KindsApart, Fields
<1>3. Then(a, <<>>) /\ Still /\ UNCHANGED <<slipped, turns, shell>>
  BY DEF QueueCard, Still, core, cmd
<1>4. Scripts' /\ AskIsAdmitted' /\ Gate' /\ Planned' /\ script' \in [Asks \cup Modes -> Seq(Steps)]
  BY <1>1, <1>2, <1>3, Nothing, Works DEF Still
<1>5. pending' \in [Names -> Seq(Nat)]
  <2>1. Now(a).call.id \in Nat
    BY <1>2 DEF Called
  <2>2. pending \in [Names -> Seq(Nat)]
    BY DEF Inv, Types
  <2>3. \A n \in Names : Append(pending[n], Now(a).call.id) \in Seq(Nat)
    BY <2>1, <2>2
  <2>4. pending' = [pending EXCEPT ![Now(a).call.name] = Append(@, Now(a).call.id)]
    BY DEF QueueCard
  <2>5. QED
    BY <2>2, <2>3, <2>4
<1>6. QED
  BY <1>3, <1>4, <1>5 DEF Inv, Types, Still

LEMMA ClaimCardInv == ASSUME Inv, NEW a \in Asks \cup Modes, ClaimCard(a) PROVE Inv'
<1> DEFINE q == pending[Now(a).call.name]
           card == IF q = <<>> THEN 0 ELSE Head(q)
<1>1. script[a] # <<>> /\ Head(script[a]) \in Steps /\ Now(a) = Head(script[a]) /\ Now(a).do = "claim"
  BY Doings DEF ClaimCard
<1>2. Head(script[a]) \notin Idles /\ Head(script[a]) \in Tooling /\ Now(a).call \in Called /\ Now(a).call.name # "other"
  <2>1. Head(script[a]) \notin Idles /\ Head(script[a]) \in Asking
    BY <1>1, KindsApart
  <2>2. QED
    BY <1>1, <2>1, Fields DEF Tooling
<1>3. /\ Then(a, WithCard(Now(a).call, card)) /\ Still /\ UNCHANGED <<slipped, turns, shell>>
      /\ pending' = [pending EXCEPT ![Now(a).call.name] = IF @ = <<>> THEN @ ELSE Tail(@)]
  BY DEF ClaimCard, Still, core, cmd
<1>4. pending \in [Names -> Seq(Nat)] /\ Now(a).call.name \in Names
  BY <1>2 DEF Inv, Types, Called
<1>5. card \in Nat
  <2>1. q \in Seq(Nat)
    BY <1>4
  <2>2. q # <<>> => Head(q) \in Nat
    BY <2>1, HeadTailProperties
  <2>3. QED
    BY <2>2
<1>6. WithCard(Now(a).call, card) \in Seq(Calm \cup Asking)
  BY <1>2, <1>5, ToolScripting
<1>7. Scripts' /\ AskIsAdmitted' /\ Gate' /\ Planned' /\ script' \in [Asks \cup Modes -> Seq(Steps)]
  <2> HIDE DEF card
  <2> QED
    BY <1>1, <1>2, <1>3, <1>6, Works DEF Still
<1>8. pending' \in [Names -> Seq(Nat)]
  <2>1. \A n \in Names : (IF pending[n] = <<>> THEN pending[n] ELSE Tail(pending[n])) \in Seq(Nat)
    BY <1>4, HeadTailProperties
  <2>2. QED
    BY <1>3, <1>4, <2>1
<1>9. QED
  BY <1>3, <1>7, <1>8 DEF Inv, Types, Still

LEMMA SetTodosInv == ASSUME Inv, NEW a \in Asks \cup Modes, SetTodos(a) PROVE Inv'
<1>1. script[a] # <<>> /\ Head(script[a]) \in Steps /\ Now(a).do = "todos" /\ Now(a) = Head(script[a])
  BY Doings DEF SetTodos
<1>2. Head(script[a]) \notin Idles
  BY <1>1, KindsApart
<1>3. Then(a, <<>>) /\ Still /\ UNCHANGED <<slipped, turns, shell, pending>>
  BY DEF SetTodos, Still, core, cmd
<1>4. Scripts' /\ AskIsAdmitted' /\ Gate' /\ Planned' /\ script' \in [Asks \cup Modes -> Seq(Steps)]
  BY <1>1, <1>2, <1>3, Nothing, Works DEF Still
<1>5. QED
  BY <1>3, <1>4 DEF Inv, Types, Still

LEMMA MeterInv == ASSUME Inv, NEW a \in Asks \cup Modes, Meter(a) PROVE Inv'
<1>1. script[a] # <<>> /\ Head(script[a]) \in Steps /\ Now(a).do = "meter" /\ Now(a) = Head(script[a])
  BY Doings DEF Meter
<1>2. Head(script[a]) \notin Idles
  BY <1>1, KindsApart
<1>3. /\ Then(a, <<SendStep(Header("meter", turns + 1))>>) /\ Still /\ UNCHANGED <<slipped, shell, pending>>
      /\ turns' = turns + 1 /\ turns \in Nat
  BY DEF Meter, Still, core, cmd, Inv, Types
<1>4. SendStep(Header("meter", turns + 1)) \in Calm
  BY <1>3, FrameSteps
<1>5. <<SendStep(Header("meter", turns + 1))>> \in Seq(Calm) /\ <<SendStep(Header("meter", turns + 1))>> \in Seq(Calm \cup Asking)
  BY <1>4
<1>6. Scripts' /\ AskIsAdmitted' /\ Gate' /\ Planned' /\ script' \in [Asks \cup Modes -> Seq(Steps)]
  BY <1>1, <1>2, <1>3, <1>5, Works DEF Still
<1>7. QED
  BY <1>3, <1>6 DEF Inv, Types, Still

\* Idle: the message gives the session back, and nobody else had it.
LEMMA GoIdleInv == ASSUME Inv, NEW a \in Asks \cup Modes, GoIdle(a) PROVE Inv'
<1>1. script[a] # <<>> /\ Head(script[a]) \in Steps /\ Now(a).do = "idle" /\ Now(a) = Head(script[a])
  BY Doings DEF GoIdle
<1>2. Head(script[a]) \in Idles
  BY <1>1, KindsApart
<1>3. /\ script' = [script EXCEPT ![a] = <<>> \o Tail(script[a])] /\ busy' = FALSE
      /\ UNCHANGED <<at, inFlight, made, work, mode, slipped, turns, shell>>
      /\ pending' = [n \in Names |-> <<>>]
  BY DEF GoIdle, Then, core, cmd
<1>4. script \in [Asks \cup Modes -> Seq(Steps)] /\ WellMade(script[a])
  BY DEF Inv, Types, Scripts
<1>5. /\ Rest(Tail(script[a])) /\ Tail(script[a]) \in Seq(Steps) /\ (Using(Tail(script[a])) => Using(script[a]))
      /\ ~Idling(Tail(script[a])) /\ Idling(script[a])
  BY <1>1, <1>2, <1>4, RestOfScript DEF Rest, WellMade
<1>6. <<>> \o Tail(script[a]) = Tail(script[a])
  BY <1>5, ConcatEmptySeq
<1>7. script' \in [Asks \cup Modes -> Seq(Steps)] /\ script'[a] = Tail(script[a]) /\ \A b \in Asks \cup Modes : b # a => script'[b] = script[b]
  BY <1>3, <1>4, <1>5, <1>6
<1>8. a \in Asks /\ at[a] = "left" /\ Active(a)
  BY <1>5 DEF Inv, Scripts, Active
<1>9. Scripts'
  <2>1. \A b \in Asks \cup Modes : WellMade(script'[b]) /\ (Idling(script'[b]) => Idling(script[b])) /\ (Using(script'[b]) => Using(script[b]))
    BY <1>5, <1>7 DEF Rest, Inv, Scripts
  <2>2. QED
    BY <1>3, <2>1 DEF Inv, Scripts
<1>10. \A n \in Asks : ~Active(n)'
  <2>1. \A n \in Asks : n # a => ~Active(n)
    BY <1>8 DEF Inv, Gate
  <2>2. QED
    BY <1>3, <1>5, <1>7, <1>8, <2>1 DEF Active, Holding
<1>11. ~inFlight
  <2>1. \A n \in Asks : at[n] \in Holding => n = a
    BY <1>8 DEF Inv, Gate, Active
  <2>2. QED
    BY <2>1, <1>8 DEF Inv, Gate, Holding
<1>12. Gate'
  BY <1>3, <1>10, <1>11 DEF Gate
<1>13. Planned'
  <2>1. \A b \in Asks \cup Modes : Arming(script'[b]) => Arming(script[b])
    <3>1. ~Arming(Tail(script[a]))
      <4>1. Tail(script[a]) # <<>> => Head(Tail(script[a])) = Tail(script[a])[1] /\ 1 \in 1..Len(Tail(script[a]))
        BY <1>5, EmptySeq
      <4>2. QED
        BY <4>1, <1>5 DEF Arming, Rest
    <3>2. QED
      BY <3>1, <1>7
  <2>2. QED
    BY <1>3, <2>1 DEF Inv, Planned
<1>14. pending' \in [Names -> Seq(Nat)]
  BY <1>3
<1>15. QED
  BY <1>3, <1>7, <1>9, <1>12, <1>13, <1>14 DEF Inv, Types, AskIsAdmitted

\* A write or a command is let through, which it is not in plan mode.
LEMMA CheckPlanInv == ASSUME Inv, NEW a \in Asks \cup Modes, CheckPlan(a) PROVE Inv'
<1> DEFINE c == [do |-> Now(a).call.name, card |-> Now(a).card]
<1>1. script[a] # <<>> /\ Head(script[a]) \in Steps /\ Now(a).do = "plan" /\ Now(a) = Head(script[a])
  BY Doings DEF CheckPlan
<1>2. Head(script[a]) \notin Idles /\ Head(script[a]) \in Tooling /\ Now(a).call \in Risky /\ Now(a).card \in Nat
  <2>1. Head(script[a]) \notin Idles /\ Head(script[a]) \in Asking
    BY <1>1, KindsApart
  <2>2. QED
    BY <1>1, <2>1, Fields DEF Tooling
<1>3. Still /\ UNCHANGED <<busy, slipped, turns, pending, shell>>
  BY DEF CheckPlan, Still, own, core, cmd
<1>4. Then(a, Fail(Now(a).card)) \/ (mode # "plan" /\ Then(a, <<c>>))
  BY DEF CheckPlan
<1>5. Scripts' /\ AskIsAdmitted' /\ Gate' /\ Planned' /\ script' \in [Asks \cup Modes -> Seq(Steps)]
  <2>1. CASE Then(a, Fail(Now(a).card))
    <3>1. Fail(Now(a).card) \in Seq(Calm) /\ Fail(Now(a).card) \in Seq(Calm \cup Asking)
      BY <1>2, Scripting, SeqMonotonic
    <3>2. QED
      BY <2>1, <3>1, <1>1, <1>2, <1>3, Works DEF Still
  <2>2. CASE mode # "plan" /\ Then(a, <<c>>)
    <3>1. c \in Armed
      BY <1>2 DEF Armed, Risky
    <3>2. WellMade(script[a]) /\ script \in [Asks \cup Modes -> Seq(Steps)] /\ Using(script[a])
      BY <1>1, <1>2, RestOfScript DEF Inv, Types, Scripts
    <3>3. /\ Rest(Tail(script[a])) /\ (Idling(Tail(script[a])) <=> Idling(script[a]))
      BY <3>2, <1>1, <1>2, RestOfScript
    <3>4. /\ WellMade(<<c>> \o Tail(script[a])) /\ (Idling(<<c>> \o Tail(script[a])) <=> Idling(script[a]))
      BY <3>1, <3>3, PrependArmed
    <3> HIDE DEF c
    <3>5. script' = [script EXCEPT ![a] = <<c>> \o Tail(script[a])]
      BY <2>2 DEF Then
    <3>6. <<c>> \o Tail(script[a]) \in Seq(Steps)
      BY <3>4 DEF WellMade
    <3>7. script' \in [Asks \cup Modes -> Seq(Steps)] /\ script'[a] = <<c>> \o Tail(script[a])
          /\ \A b \in Asks \cup Modes : b # a => script'[b] = script[b]
      BY <3>2, <3>5, <3>6
    <3>8. \A b \in Asks \cup Modes : WellMade(script'[b]) /\ (Idling(script'[b]) <=> Idling(script[b])) /\ (Using(script'[b]) => Using(script[b]))
      BY <3>2, <3>4, <3>7 DEF Inv, Scripts
    <3>9. Scripts' /\ AskIsAdmitted'
      BY <3>8, <1>3 DEF Inv, Scripts, AskIsAdmitted, Still
    <3>10. \A n \in Asks : Active(n)' <=> Active(n)
      BY <3>8, <1>3 DEF Active, Still
    <3>11. Gate'
      BY <3>10, <1>3 DEF Inv, Gate, Still
    <3>12. Planned'
      BY <2>2, <1>3 DEF Planned, Still
    <3>13. QED
      BY <3>7, <3>9, <3>11, <3>12
  <2>3. QED
    BY <1>4, <2>1, <2>2
<1>6. QED
  BY <1>3, <1>5 DEF Inv, Types, Still

LEMMA WriteInv == ASSUME Inv, NEW a \in Asks \cup Modes, Write(a) PROVE Inv'
<1>1. script[a] # <<>> /\ Head(script[a]) \in Steps /\ Now(a).do = "write" /\ Now(a) = Head(script[a])
  BY Doings DEF Write
<1>2. Head(script[a]) \notin Idles /\ Head(script[a]) \in Armed /\ Now(a).card \in Nat
  BY <1>1, KindsApart, Fields
<1>3. Still /\ UNCHANGED <<busy, turns, pending, shell>>
  BY DEF Write, Still, own, core, cmd
<1>4. \E t \in {Fail(Now(a).card), ShowDiff(Now(a).card)} : Then(a, t)
  BY DEF Write
<1>5. \A t \in {Fail(Now(a).card), ShowDiff(Now(a).card)} : t \in Seq(Calm) /\ t \in Seq(Calm \cup Asking)
  BY <1>2, Scripting, SeqMonotonic
<1>6. (slipped' = slipped \/ slipped' = slipped + 1) /\ slipped \in Nat
  BY DEF Write, Inv, Types
<1>7. Scripts' /\ AskIsAdmitted' /\ Gate' /\ Planned' /\ script' \in [Asks \cup Modes -> Seq(Steps)]
  BY <1>1, <1>2, <1>3, <1>4, <1>5, <1>6, Works DEF Still
<1>8. QED
  BY <1>3, <1>6, <1>7 DEF Inv, Types, Still

LEMMA StartShellInv == ASSUME Inv, NEW a \in Asks \cup Modes, StartShell(a) PROVE Inv'
<1>1. script[a] # <<>> /\ Head(script[a]) \in Steps /\ Now(a).do = "shell" /\ Now(a) = Head(script[a])
  BY Doings DEF StartShell
<1>2. Head(script[a]) \notin Idles /\ Head(script[a]) \in Armed /\ Now(a).card \in Nat
  BY <1>1, KindsApart, Fields
<1>3. Still /\ UNCHANGED <<busy, turns, pending>>
  BY DEF StartShell, Still, core
<1>4. \E t \in {Fail(Now(a).card), <<Do("scan")>>} : Then(a, t)
  BY DEF StartShell
<1>5. \A t \in {Fail(Now(a).card), <<Do("scan")>>} : t \in Seq(Calm) /\ t \in Seq(Calm \cup Asking)
  <2>1. Do("scan") \in Calm
    BY DEF Do, Calm, Saying
  <2>2. <<Do("scan")>> \in Seq(Calm)
    BY <2>1
  <2>3. QED
    BY <2>2, <1>2, Scripting, SeqMonotonic
<1>6. (slipped' = slipped \/ slipped' = slipped + 1) /\ slipped \in Nat
  BY DEF StartShell, Inv, Types
<1>7. Scripts' /\ AskIsAdmitted' /\ Gate' /\ Planned' /\ script' \in [Asks \cup Modes -> Seq(Steps)]
  BY <1>1, <1>2, <1>3, <1>4, <1>5, <1>6, Works DEF Still
<1>8. shell' \in ShellStates
  <2>1. CASE shell' = shell
    BY <2>1 DEF Inv, Types
  <2>2. CASE \E c \in {"none", "pipe", "quiet"} : shell' = [Silence EXCEPT !.card = Now(a).card, !.leader = TRUE, !.child = c, !.done = a \in cancelled]
    <3> DEFINE d == a \in cancelled
    <3>1. PICK c \in {"none", "pipe", "quiet"} : shell' = [Silence EXCEPT !.card = Now(a).card, !.leader = TRUE, !.child = c, !.done = d]
      BY <2>2
    <3>2. d \in BOOLEAN
      OBVIOUS
    <3> HIDE DEF d
    <3>3. shell' = [card |-> Now(a).card, leader |-> TRUE, child |-> c, done |-> d, lines |-> 0]
      BY <3>1 DEF Silence
    <3>4. QED
      BY <3>2, <3>3, <1>2 DEF ShellStates
  <2>3. QED
    BY <2>1, <2>2 DEF StartShell
<1>9. QED
  BY <1>3, <1>6, <1>7, <1>8 DEF Inv, Types, Still

LEMMA ShellDoneInv == ASSUME Inv, NEW a \in Asks \cup Modes, ShellDone(a) PROVE Inv'
<1>1. script[a] # <<>> /\ Head(script[a]) \in Steps /\ Now(a).do = "wait" /\ Now(a) = Head(script[a])
  BY Doings DEF ShellDone
<1>2. Head(script[a]) \notin Idles
  BY <1>1, KindsApart
<1>3. Still /\ UNCHANGED <<busy, slipped, turns, pending>> /\ shell' = Silence
  BY DEF ShellDone, Still, core
<1>4. PICK kind \in {"deny", "write"} : Then(a, FinishShell(shell.card, kind))
  BY DEF ShellDone
<1>5. shell.card \in Nat
  BY DEF Inv, Types, ShellStates
<1>6. FinishShell(shell.card, kind) \in Seq(Calm) /\ FinishShell(shell.card, kind) \in Seq(Calm \cup Asking)
  <2>1. FinishShell(shell.card, kind) \in Seq(Calm)
    BY <1>5, Scripting DEF Marks
  <2>2. QED
    BY <2>1, SeqMonotonic
<1>7. Scripts' /\ AskIsAdmitted' /\ Gate' /\ Planned' /\ script' \in [Asks \cup Modes -> Seq(Steps)]
  BY <1>1, <1>2, <1>3, <1>4, <1>6, Works DEF Still
<1>8. shell' \in ShellStates
  BY <1>3 DEF Silence, ShellStates
<1>9. QED
  BY <1>3, <1>7, <1>8 DEF Inv, Types, Still

LEMMA ShellReadingInv == ASSUME Inv, NEW a \in Asks, ShellLine(a) \/ ShellLongLine(a) PROVE Inv'
<1>1. script[a] # <<>> /\ Head(script[a]) \in Steps /\ Now(a).do = "scan" /\ Now(a) = Head(script[a])
  BY Doings DEF ShellLine, ShellLongLine
<1>2. Head(script[a]) \notin Idles /\ Head(script[a]) \in Calm
  BY <1>1, KindsApart
<1>3. Still /\ UNCHANGED <<busy, slipped, turns, pending>>
  BY DEF ShellLine, ShellLongLine, Still, own, core
<1>4. CASE ShellLine(a)
  <2>1. shell.card \in Nat /\ shell' = [shell EXCEPT !.lines = 1] /\ shell \in ShellStates
    BY <1>4 DEF ShellLine, Inv, Types, ShellStates
  <2>2. PICK t \in {<<>>, <<SendStep(Patch(shell.card, "out"))>>} : script' = [script EXCEPT ![a] = t \o @]
    BY <1>4 DEF ShellLine
  <2>3. t \in Seq(Calm)
    <3>1. SendStep(Patch(shell.card, "out")) \in Calm
      BY <2>1, FrameSteps
    <3>2. <<SendStep(Patch(shell.card, "out"))>> \in Seq(Calm)
      BY <3>1
    <3>3. QED
      BY <3>2, <2>2, Nothing
  <2>4. Scripts' /\ AskIsAdmitted' /\ Gate' /\ Planned' /\ script' \in [Asks \cup Modes -> Seq(Steps)]
    BY <1>1, <1>2, <1>3, <2>2, <2>3, Interjects DEF Still
  <2>5. shell' \in ShellStates
    BY <2>1 DEF ShellStates
  <2>6. QED
    BY <1>3, <2>4, <2>5 DEF Inv, Types, Still
<1>5. CASE ShellLongLine(a)
  <2>1. Do("wait") \in Calm
    BY DEF Do, Calm, Saying
  <2>2. <<Do("wait")>> \in Seq(Calm) /\ <<Do("wait")>> \in Seq(Calm \cup Asking)
    BY <2>1
  <2>3. Then(a, <<Do("wait")>>) /\ UNCHANGED shell
    BY <1>5 DEF ShellLongLine, cmd
  <2>4. Scripts' /\ AskIsAdmitted' /\ Gate' /\ Planned' /\ script' \in [Asks \cup Modes -> Seq(Steps)]
    BY <1>1, <1>2, <1>3, <2>2, <2>3, Works DEF Still
  <2>5. QED
    BY <1>3, <2>3, <2>4 DEF Inv, Types, Still
<1>6. QED
  BY <1>4, <1>5

(* ------------------------------- a prompt ------------------------------- *)

LEMMA ScriptsAreFunctions == ASSUME Inv, NEW n \in Asks PROVE script = [script EXCEPT ![n] = script[n]] /\ n \in Asks \cup Modes
BY DEF Inv, Types

LEMMA AskInv == ASSUME Inv, NEW n \in Asks, Ask(n) PROVE Inv'
<1>1. /\ busy' = TRUE /\ at' = [at EXCEPT ![n] = "asked"] /\ script' = [script EXCEPT ![n] = Tell("user") \o <<StopButton>>]
      /\ UNCHANGED <<mode, slipped, turns, pending, inFlight, work, made, shell>> /\ at[n] = "free" /\ ~busy
  BY DEF Ask, Goes, cmd
<1>2. \A m \in Asks : ~Active(m)
  BY <1>1 DEF Inv, Gate
<1>3. ~inFlight
  BY <1>2 DEF Inv, Gate, Active
<1>4. Tell("user") \o <<StopButton>> \in Seq(Calm)
  <2>1. Tell("user") \in Seq(Calm) /\ <<StopButton>> \in Seq(Calm)
    BY Scripting, FrameSteps DEF Kinds
  <2>2. QED
    BY <2>1, ConcatProperties
<1> DEFINE r == Tell("user") \o <<StopButton>>
<1>5. Rest(r) /\ ~Arming(r) /\ ~Idling(r) /\ ~Using(r)
  BY <1>4, Calming
<1> HIDE DEF r
<1>6. script' = [script EXCEPT ![n] = r]
  BY <1>1 DEF r
<1>7. /\ Scripts' /\ AskIsAdmitted' /\ Gate' /\ Planned'
      /\ script' \in [Asks \cup Modes -> Seq(Steps)] /\ at' \in [Asks -> Places]
  BY <1>1, <1>2, <1>3, <1>5, <1>6, Moves DEF Places
<1>8. QED
  BY <1>1, <1>7 DEF Inv, Types

\* The session takes the prompt: who holds it would be the one that asks.
LEMMA PromptInv == ASSUME Inv, NEW n \in Asks, Prompt(n) PROVE Inv'
<1>1. at[n] = "asked" /\ Active(n) /\ UNCHANGED <<mode, busy, slipped, turns, pending, work, made, shell>>
  BY DEF Prompt, At, own, cmd, Active
<1>2. ~inFlight
  <2>1. SUFFICES ASSUME NEW m \in Asks, at[m] \in Holding PROVE FALSE
    BY DEF Inv, Gate
  <2>2. Active(m)
    BY <2>1 DEF Active
  <2>3. m = n
    BY <1>1, <2>2 DEF Inv, Gate
  <2>4. QED
    BY <1>1, <2>1, <2>3 DEF Holding
<1>3. at' = [at EXCEPT ![n] = "begun"] /\ inFlight' = TRUE /\ UNCHANGED script /\ script[n] = <<>>
  BY <1>2 DEF Prompt, Goes, At
<1>4. script' = [script EXCEPT ![n] = <<>>]
  BY <1>3, ScriptsAreFunctions
<1>5. /\ Scripts' /\ AskIsAdmitted' /\ Gate' /\ Planned'
      /\ script' \in [Asks \cup Modes -> Seq(Steps)] /\ at' \in [Asks -> Places]
  BY <1>1, <1>3, <1>4, Empty, Moves DEF Places, Holding
<1>6. QED
  BY <1>1, <1>3, <1>5 DEF Inv, Types

LEMMA ContinuesInv == ASSUME Inv, NEW n \in Asks, Register(n) \/ ToolsDone(n) PROVE Inv'
<1>1. /\ Active(n) /\ script[n] = <<>> /\ at' = [at EXCEPT ![n] = "sending"]
      /\ UNCHANGED <<script, mode, busy, inFlight, slipped, turns, pending, work, made, shell>>
  BY DEF Register, ToolsDone, At, Goes, own, cmd, Active, Holding
<1>2. script' = [script EXCEPT ![n] = <<>>]
  BY <1>1, ScriptsAreFunctions
<1>3. /\ Scripts' /\ AskIsAdmitted' /\ Gate' /\ Planned'
      /\ script' \in [Asks \cup Modes -> Seq(Steps)] /\ at' \in [Asks -> Places]
  BY <1>1, <1>2, Empty, Moves DEF Places, Holding
<1>4. QED
  BY <1>1, <1>3 DEF Inv, Types

LEMMA ResponseInv == ASSUME Inv, NEW n \in Asks, Response(n) PROVE Inv'
<1> DEFINE calls(kinds) == [i \in DOMAIN kinds |-> Call(n, made[n] + i, kinds[i])]
<1>1. PICK kinds \in BoundedSeq(CallKinds, MaxCalls) :
         /\ work' = calls(kinds) /\ made' = [made EXCEPT ![n] = @ + Len(calls(kinds))]
         /\ script' = [script EXCEPT ![n] = AnnounceAll(calls(kinds))]
  BY DEF Response
<1>2. /\ Active(n) /\ at' = [at EXCEPT ![n] = "tools"] /\ UNCHANGED <<mode, busy, inFlight, slipped, turns, pending, shell>>
  BY DEF Response, At, Goes, own, cmd, Active, Holding
<1>3. PICK k \in Nat : kinds \in [1..k -> CallKinds]
  <2>1. MaxCalls \in Nat
    BY ConsoleAssumption
  <2>2. kinds \in UNION {[1..k -> CallKinds] : k \in 0..MaxCalls}
    BY DEF BoundedSeq, SeqOf
  <2>3. QED
    BY <2>1, <2>2
<1>4. made \in [Asks -> Nat]
  BY DEF Inv, Types
<1>5. \A i \in 1..k : Call(n, made[n] + i, kinds[i]) \in Called
  <2>1. SUFFICES ASSUME NEW i \in 1..k PROVE Call(n, made[n] + i, kinds[i]) \in Called
    OBVIOUS
  <2>2. kinds[i] \in CallKinds
    BY <1>3
  <2>3. kinds[i].name \in Names /\ kinds[i].decodes \in BOOLEAN
    BY <2>2, ConsoleAssumption DEF Names
  <2>4. n - 1 \in Nat /\ MaxCalls \in Nat /\ made[n] + i \in Nat
    BY <1>4, ConsoleAssumption DEF Asks
  <2>5. (n - 1) * MaxCalls \in Nat
    BY <2>4
  <2>6. (n - 1) * MaxCalls + (made[n] + i) \in Nat
    BY <2>4, <2>5
  <2>7. QED
    BY <2>3, <2>6 DEF Call, Called
<1>6. calls(kinds) = [i \in 1..k |-> Call(n, made[n] + i, kinds[i])]
  BY <1>3
<1>7. calls(kinds) \in Seq(Called) /\ Len(calls(kinds)) \in Nat
  <2>1. calls(kinds) \in [1..k -> Called]
    BY <1>5, <1>6
  <2>2. calls(kinds) \in Seq(Called)
    BY <2>1
  <2>3. QED
    BY <2>2, LenProperties
<1> DEFINE r == AnnounceAll(calls(kinds))
<1>8. Rest(r) /\ ~Arming(r) /\ ~Idling(r) /\ ~Using(r)
  BY <1>7, Announcing, Calming
<1>9. made' \in [Asks -> Nat] /\ work' \in Seq(Called)
  BY <1>1, <1>4, <1>7
<1>10. script' = [script EXCEPT ![n] = r]
  BY <1>1
<1> HIDE DEF r
<1>11. /\ Scripts' /\ AskIsAdmitted' /\ Gate' /\ Planned'
      /\ script' \in [Asks \cup Modes -> Seq(Steps)] /\ at' \in [Asks -> Places]
  BY <1>2, <1>8, <1>10, Moves DEF Places, Holding
<1>12. QED
  BY <1>2, <1>9, <1>11 DEF Inv, Types

LEMMA RunToolInv == ASSUME Inv, NEW n \in Asks, RunTool(n) PROVE Inv'
<1>1. /\ at[n] = "tools" /\ Active(n) /\ work # <<>> /\ work' = Tail(work)
      /\ script' = [script EXCEPT ![n] = ToolScript(Head(work))]
      /\ UNCHANGED <<at, mode, busy, inFlight, slipped, turns, pending, made, shell>>
  BY DEF RunTool, At, own, cmd, Active, Holding
<1>2. Head(work) \in Called /\ work' \in Seq(Called)
  BY <1>1, HeadTailProperties DEF Inv, Types
<1> DEFINE r == ToolScript(Head(work))
<1>3. r \in Seq(Calm \cup Asking)
  BY <1>2, ToolScripting
<1>4. r \o <<>> = r
  BY <1>3, ConcatEmptySeq
<1>5. Rest(r) /\ ~Arming(r) /\ ~Idling(r)
  BY <1>3, <1>4, Prepend, Empty
<1>6. script' = [script EXCEPT ![n] = r]
  BY <1>1
<1> HIDE DEF r
<1>7. at' = [at EXCEPT ![n] = "tools"]
  BY <1>1 DEF Inv, Types
<1>8. /\ Scripts' /\ AskIsAdmitted' /\ Gate' /\ Planned'
      /\ script' \in [Asks \cup Modes -> Seq(Steps)] /\ at' \in [Asks -> Places]
  BY <1>1, <1>5, <1>6, <1>7, Moves DEF Places, Holding
<1>9. QED
  BY <1>1, <1>2, <1>8 DEF Inv, Types

LEMMA FinalInv == ASSUME Inv, NEW n \in Asks, Final(n) PROVE Inv'
<1>1. /\ Active(n) /\ at' = [at EXCEPT ![n] = "leaving"] /\ script' = [script EXCEPT ![n] = Tell("agent")]
      /\ UNCHANGED <<mode, busy, inFlight, slipped, turns, pending, work, made, shell>>
  BY DEF Final, At, Goes, own, cmd, Active, Holding
<1>2. PICK r : r = Tell("agent")
  OBVIOUS
<1>3. Rest(r) /\ ~Idling(r) /\ ~Using(r) /\ ~Arming(r)
  BY <1>2, LastText
<1>4. /\ Scripts' /\ AskIsAdmitted' /\ Gate' /\ Planned'
      /\ script' \in [Asks \cup Modes -> Seq(Steps)] /\ at' \in [Asks -> Places]
  BY <1>1, <1>2, <1>3, Moves DEF Places, Holding
<1>5. QED
  BY <1>1, <1>4 DEF Inv, Types

LEMMA LeavesInv == ASSUME Inv, NEW n \in Asks, Leave(n) \/ SendFails(n) PROVE Inv'
<1>1. /\ Active(n) /\ at' = [at EXCEPT ![n] = "left"] /\ inFlight' = FALSE
      /\ UNCHANGED <<mode, busy, slipped, turns, pending, work, made, shell>>
  BY DEF Leave, SendFails, At, Goes, own, cmd, Active, Holding
<1>2. PICK r \in {Failed, Finish} : script' = [script EXCEPT ![n] = r]
  BY DEF Leave, SendFails
<1>3. Rest(r) /\ ~Using(r) /\ ~Arming(r)
  BY <1>2, Ending
<1>4. /\ Scripts' /\ AskIsAdmitted' /\ Gate' /\ Planned'
      /\ script' \in [Asks \cup Modes -> Seq(Steps)] /\ at' \in [Asks -> Places]
  BY <1>1, <1>2, <1>3, Moves DEF Places, Holding
<1>5. QED
  BY <1>1, <1>4 DEF Inv, Types

(* ------------------------------ the others ------------------------------ *)

LEMMA SetModeInv == ASSUME Inv, NEW h \in Modes, NEW m \in {"plan", "act"}, SetMode(h, m) PROVE Inv'
<1> DEFINE r == <<SendStep(Header("mode", m)), Do("returned")>>
<1>1. /\ script[h] = <<>> /\ script' = [script EXCEPT ![h] = r] /\ mode' = m /\ slipped' = 0
      /\ UNCHANGED <<at, busy, inFlight, turns, pending, work, made, shell>>
  BY DEF SetMode, core, cmd
<1>2. r \in Seq(Calm)
  <2>1. SendStep(Header("mode", m)) \in Calm /\ Do("returned") \in Calm
    BY FrameSteps DEF Do, Calm, Saying
  <2>2. QED
    BY <2>1
<1> HIDE DEF r
<1>3. Rest(r) /\ ~Arming(r) /\ ~Idling(r) /\ ~Using(r) /\ ~Idling(script[h])
  BY <1>1, <1>2, Calming, Empty
<1>4. Scripts' /\ AskIsAdmitted' /\ Gate' /\ Planned' /\ script' \in [Asks \cup Modes -> Seq(Steps)]
  BY <1>1, <1>3, Scripted
<1>5. QED
  BY <1>1, <1>4 DEF Inv, Types

LEMMA OutsideInv ==
    ASSUME Inv,
           \/ AskBusy \/ Interrupt \/ InterruptTurn \/ ShellDeadline \/ ShellKill \/ LeaderExits \/ ChildExits
           \/ \E t \in Tabs : LoadPage(t) \/ Subscribe(t) \/ Show(t)
    PROVE  Inv'
<1>1. UNCHANGED <<script, at, busy, inFlight, mode, slipped, turns, pending, work, made>>
  BY DEF AskBusy, Interrupt, InterruptTurn, ShellDeadline, ShellKill, LeaderExits, ChildExits, LoadPage, Subscribe, Show,
         own, core
<1>2. shell' \in ShellStates
  <2>1. shell \in ShellStates
    BY DEF Inv, Types
  <2>2. /\ [shell EXCEPT !.done = TRUE] \in ShellStates /\ [shell EXCEPT !.leader = FALSE] \in ShellStates
        /\ [shell EXCEPT !.child = "none"] \in ShellStates
    BY <2>1 DEF ShellStates
  <2>3. \/ shell' = shell \/ shell' = [shell EXCEPT !.done = TRUE] \/ shell' = [shell EXCEPT !.leader = FALSE]
        \/ shell' = [shell EXCEPT !.child = "none"]
    BY DEF AskBusy, Interrupt, InterruptTurn, ShellDeadline, ShellKill, LeaderExits, ChildExits, LoadPage, Subscribe, Show, cmd
  <2>4. QED
    BY <2>1, <2>2, <2>3
<1>3. QED
  BY <1>1, <1>2, Kept DEF Inv, Types

LEMMA InitInv == Init => Inv
<1> SUFFICES ASSUME Init PROVE Inv
  OBVIOUS
<1>1. \A a \in Asks \cup Modes : script[a] = <<>>
  BY DEF Init
<1>2. Types
  <2>1. <<>> \in Seq(Steps) /\ <<>> \in Seq(Nat) /\ <<>> \in Seq(Called)
    OBVIOUS
  <2>2. Silence \in ShellStates
    BY DEF Silence, ShellStates
  <2>3. QED
    BY <2>1, <2>2 DEF Init, Types, Places
<1>3. Scripts
  BY <1>1, Empty DEF Scripts, Rest
<1>4. \A n \in Asks : ~Active(n)
  BY <1>1, Empty DEF Init, Active, Holding
<1>5. Gate /\ AskIsAdmitted /\ Planned
  BY <1>4 DEF Init, Gate, AskIsAdmitted, Planned
<1>6. QED
  BY <1>2, <1>3, <1>5 DEF Inv

LEMMA NextInv == Inv /\ [Next]_vars => Inv'
<1> SUFFICES ASSUME Inv, [Next]_vars PROVE Inv'
  OBVIOUS
<1>1. ASSUME NEW a \in Asks \cup Modes, ScriptSteps(a) PROVE Inv'
  BY <1>1, SaysInv, QueueCardInv, ClaimCardInv, SetTodosInv, MeterInv, GoIdleInv, CheckPlanInv, WriteInv, StartShellInv,
     ShellDoneInv DEF ScriptSteps
<1>2. ASSUME NEW n \in Asks, PromptSteps(n) \/ Ask(n) \/ Response(n) \/ Final(n) \/ SendFails(n) \/ ShellLine(n) \/ ShellLongLine(n)
      PROVE  Inv'
  BY <1>2, PromptInv, ContinuesInv, RunToolInv, AskInv, ResponseInv, FinalInv, LeavesInv, ShellReadingInv DEF PromptSteps
<1>3. ASSUME NEW h \in Modes, NEW m \in {"plan", "act"}, SetMode(h, m) PROVE Inv'
  BY <1>3, SetModeInv
<1>4. CASE UNCHANGED vars
  <2>1. UNCHANGED <<script, at, busy, inFlight, mode, slipped, turns, pending, work, made, shell>>
    BY <1>4 DEF vars, own, core, cmd
  <2>2. QED
    BY <2>1, Kept DEF Inv, Types
<1>5. QED
  BY <1>1, <1>2, <1>3, <1>4, OutsideInv DEF Next

(* ------------------------ whose card a tool draws on -------------------- *)

\* What of a script has to do with cards: those to be queued, in the order of the
\* calls, and the one call that is to claim its card.
QueueSteps(s) == {i \in 1..Len(s) : s[i].do = "queue"}
ClaimSteps(s) == {i \in 1..Len(s) : s[i].do = "claim"}
Queued(s) == {s[i].call : i \in QueueSteps(s)}
Claiming(s) == {s[i].call : i \in ClaimSteps(s)}
Orderly(s) ==
    /\ \A i, j \in QueueSteps(s) : i < j => s[i].call.id < s[j].call.id
    /\ \A i, j \in ClaimSteps(s) : i = j

Base(n) == (n - 1) * MaxCalls
Turn(n) == Base(n) + 1..Base(n) + MaxCalls

\* The calls of the turn that were run, but for the one about to claim its card; a
\* call that was run and claimed none; a card that waits for its call.
LastRun(n) == Base(n) + made[n] - Len(work)
Ran(n, k) == k \in Base(n) + 1..LastRun(n) /\ \A x \in Claiming(script[n]) : k < x.id
Missed(n, k) == Ran(n, k) /\ \A c \in claims : c.call # k
Waits(x) == \A m \in Names : (\E i \in 1..Len(pending[m]) : pending[m][i] = x.id) <=> m = x.name

\* Calls are numbered through, turn by turn, in the order in which they are run.
Counted ==
    /\ \A n \in Asks : made[n] <= MaxCalls /\ (at[n] \in {"free", "asked", "begun"} => made[n] = 0)
    /\ work # <<>> => \E n \in Asks : at[n] = "tools"
    /\ \A n \in Asks : at[n] = "tools" => Len(work) <= made[n] /\ \A i \in 1..Len(work) : work[i].id = LastRun(n) + i

\* The cards that were queued are of this turn, the older first, and are gone when
\* it is over.
Stacked ==
    /\ \A n \in Asks, m \in Names : Active(n) =>
          /\ \A i \in 1..Len(pending[m]) : pending[m][i] \in Base(n) + 1..Base(n) + made[n]
          /\ \A i, j \in 1..Len(pending[m]) : i < j => pending[m][i] < pending[m][j]
    /\ \A m \in Names : pending[m] # <<>> => \E n \in Asks : Active(n)

\* A call that was not run will have its card queued, or has it.
Announced ==
    /\ \A a \in Asks \cup Modes : Orderly(script[a]) /\ (Queued(script[a]) # {} => a \in Asks /\ at[a] = "tools")
    /\ \A n \in Asks : \A x \in Queued(script[n]) :
          /\ \E i \in 1..Len(work) : work[i] = x
          /\ \A m \in Names : \A i \in 1..Len(pending[m]) : pending[m][i] < x.id
    /\ \A n \in Asks : at[n] = "tools" => \A i \in 1..Len(work) : work[i] \in Queued(script[n]) \/ Waits(work[i])
    /\ \A n \in Asks : \A x \in Claiming(script[n]) : x.id = LastRun(n) /\ Waits(x)

\* The card of a call that was run is still there only if some call missed its own.
LeftOver ==
    \A n \in Asks, m \in Names : \A i \in 1..Len(pending[m]) :
        Active(n) /\ Ran(n, pending[m][i]) => \E k \in Turn(n) : Missed(n, k)
Claimed ==
    \A c \in claims :
        /\ \E n \in Asks : c.call \in Turn(n)
        /\ \A n \in Asks : c.call \in Turn(n) => c.call <= Base(n) + made[n] /\ (Active(n) => Ran(n, c.call))

CardInv == Counted /\ Stacked /\ Announced /\ LeftOver /\ Claimed /\ CardIsOwn

(* The numbers of a turn. *)
LEMMA Bases ==
    ASSUME NEW n \in Asks
    PROVE  MaxCalls \in Nat /\ Base(n) \in Nat /\ Turn(n) \subseteq Cards \ {0}
<1>1. n \in 1..MaxAsks /\ MaxCalls \in Nat /\ MaxAsks \in Nat
  BY ConsoleAssumption DEF Asks
<1>2. n - 1 \in Nat /\ (n - 1) * MaxCalls \in Nat
  BY <1>1
<1>3. (n - 1) * MaxCalls + MaxCalls = n * MaxCalls
  BY <1>1
<1>4. n * MaxCalls <= MaxAsks * MaxCalls
  <2>1. MaxAsks * MaxCalls = n * MaxCalls + (MaxAsks - n) * MaxCalls
    BY <1>1
  <2>2. MaxAsks - n \in Nat /\ (MaxAsks - n) * MaxCalls \in Nat /\ n * MaxCalls \in Nat
    BY <1>1
  <2> QED
    BY <2>1, <2>2
<1>5. n * MaxCalls \in Nat /\ MaxAsks * MaxCalls \in Nat
  BY <1>1
<1> QED
  BY <1>1, <1>2, <1>3, <1>4, <1>5 DEF Base, Turn, Cards

LEMMA Turns ==
    ASSUME NEW n \in Asks, NEW id \in Turn(n)
    PROVE  TurnOf(id) = n - 1
<1>1. MaxCalls \in Nat /\ n \in Nat \ {0} /\ Base(n) \in Nat /\ id \in Base(n) + 1..Base(n) + MaxCalls
  BY Bases, ConsoleAssumption DEF Asks, Turn
<1>2. PICK r \in 0..MaxCalls - 1 : id - 1 = (n - 1) * MaxCalls + r
  <2>1. id - 1 - Base(n) \in 0..MaxCalls - 1 /\ id - 1 = Base(n) + (id - 1 - Base(n))
    BY <1>1
  <2> QED
    BY <2>1 DEF Base
<1>3. ASSUME NEW q \in Nat, NEW d \in Nat \ {0}, NEW e \in 0..d - 1 PROVE (q * d + e) \div d = q
  BY <1>3
<1>4. MaxCalls \in Nat \ {0} /\ n - 1 \in Nat
  BY <1>1
<1> QED
  BY <1>2, <1>3, <1>4 DEF TurnOf

LEMMA TurnsApart ==
    ASSUME NEW m \in Asks, NEW n \in Asks, NEW id \in Turn(m), id \in Turn(n)
    PROVE  m = n
<1>1. TurnOf(id) = m - 1 /\ TurnOf(id) = n - 1
  BY Turns
<1> QED
  BY <1>1 DEF Asks

(* What is left of them when a goroutine goes on. *)
LEMMA Shorter ==
    ASSUME NEW s \in Seq(Steps), s # <<>>
    PROVE  /\ Orderly(s) => Orderly(Tail(s))
           /\ Head(s).do # "queue" => Queued(Tail(s)) = Queued(s)
           /\ Head(s).do # "claim" => Claiming(Tail(s)) = Claiming(s)
           /\ Head(s).do = "queue" => Queued(s) = Queued(Tail(s)) \cup {Head(s).call}
           /\ Head(s).do = "queue" /\ Orderly(s) => \A x \in Queued(Tail(s)) : Head(s).call.id < x.id
           /\ Head(s).do = "claim" /\ Orderly(s) => Claiming(s) = {Head(s).call} /\ Claiming(Tail(s)) = {}
<1> DEFINE u == Tail(s)
<1>1. /\ Len(s) \in Nat \ {0} /\ Head(s) = s[1] /\ Len(u) = Len(s) - 1
      /\ \A i \in 1..Len(u) : u[i] = s[i + 1]
  BY HeadTailProperties, EmptySeq
<1> HIDE DEF u
<1>2. /\ \A i \in QueueSteps(u) : i + 1 \in QueueSteps(s) /\ u[i] = s[i + 1] /\ i \in 1..Len(u)
      /\ \A i \in ClaimSteps(u) : i + 1 \in ClaimSteps(s) /\ u[i] = s[i + 1] /\ i \in 1..Len(u)
  BY <1>1 DEF QueueSteps, ClaimSteps
<1>3. /\ \A i \in QueueSteps(s) : i = 1 \/ (i - 1 \in QueueSteps(u) /\ u[i - 1] = s[i])
      /\ \A i \in ClaimSteps(s) : i = 1 \/ (i - 1 \in ClaimSteps(u) /\ u[i - 1] = s[i])
  <2>1. ASSUME NEW i \in 1..Len(s), i # 1 PROVE i - 1 \in 1..Len(u) /\ u[i - 1] = s[i]
    <3>1. i - 1 \in 1..Len(u) /\ (i - 1) + 1 = i
      BY <1>1, <2>1
    <3> QED
      BY <3>1, <1>1
  <2> QED
    BY <2>1 DEF QueueSteps, ClaimSteps
<1>4. (1 \in QueueSteps(s) <=> Head(s).do = "queue") /\ (1 \in ClaimSteps(s) <=> Head(s).do = "claim")
  BY <1>1 DEF QueueSteps, ClaimSteps
<1>5. ASSUME Orderly(s) PROVE Orderly(u)
  <2>1. ASSUME NEW i \in QueueSteps(u), NEW j \in QueueSteps(u), i < j PROVE u[i].call.id < u[j].call.id
    <3>1. i + 1 \in QueueSteps(s) /\ j + 1 \in QueueSteps(s) /\ i + 1 < j + 1 /\ u[i] = s[i + 1] /\ u[j] = s[j + 1]
      BY <1>1, <1>2, <2>1
    <3> QED
      BY <3>1, <1>5 DEF Orderly
  <2>2. ASSUME NEW i \in ClaimSteps(u), NEW j \in ClaimSteps(u) PROVE i = j
    <3>1. i + 1 \in ClaimSteps(s) /\ j + 1 \in ClaimSteps(s) /\ i \in Int /\ j \in Int
      BY <1>1, <1>2
    <3>2. i + 1 = j + 1
      BY <3>1, <1>5 DEF Orderly
    <3> QED
      BY <3>1, <3>2
  <2> QED
    BY <2>1, <2>2 DEF Orderly
<1>6. Queued(u) \subseteq Queued(s) /\ Claiming(u) \subseteq Claiming(s)
  <2>1. ASSUME NEW i \in QueueSteps(u) PROVE u[i].call \in Queued(s)
    BY <1>2 DEF Queued
  <2>2. ASSUME NEW i \in ClaimSteps(u) PROVE u[i].call \in Claiming(s)
    BY <1>2 DEF Claiming
  <2> QED
    BY <2>1, <2>2 DEF Queued, Claiming
<1>7. /\ \A x \in Queued(s) : x \in Queued(u) \/ (x = Head(s).call /\ Head(s).do = "queue")
      /\ \A x \in Claiming(s) : x \in Claiming(u) \/ (x = Head(s).call /\ Head(s).do = "claim")
  <2>1. ASSUME NEW i \in QueueSteps(s) PROVE s[i].call \in Queued(u) \/ (s[i].call = Head(s).call /\ Head(s).do = "queue")
    <3>1. CASE i = 1
      BY <3>1, <2>1, <1>1, <1>4
    <3>2. CASE i # 1
      BY <3>2, <2>1, <1>3 DEF Queued
    <3> QED
      BY <3>1, <3>2
  <2>2. ASSUME NEW i \in ClaimSteps(s) PROVE s[i].call \in Claiming(u) \/ (s[i].call = Head(s).call /\ Head(s).do = "claim")
    <3>1. CASE i = 1
      BY <3>1, <2>2, <1>1, <1>4
    <3>2. CASE i # 1
      BY <3>2, <2>2, <1>3 DEF Claiming
    <3> QED
      BY <3>1, <3>2
  <2> QED
    BY <2>1, <2>2 DEF Queued, Claiming
<1>8. ASSUME Head(s).do = "queue" PROVE Head(s).call \in Queued(s)
  BY <1>8, <1>1, <1>4 DEF Queued
<1>9. ASSUME Head(s).do = "claim" PROVE Head(s).call \in Claiming(s)
  BY <1>9, <1>1, <1>4 DEF Claiming
<1>10. ASSUME Head(s).do = "queue", Orderly(s), NEW x \in Queued(u) PROVE Head(s).call.id < x.id
  <2>1. PICK i \in QueueSteps(u) : x = u[i].call
    BY <1>10 DEF Queued
  <2>2. 1 \in QueueSteps(s) /\ i + 1 \in QueueSteps(s) /\ 1 < i + 1 /\ x = s[i + 1].call
    BY <2>1, <1>1, <1>2, <1>4, <1>10
  <2> QED
    BY <2>2, <1>1, <1>10 DEF Orderly
<1>11. ASSUME Head(s).do = "claim", Orderly(s) PROVE Claiming(u) = {}
  <2>1. SUFFICES ASSUME NEW i \in ClaimSteps(u) PROVE FALSE
    BY DEF Claiming
  <2>2. 1 \in ClaimSteps(s) /\ i + 1 \in ClaimSteps(s) /\ i + 1 # 1
    BY <1>1, <1>2, <1>4, <1>11
  <2> QED
    BY <2>2, <1>11 DEF Orderly
<1> QED
  BY <1>5, <1>6, <1>7, <1>8, <1>9, <1>10, <1>11 DEF u

\* What neither queues a card nor claims one, nor ends the turn.
Plain == {x \in Steps : x.do \notin {"queue", "claim", "idle"}}

LEMMA Longer ==
    ASSUME NEW t \in Seq(Plain), NEW u \in Seq(Steps)
    PROVE  /\ t \o u \in Seq(Steps)
           /\ Orderly(u) => Orderly(t \o u)
           /\ Queued(t \o u) = Queued(u) /\ Claiming(t \o u) = Claiming(u)
           /\ Idling(t \o u) <=> Idling(u)
<1> DEFINE s == t \o u
<1>1. t \in Seq(Steps)
  BY SeqMonotonic DEF Plain
<1>2. /\ s \in Seq(Steps) /\ Len(s) = Len(t) + Len(u) /\ Len(t) \in Nat /\ Len(u) \in Nat
      /\ \A i \in 1..Len(t) + Len(u) : s[i] = IF i <= Len(t) THEN t[i] ELSE u[i - Len(t)]
  BY <1>1, ConcatProperties, LenProperties
<1> HIDE DEF s
<1>3. \A i \in 1..Len(t) : t[i].do \notin {"queue", "claim", "idle"} /\ t[i] \in Steps
  <2>1. \A i \in 1..Len(t) : t[i] \in Plain
    BY ElementOfSeq
  <2> QED
    BY <2>1 DEF Plain
<1>4. ASSUME NEW i \in 1..Len(s), s[i].do \in {"queue", "claim", "idle"}
      PROVE  i - Len(t) \in 1..Len(u) /\ s[i] = u[i - Len(t)]
  BY <1>2, <1>3, <1>4
<1>5. ASSUME NEW i \in 1..Len(u) PROVE Len(t) + i \in 1..Len(s) /\ s[Len(t) + i] = u[i]
  <2>1. /\ Len(t) + i \in 1..Len(t) + Len(u) /\ ~(Len(t) + i <= Len(t)) /\ (Len(t) + i) - Len(t) = i
    BY <1>2
  <2>2. s[Len(t) + i] = u[(Len(t) + i) - Len(t)]
    BY <1>2, <2>1
  <2> QED
    BY <1>2, <2>1, <2>2
<1>6. /\ \A i \in QueueSteps(s) : i - Len(t) \in QueueSteps(u) /\ s[i] = u[i - Len(t)] /\ i \in 1..Len(s)
      /\ \A i \in ClaimSteps(s) : i - Len(t) \in ClaimSteps(u) /\ s[i] = u[i - Len(t)] /\ i \in 1..Len(s)
  BY <1>4 DEF QueueSteps, ClaimSteps
<1>7. /\ \A i \in QueueSteps(u) : Len(t) + i \in QueueSteps(s) /\ s[Len(t) + i] = u[i]
      /\ \A i \in ClaimSteps(u) : Len(t) + i \in ClaimSteps(s) /\ s[Len(t) + i] = u[i]
  BY <1>5 DEF QueueSteps, ClaimSteps
<1>8. ASSUME Orderly(u) PROVE Orderly(s)
  <2>1. ASSUME NEW i \in QueueSteps(s), NEW j \in QueueSteps(s), i < j PROVE s[i].call.id < s[j].call.id
    <3>1. i - Len(t) < j - Len(t)
      BY <2>1, <1>2, <1>6
    <3> QED
      BY <3>1, <1>6, <1>8 DEF Orderly
  <2>2. ASSUME NEW i \in ClaimSteps(s), NEW j \in ClaimSteps(s) PROVE i = j
    <3>1. i - Len(t) = j - Len(t)
      BY <1>6, <1>8 DEF Orderly
    <3> QED
      BY <3>1, <1>2, <1>6
  <2> QED
    BY <2>1, <2>2 DEF Orderly
<1>9. Queued(s) = Queued(u)
  <2>1. ASSUME NEW i \in QueueSteps(s) PROVE s[i].call \in Queued(u)
    BY <1>6 DEF Queued
  <2>2. ASSUME NEW i \in QueueSteps(u) PROVE u[i].call \in Queued(s)
    BY <1>7 DEF Queued
  <2> QED
    BY <2>1, <2>2 DEF Queued
<1>10. Claiming(s) = Claiming(u)
  <2>1. ASSUME NEW i \in ClaimSteps(s) PROVE s[i].call \in Claiming(u)
    BY <1>6 DEF Claiming
  <2>2. ASSUME NEW i \in ClaimSteps(u) PROVE u[i].call \in Claiming(s)
    BY <1>7 DEF Claiming
  <2> QED
    BY <2>1, <2>2 DEF Claiming
<1>11. Idling(s) <=> Idling(u)
  <2>1. ASSUME Idling(s) PROVE Idling(u)
    <3>1. PICK i \in 1..Len(s) : s[i] \in Idles
      BY <2>1 DEF Idling
    <3>2. s[i].do = "idle"
      BY <3>1, StepKinds
    <3> QED
      BY <3>1, <3>2, <1>4 DEF Idling
  <2>2. ASSUME Idling(u) PROVE Idling(s)
    <3>1. PICK i \in 1..Len(u) : u[i] \in Idles
      BY <2>2 DEF Idling
    <3> QED
      BY <3>1, <1>5 DEF Idling
  <2> QED
    BY <2>1, <2>2
<1> QED
  BY <1>2, <1>8, <1>9, <1>10, <1>11 DEF s

LEMMA NoCards == Orderly(<<>>) /\ Queued(<<>>) = {} /\ Claiming(<<>>) = {} /\ ~Idling(<<>>)
BY Empty DEF Orderly, Queued, Claiming, QueueSteps, ClaimSteps

\* The scripts that are plain.
LEMMA PlainSteps ==
    /\ Saying \subseteq Plain /\ Armed \subseteq Plain
    /\ \A s \in Seq(Saying) : s \in Seq(Plain)
    /\ \A call \in Risky, card \in Nat : [do |-> "plan", call |-> call, card |-> card] \in Plain
    /\ \A call \in Called : [do |-> "todos", call |-> call] \in Plain
<1>1. Saying \subseteq Plain /\ Armed \subseteq Plain
  BY StepKinds DEF Plain, Steps, Tooling, Calm, Saying, Armed
<1>2. \A s \in Seq(Saying) : s \in Seq(Plain)
  BY <1>1, SeqMonotonic
<1>3. ASSUME NEW call \in Risky, NEW card \in Nat PROVE [do |-> "plan", call |-> call, card |-> card] \in Plain
  <2>1. [do |-> "plan", call |-> call, card |-> card] \in [do : {"plan"}, call : Risky, card : Nat]
    OBVIOUS
  <2> QED
    BY <2>1 DEF Plain, Steps, Tooling, Asking
<1>4. ASSUME NEW call \in Called PROVE [do |-> "todos", call |-> call] \in Plain
  <2>1. [do |-> "todos", call |-> call] \in [do : {"queue", "todos"}, call : Called]
    OBVIOUS
  <2> QED
    BY <2>1 DEF Plain, Steps, Calm
<1> QED
  BY <1>1, <1>2, <1>3, <1>4

LEMMA DoPlain ==
    /\ \A what \in {"meter", "scan", "wait", "returned"} : Do(what) \in Plain
    /\ \A name \in {"write", "shell"}, card \in Nat : [do |-> name, card |-> card] \in Plain
<1>1. \A what \in {"meter", "scan", "wait", "returned"} : Do(what) \in Saying
  BY DEF Do, Saying
<1>2. \A name \in {"write", "shell"}, card \in Nat : [do |-> name, card |-> card] \in Armed
  BY DEF Armed
<1> QED
  BY <1>1, <1>2, PlainSteps

LEMMA Calls == ASSUME Inv, NEW n \in Asks PROVE
    /\ made[n] \in Nat /\ Len(work) \in Nat /\ work \in Seq(Called)
    /\ \A i \in 1..Len(work) : work[i] \in Called /\ work[i].id \in Nat /\ work[i].name \in Names
    /\ LastRun(n) \in Int
<1>1. made[n] \in Nat /\ Len(work) \in Nat /\ work \in Seq(Called)
  BY LenProperties DEF Inv, Types
<1>2. \A i \in 1..Len(work) : work[i] \in Called
  BY <1>1, ElementOfSeq
<1> QED
  BY <1>1, <1>2, Bases DEF Called, LastRun

\* Nothing of that changes when the cards and the scripts' dealings with them do not.
LEMMA CardsKept ==
    ASSUME CardInv, UNCHANGED <<made, work, pending, claims>>,
           \A n \in Asks : at'[n] = at[n],
           \A a \in Asks \cup Modes : /\ Orderly(script'[a]) /\ Queued(script'[a]) = Queued(script[a])
                                      /\ Claiming(script'[a]) = Claiming(script[a]),
           \A n \in Asks : Active(n)' <=> Active(n)
    PROVE  CardInv'
<1>1. Counted'
  BY DEF CardInv, Counted, LastRun
<1>2. Stacked'
  BY DEF CardInv, Stacked
<1>3. \A x : Waits(x)' <=> Waits(x)
  BY DEF Waits
<1>4. \A n \in Asks : LastRun(n)' = LastRun(n)
  BY DEF LastRun
<1>5. Announced'
  <2>1. \A a \in Asks \cup Modes : Orderly(script'[a]) /\ (Queued(script'[a]) # {} => a \in Asks /\ at'[a] = "tools")
    BY DEF CardInv, Announced
  <2>2. \A n \in Asks : \A x \in Queued(script'[n]) :
          /\ \E i \in 1..Len(work') : work'[i] = x
          /\ \A m \in Names : \A i \in 1..Len(pending'[m]) : pending'[m][i] < x.id
    BY DEF CardInv, Announced
  <2>3. \A n \in Asks : at'[n] = "tools" => \A i \in 1..Len(work') : work'[i] \in Queued(script'[n]) \/ Waits(work[i])'
    BY <1>3 DEF CardInv, Announced
  <2>4. \A n \in Asks : \A x \in Claiming(script'[n]) : x.id = LastRun(n)' /\ Waits(x)'
    BY <1>3, <1>4 DEF CardInv, Announced
  <2> QED
    BY <2>1, <2>2, <2>3, <2>4 DEF Announced
<1>6. \A n \in Asks : \A k : Ran(n, k)' <=> Ran(n, k)
  BY <1>4 DEF Ran
<1>7. LeftOver'
  BY <1>6 DEF CardInv, LeftOver, Missed
<1>8. Claimed'
  BY <1>6 DEF CardInv, Claimed
<1>9. CardIsOwn'
  BY DEF CardInv, CardIsOwn
<1> QED
  BY <1>1, <1>2, <1>5, <1>7, <1>8, <1>9 DEF CardInv

\* A goroutine takes the first step of its script, which has nothing to do with
\* cards, or says something before it.
LEMMA CardsWork ==
    ASSUME Inv, CardInv, NEW a \in Asks \cup Modes, NEW t \in Seq(Plain),
           \/ script[a] # <<>> /\ Head(script[a]).do \notin {"queue", "claim", "idle"} /\ Then(a, t)
           \/ script' = [script EXCEPT ![a] = t \o @],
           UNCHANGED <<at, made, work, pending, claims>>
    PROVE  CardInv'
<1>1. script \in [Asks \cup Modes -> Seq(Steps)] /\ WellMade(script[a])
  BY DEF Inv, Types, Scripts
<1>2. PICK u \in Seq(Steps) :
         /\ Orderly(u) /\ Queued(u) = Queued(script[a]) /\ Claiming(u) = Claiming(script[a])
         /\ Idling(u) <=> Idling(script[a])
         /\ script' = [script EXCEPT ![a] = t \o u]
  <2>1. CASE script[a] # <<>> /\ Head(script[a]).do \notin {"queue", "claim", "idle"} /\ Then(a, t)
    <3>1. Head(script[a]) \notin Idles /\ Tail(script[a]) \in Seq(Steps)
      BY <2>1, <1>1, StepKinds, HeadTailProperties
    <3>2. Idling(Tail(script[a])) <=> Idling(script[a])
      BY <3>1, <2>1, <1>1, RestOfScript
    <3>3. /\ Orderly(Tail(script[a])) /\ Queued(Tail(script[a])) = Queued(script[a])
          /\ Claiming(Tail(script[a])) = Claiming(script[a])
      BY <2>1, <1>1, Shorter DEF CardInv, Announced
    <3>4. script' = [script EXCEPT ![a] = t \o Tail(script[a])]
      BY <2>1 DEF Then
    <3> QED
      BY <3>1, <3>2, <3>3, <3>4
  <2>2. CASE script' = [script EXCEPT ![a] = t \o @]
    <3>1. script[a] \in Seq(Steps) /\ Orderly(script[a]) /\ script' = [script EXCEPT ![a] = t \o script[a]]
      BY <2>2, <1>1 DEF CardInv, Announced
    <3> QED
      BY <3>1
  <2> QED
    BY <2>1, <2>2
<1>3. /\ Orderly(t \o u) /\ Queued(t \o u) = Queued(script[a]) /\ Claiming(t \o u) = Claiming(script[a])
      /\ Idling(t \o u) <=> Idling(script[a])
  BY <1>2, Longer
<1>4. script'[a] = t \o u /\ \A b \in Asks \cup Modes : b # a => script'[b] = script[b]
  BY <1>1, <1>2
<1>5. \A b \in Asks \cup Modes : /\ Orderly(script'[b]) /\ Queued(script'[b]) = Queued(script[b])
                                 /\ Claiming(script'[b]) = Claiming(script[b]) /\ (Idling(script'[b]) <=> Idling(script[b]))
  BY <1>3, <1>4 DEF CardInv, Announced
<1>6. \A n \in Asks : Active(n)' <=> Active(n)
  BY <1>5 DEF Active
<1> QED
  BY <1>5, <1>6, CardsKept

LEMMA PlainCards ==
    ASSUME Inv, CardInv, NEW a \in Asks \cup Modes,
           \/ Send(a) \/ Note(a) \/ UpdateCard(a) \/ SetTodos(a) \/ Meter(a) \/ CheckPlan(a) \/ Write(a) \/ StartShell(a)
           \/ ShellRead(a) \/ ShellDone(a) \/ ShellLine(a) \/ ShellLongLine(a)
    PROVE  CardInv'
<1>1. UNCHANGED <<at, made, work, pending, claims>>
  BY DEF Send, Note, UpdateCard, SetTodos, Meter, CheckPlan, Write, StartShell, ShellRead, ShellDone, ShellLine, ShellLongLine,
         own, core
<1>2. PICK what \in {"send", "note", "set", "todos", "meter", "plan", "write", "shell", "scan", "wait"} : Doing(a, what)
  BY DEF Send, Note, UpdateCard, SetTodos, Meter, CheckPlan, Write, StartShell, ShellRead, ShellDone, ShellLine, ShellLongLine
<1>3. /\ script[a] # <<>> /\ Head(script[a]) \in Steps /\ Now(a) = Head(script[a]) /\ Now(a).do = what
      /\ Head(script[a]).do \notin {"queue", "claim", "idle"}
  BY <1>2, Doings
<1>4. /\ what = "plan" => Now(a).call \in Risky /\ Now(a).card \in Nat
      /\ what \in {"write", "shell"} => Now(a).card \in Nat
      /\ shell.card \in Nat /\ turns \in Nat
  BY <1>3, Fields DEF Inv, Types, ShellStates
<1>5. <<>> \in Seq(Plain) /\ \A s \in Plain : <<s>> \in Seq(Plain)
  OBVIOUS
<1>6. ASSUME NEW t \in Seq(Plain), Then(a, t) PROVE CardInv'
  BY <1>1, <1>3, <1>6, CardsWork
<1>7. CASE Send(a) \/ Note(a) \/ UpdateCard(a) \/ SetTodos(a)
  BY <1>5, <1>6, <1>7 DEF Send, Note, UpdateCard, SetTodos
<1>8. CASE Meter(a)
  <2>1. SendStep(Header("meter", turns + 1)) \in Plain
    BY <1>4, SpokenFrames, PlainSteps
  <2> QED
    BY <2>1, <1>5, <1>6, <1>8 DEF Meter
<1>9. CASE CheckPlan(a)
  <2>1. what = "plan"
    BY <1>3, <1>9, Doings DEF CheckPlan
  <2>2. Fail(Now(a).card) \in Seq(Plain)
    BY <2>1, <1>4, Speaking, PlainSteps
  <2>3. [do |-> Now(a).call.name, card |-> Now(a).card] \in Plain
    <3>1. Now(a).call.name \in {"write", "shell"}
      BY <2>1, <1>4 DEF Risky
    <3> QED
      BY <3>1, <2>1, <1>4, DoPlain
  <2>4. Then(a, Fail(Now(a).card)) \/ Then(a, <<[do |-> Now(a).call.name, card |-> Now(a).card]>>)
    BY <1>9 DEF CheckPlan
  <2> QED
    BY <2>2, <2>3, <2>4, <1>5, <1>6
<1>10. CASE Write(a)
  <2>1. Now(a).card \in Nat
    BY <1>3, <1>4, <1>10, Doings DEF Write
  <2>2. Fail(Now(a).card) \in Seq(Plain) /\ ShowDiff(Now(a).card) \in Seq(Plain)
    BY <2>1, Speaking, PlainSteps
  <2> QED
    BY <2>2, <1>6, <1>10 DEF Write
<1>11. CASE StartShell(a)
  <2>1. Now(a).card \in Nat
    BY <1>3, <1>4, <1>11, Doings DEF StartShell
  <2>2. Fail(Now(a).card) \in Seq(Plain) /\ <<Do("scan")>> \in Seq(Plain)
    BY <2>1, <1>5, Speaking, PlainSteps, DoPlain
  <2> QED
    BY <2>2, <1>6, <1>11 DEF StartShell
<1>12. CASE ShellRead(a) \/ ShellLongLine(a)
  <2>1. <<Do("wait")>> \in Seq(Plain)
    BY <1>5, DoPlain
  <2> QED
    BY <2>1, <1>6, <1>12 DEF ShellRead, ShellLongLine
<1>13. CASE ShellDone(a)
  <2>1. PICK kind \in {"deny", "write"} : Then(a, FinishShell(shell.card, kind))
    BY <1>13 DEF ShellDone
  <2>2. FinishShell(shell.card, kind) \in Seq(Plain)
    BY <1>4, Speaking, PlainSteps DEF Marks
  <2> QED
    BY <2>1, <2>2, <1>6
<1>14. CASE ShellLine(a)
  <2>1. PICK t \in {<<>>, <<SendStep(Patch(shell.card, "out"))>>} : script' = [script EXCEPT ![a] = t \o @]
    BY <1>14 DEF ShellLine
  <2>2. SendStep(Patch(shell.card, "out")) \in Plain
    BY <1>4, SpokenFrames, PlainSteps
  <2>3. t \in Seq(Plain)
    BY <2>1, <2>2, <1>5
  <2> QED
    BY <1>1, <2>1, <2>3, CardsWork
<1> QED
  BY <1>7, <1>8, <1>9, <1>10, <1>11, <1>12, <1>13, <1>14

\* Only the message that has the session deals with cards.
LEMMA OnlyOneRuns ==
    ASSUME Inv, NEW n \in Asks, Active(n)
    PROVE  /\ \A m \in Asks : Active(m) => m = n
           /\ \A m \in Asks : at[m] = "tools" => m = n
           /\ \A m \in Asks : Claiming(script[m]) # {} => m = n /\ at[m] = "tools"
           /\ CardInv => \A m \in Asks : Queued(script[m]) # {} => m = n /\ at[m] = "tools"
           /\ CardInv /\ at[n] # "tools" => work = <<>>
<1>1. \A m \in Asks : Active(m) => m = n
  BY DEF Inv, Gate
<1>2. \A m \in Asks : at[m] = "tools" => Active(m)
  BY DEF Active, Holding
<1>3. ASSUME NEW m \in Asks, Claiming(script[m]) # {} PROVE at[m] = "tools"
  <2>1. PICK i \in 1..Len(script[m]) : script[m][i].do = "claim"
    BY <1>3 DEF Claiming, ClaimSteps
  <2>2. script[m][i] \in Steps
    BY ElementOfSeq DEF Inv, Types
  <2>3. script[m][i] \in Tooling
    BY <2>1, <2>2, KindsApart DEF Tooling
  <2>4. Using(script[m])
    BY <2>3 DEF Using
  <2> QED
    BY <2>4 DEF Inv, Scripts
<1> QED
  BY <1>1, <1>2, <1>3 DEF CardInv, Announced, Counted

\* The tools of a turn are its own: what a script is to claim or to queue.
LEMMA QueueCardCards == ASSUME Inv, CardInv, NEW a \in Asks \cup Modes, QueueCard(a) PROVE CardInv'
<1>0. PICK x : x = Now(a).call
  OBVIOUS
<1>1. script[a] # <<>> /\ Head(script[a]) \in Steps /\ Now(a) = Head(script[a]) /\ Now(a).do = "queue"
  BY Doings DEF QueueCard
<1>2. x \in Called /\ x.id \in Nat /\ x.name \in Names /\ Head(script[a]) \notin Idles
  <2>1. x \in Called
    BY <1>0, <1>1, Fields
  <2> QED
    BY <2>1, <1>1, StepKinds DEF Called
<1>3. script \in [Asks \cup Modes -> Seq(Steps)] /\ WellMade(script[a]) /\ pending \in [Names -> Seq(Nat)]
  BY DEF Inv, Types, Scripts
<1>4. /\ pending' = [pending EXCEPT ![x.name] = Append(@, x.id)]
      /\ script' = [script EXCEPT ![a] = <<>> \o Tail(script[a])]
      /\ UNCHANGED <<at, made, work, claims>>
  BY <1>0 DEF QueueCard, Then, core
<1>5. Tail(script[a]) \in Seq(Steps) /\ <<>> \o Tail(script[a]) = Tail(script[a])
  BY <1>1, <1>3, HeadTailProperties, ConcatEmptySeq
<1>6. script'[a] = Tail(script[a]) /\ \A b \in Asks \cup Modes : b # a => script'[b] = script[b]
  BY <1>3, <1>4, <1>5
<1>7. /\ Orderly(script'[a]) /\ Queued(script[a]) = Queued(script'[a]) \cup {x} /\ Claiming(script'[a]) = Claiming(script[a])
      /\ \A y \in Queued(script'[a]) : x.id < y.id
      /\ Idling(script'[a]) <=> Idling(script[a])
  BY <1>0, <1>1, <1>2, <1>3, <1>6, Shorter, RestOfScript DEF CardInv, Announced
<1>8. a \in Asks /\ at[a] = "tools" /\ Active(a)
  BY <1>7 DEF CardInv, Announced, Active, Holding
<1>9. PICK j \in 1..Len(work) : work[j] = x
  BY <1>7, <1>8 DEF CardInv, Announced
<1>10. \A m \in Names : \A i \in 1..Len(pending[m]) : pending[m][i] < x.id
  BY <1>7, <1>8 DEF CardInv, Announced
<1>11. /\ made[a] \in Nat /\ Len(work) \in Nat /\ LastRun(a) \in Int /\ Base(a) \in Nat
       /\ Len(work) <= made[a] /\ (\A i \in 1..Len(work) : work[i].id = LastRun(a) + i) /\ LastRun(a) = Base(a) + made[a] - Len(work)
  BY <1>8, Calls, Bases DEF CardInv, Counted, LastRun
<1>12. x.id = LastRun(a) + j /\ x.id \in Base(a) + 1..Base(a) + made[a]
  BY <1>9, <1>11
<1>13. \A n \in Asks : Active(n)' <=> Active(n)
  BY <1>4, <1>6, <1>7 DEF Active
<1>14. \A n \in Asks : Active(n) => n = a
  BY <1>8, OnlyOneRuns
\* The queue it is added to, and the others.
<1>15. /\ Len(pending[x.name]) \in Nat /\ Len(pending'[x.name]) = Len(pending[x.name]) + 1
       /\ pending'[x.name][Len(pending[x.name]) + 1] = x.id
       /\ \A i \in 1..Len(pending[x.name]) : pending'[x.name][i] = pending[x.name][i]
       /\ \A m \in Names : m # x.name => pending'[m] = pending[m]
  <2>1. pending[x.name] \in Seq(Nat) /\ pending'[x.name] = Append(pending[x.name], x.id)
    BY <1>2, <1>3, <1>4
  <2> QED
    BY <2>1, <1>2, <1>3, <1>4, AppendProperties, LenProperties
<1>16. ASSUME NEW m \in Names, NEW i \in 1..Len(pending'[m])
       PROVE  \/ i \in 1..Len(pending[m]) /\ pending'[m][i] = pending[m][i]
              \/ m = x.name /\ pending'[m][i] = x.id /\ i = Len(pending[m]) + 1
  <2>1. CASE m # x.name
    BY <2>1, <1>15
  <2>2. CASE m = x.name
    <3>1. i \in 1..Len(pending[m]) \/ i = Len(pending[m]) + 1
      BY <2>2, <1>15
    <3> QED
      BY <3>1, <2>2, <1>15
  <2> QED
    BY <2>1, <2>2
<1>17. ASSUME NEW m \in Names, NEW i \in 1..Len(pending[m]) PROVE i \in 1..Len(pending'[m]) /\ pending'[m][i] = pending[m][i]
  BY <1>15
<1>18. \A m \in Names : Len(pending[m]) \in Nat /\ \A i \in 1..Len(pending[m]) : pending[m][i] \in Nat
  <2>1. ASSUME NEW m \in Names PROVE pending[m] \in Seq(Nat)
    BY <1>3
  <2> QED
    BY <2>1, LenProperties, ElementOfSeq
<1>19. ASSUME NEW y, y.id # x.id, Waits(y) PROVE Waits(y)'
  <2>1. ASSUME NEW m \in Names, NEW i \in 1..Len(pending'[m]), pending'[m][i] = y.id PROVE m = y.name
    BY <2>1, <1>16, <1>19 DEF Waits
  <2>2. ASSUME NEW m \in Names, m = y.name PROVE \E i \in 1..Len(pending'[m]) : pending'[m][i] = y.id
    BY <2>2, <1>17, <1>19 DEF Waits
  <2> QED
    BY <2>1, <2>2 DEF Waits
<1>20. Waits(x)'
  <2>1. ASSUME NEW m \in Names, NEW i \in 1..Len(pending'[m]), pending'[m][i] = x.id PROVE m = x.name
    <3>1. CASE i \in 1..Len(pending[m]) /\ pending'[m][i] = pending[m][i]
      <4>1. pending[m][i] < x.id /\ pending[m][i] = x.id
        BY <3>1, <2>1, <1>10
      <4> QED
        BY <4>1, <1>2
    <3> QED
      BY <3>1, <1>16
  <2>2. ASSUME NEW m \in Names, m = x.name PROVE \E i \in 1..Len(pending'[m]) : pending'[m][i] = x.id
    <3>1. Len(pending[m]) + 1 \in 1..Len(pending'[m])
      BY <2>2, <1>15
    <3> QED
      BY <3>1, <2>2, <1>15
  <2> QED
    BY <2>1, <2>2 DEF Waits
<1>21. \A n \in Asks : LastRun(n)' = LastRun(n)
  BY <1>4 DEF LastRun
<1>22. \A n \in Asks : Claiming(script'[n]) = Claiming(script[n])
  BY <1>6, <1>7
<1>23. \A n \in Asks : \A k : Ran(n, k)' <=> Ran(n, k)
  BY <1>21, <1>22 DEF Ran
<1>24. Counted'
  BY <1>4, <1>21 DEF CardInv, Counted
<1>25. Stacked'
  <2>1. ASSUME NEW m \in Names, NEW i \in 1..Len(pending'[m]) PROVE pending'[m][i] \in Base(a) + 1..Base(a) + made[a]
    BY <1>8, <1>12, <1>16 DEF CardInv, Stacked
  <2>2. ASSUME NEW m \in Names, NEW i \in 1..Len(pending'[m]), NEW k \in 1..Len(pending'[m]), i < k
        PROVE  pending'[m][i] < pending'[m][k]
    <3>1. CASE k \in 1..Len(pending[m]) /\ pending'[m][k] = pending[m][k]
      <4>1. i \in 1..Len(pending[m]) /\ pending'[m][i] = pending[m][i]
        BY <3>1, <2>2, <1>17, <1>18
      <4> QED
        BY <4>1, <3>1, <2>2, <1>8 DEF CardInv, Stacked
    <3>2. CASE m = x.name /\ pending'[m][k] = x.id /\ k = Len(pending[m]) + 1
      <4>1. i \in 1..Len(pending[m]) /\ pending'[m][i] = pending[m][i]
        BY <3>2, <2>2, <1>17, <1>18
      <4> QED
        BY <4>1, <3>2, <1>10
    <3> QED
      BY <3>1, <3>2, <1>16
  <2>3. \A n \in Asks : Active(n)' => n = a
    BY <1>13, <1>14
  <2>4. Active(a)'
    BY <1>8, <1>13
  <2> QED
    BY <2>1, <2>2, <2>3, <2>4, <1>4, <1>8 DEF Stacked
<1>26. Announced'
  <2>1. \A b \in Asks \cup Modes : Orderly(script'[b]) /\ (Queued(script'[b]) # {} => b \in Asks /\ at'[b] = "tools")
    BY <1>4, <1>6, <1>7, <1>8 DEF CardInv, Announced
  <2>2. ASSUME NEW n \in Asks, NEW y \in Queued(script'[n])
        PROVE  /\ \E i \in 1..Len(work') : work'[i] = y
               /\ \A m \in Names : \A i \in 1..Len(pending'[m]) : pending'[m][i] < y.id
    <3>1. n = a /\ y \in Queued(script[a]) /\ x.id < y.id
      BY <2>2, <1>6, <1>7, <1>8, OnlyOneRuns
    <3>2. \E i \in 1..Len(work) : work[i] = y
      BY <3>1, <1>8 DEF CardInv, Announced
    <3>3. \A m \in Names : \A i \in 1..Len(pending[m]) : pending[m][i] < y.id
      BY <3>1, <1>8 DEF CardInv, Announced
    <3> QED
      BY <3>1, <3>2, <3>3, <1>4, <1>16
  <2>3. ASSUME NEW n \in Asks, at'[n] = "tools", NEW i \in 1..Len(work') PROVE (work[i] \in Queued(script[n]) \/ Waits(work[i]))'
    <3>0. PICK w : w = work[i] /\ w = work'[i]
      BY <1>4
    <3>1. n = a /\ i \in 1..Len(work)
      BY <2>3, <1>4, <1>8, OnlyOneRuns
    <3>2. w \in Queued(script[a]) \/ Waits(w)
      <4>1. work[i] \in Queued(script[a]) \/ Waits(work[i])
        BY <3>1, <1>8 DEF CardInv, Announced
      <4> QED
        BY <4>1, <3>0
    <3>3. w \in Queued(script'[a]) \/ Waits(w)'
      <4>1. CASE i = j
        BY <4>1, <3>0, <1>9, <1>20
      <4>2. CASE i # j
        <5>1. w.id = LastRun(a) + i
          BY <3>0, <3>1, <1>11
        <5>2. w.id # x.id
          BY <5>1, <4>2, <3>1, <1>11, <1>12
        <5> QED
          BY <5>2, <3>2, <1>7, <1>19
      <4> QED
        BY <4>1, <4>2
    <3> QED
      BY <3>0, <3>1, <3>3
  <2>4. ASSUME NEW n \in Asks, NEW y \in Claiming(script'[n]) PROVE y.id = LastRun(n)' /\ Waits(y)'
    <3>1. n = a
      BY <2>4, <1>8, <1>22, OnlyOneRuns
    <3>2. y.id = LastRun(a) /\ Waits(y)
      BY <2>4, <3>1, <1>22 DEF CardInv, Announced
    <3>3. y.id # x.id
      BY <3>2, <1>11, <1>12
    <3> QED
      BY <3>1, <3>2, <3>3, <1>19, <1>21
  <2> QED
    BY <2>1, <2>2, <2>3, <2>4 DEF Announced
<1>27. LeftOver'
  <2>1. ASSUME NEW n \in Asks, NEW m \in Names, NEW i \in 1..Len(pending'[m]), NEW id, id = pending'[m][i], Active(n)', Ran(n, id)'
        PROVE  \E k \in Turn(n) : Missed(n, k)'
    <3>1. n = a /\ Active(n) /\ Ran(n, id)
      BY <2>1, <1>13, <1>14, <1>23
    <3>2. id # x.id
      BY <3>1, <1>11, <1>12 DEF Ran
    <3>3. i \in 1..Len(pending[m]) /\ id = pending[m][i]
      BY <2>1, <3>2, <1>16
    <3>4. PICK k \in Turn(n) : Missed(n, k)
      BY <3>1, <3>3 DEF CardInv, LeftOver
    <3> QED
      BY <3>4, <1>4, <1>23 DEF Missed
  <2> QED
    BY <2>1 DEF LeftOver
<1>28. Claimed'
  BY <1>4, <1>13, <1>23 DEF CardInv, Claimed
<1>29. CardIsOwn'
  BY <1>4 DEF CardInv, CardIsOwn
<1> QED
  BY <1>24, <1>25, <1>26, <1>27, <1>28, <1>29 DEF CardInv

\* The call that runs takes the oldest card of its name: its own, or one left over.
LEMMA ClaimCardCards == ASSUME Inv, CardInv, NEW a \in Asks \cup Modes, ClaimCard(a) PROVE CardInv'
<1>0. PICK x, card : x = Now(a).call /\ card = IF pending[x.name] = <<>> THEN 0 ELSE Head(pending[x.name])
  OBVIOUS
<1>1. script[a] # <<>> /\ Head(script[a]) \in Steps /\ Now(a) = Head(script[a]) /\ Now(a).do = "claim"
  BY Doings DEF ClaimCard
<1>2. x \in Called /\ x.id \in Nat /\ x.name \in Names /\ x.name # "other" /\ Head(script[a]) \notin Idles
  <2>1. x \in Called /\ x.name # "other"
    BY <1>0, <1>1, Fields
  <2> QED
    BY <2>1, <1>1, StepKinds DEF Called
<1>3. script \in [Asks \cup Modes -> Seq(Steps)] /\ WellMade(script[a]) /\ pending \in [Names -> Seq(Nat)]
  BY DEF Inv, Types, Scripts
<1>4. /\ pending' = [pending EXCEPT ![x.name] = IF @ = <<>> THEN @ ELSE Tail(@)]
      /\ script' = [script EXCEPT ![a] = WithCard(x, card) \o Tail(script[a])]
      /\ claims' = claims \cup {[call |-> x.id, card |-> card]}
      /\ UNCHANGED <<at, made, work>>
  BY <1>0 DEF ClaimCard, Then, core
<1>5. Using(script[a])
  <2>1. Head(script[a]) \in Tooling
    BY <1>1, KindsApart DEF Tooling
  <2> QED
    BY <2>1, <1>1, <1>3, RestOfScript
<1>6. a \in Asks /\ at[a] = "tools" /\ Active(a)
  BY <1>5 DEF Inv, Scripts, Active, Holding
<1>7. /\ Claiming(script[a]) = {x} /\ Claiming(Tail(script[a])) = {} /\ Queued(Tail(script[a])) = Queued(script[a])
      /\ Orderly(Tail(script[a])) /\ Tail(script[a]) \in Seq(Steps)
      /\ Idling(Tail(script[a])) <=> Idling(script[a])
  BY <1>0, <1>1, <1>2, <1>3, Shorter, HeadTailProperties, RestOfScript DEF CardInv, Announced
<1>8. x.id = LastRun(a) /\ Waits(x)
  <2>1. x \in Claiming(script[a])
    BY <1>7
  <2> QED
    BY <2>1, <1>6 DEF CardInv, Announced
<1>9. /\ made[a] \in Nat /\ Len(work) \in Nat /\ LastRun(a) \in Int /\ Base(a) \in Nat /\ MaxCalls \in Nat
      /\ Len(work) <= made[a] /\ (\A i \in 1..Len(work) : work[i].id = LastRun(a) + i) /\ LastRun(a) = Base(a) + made[a] - Len(work)
      /\ made[a] <= MaxCalls
  BY <1>6, Calls, Bases DEF CardInv, Counted, LastRun
\* Its own card is in the queue, so the first is that one or an older.
<1>10. \A m \in Names : Len(pending[m]) \in Nat /\ \A i \in 1..Len(pending[m]) : pending[m][i] \in Base(a) + 1..Base(a) + made[a]
  <2>1. ASSUME NEW m \in Names PROVE Len(pending[m]) \in Nat
    <3>1. pending[m] \in Seq(Nat)
      BY <1>3
    <3> QED
      BY <3>1, LenProperties
  <2> QED
    BY <2>1, <1>6 DEF CardInv, Stacked
<1>11. PICK j \in 1..Len(pending[x.name]) : pending[x.name][j] = x.id
  BY <1>2, <1>8 DEF Waits
<1>12. /\ pending[x.name] # <<>> /\ Head(pending[x.name]) = pending[x.name][1] /\ 1 \in 1..Len(pending[x.name])
       /\ pending'[x.name] = Tail(pending[x.name]) /\ Len(pending'[x.name]) = Len(pending[x.name]) - 1
       /\ \A i \in 1..Len(pending'[x.name]) : pending'[x.name][i] = pending[x.name][i + 1]
       /\ \A m \in Names : m # x.name => pending'[m] = pending[m]
  <2>1. pending[x.name] \in Seq(Nat) /\ pending[x.name] # <<>>
    BY <1>2, <1>3, <1>11, EmptySeq
  <2>2. pending'[x.name] = Tail(pending[x.name]) /\ \A m \in Names : m # x.name => pending'[m] = pending[m]
    BY <2>1, <1>2, <1>3, <1>4
  <2> QED
    BY <2>1, <2>2, <1>2, <1>10, <1>11, HeadTailProperties
<1>13. card = pending[x.name][1] /\ card <= x.id /\ card \in Base(a) + 1..Base(a) + made[a] /\ (card # x.id => card < x.id)
  <2>1. card = pending[x.name][1] /\ card \in Base(a) + 1..Base(a) + made[a]
    BY <1>0, <1>2, <1>10, <1>12
  <2>2. j = 1 \/ 1 < j
    BY <1>2, <1>10, <1>11
  <2>3. 1 < j => pending[x.name][1] < pending[x.name][j]
    BY <1>2, <1>6, <1>11, <1>12 DEF CardInv, Stacked
  <2> QED
    BY <2>1, <2>2, <2>3, <1>2, <1>9, <1>11
<1>14. x.id \in Turn(a) /\ card \in Turn(a) /\ card # 0
  <2>1. ASSUME NEW b \in Nat, NEW k \in Nat, NEW w \in Nat, NEW m \in Nat, k <= m, NEW c \in b + 1..b + k, c <= b + k - w
        PROVE  b + k - w \in b + 1..b + m /\ c \in b + 1..b + m /\ c # 0
    BY <2>1
  <2>2. card <= Base(a) + made[a] - Len(work) /\ x.id = Base(a) + made[a] - Len(work)
    BY <1>8, <1>9, <1>13
  <2> QED
    BY <2>1, <2>2, <1>9, <1>13 DEF Turn
<1>15. ASSUME NEW m \in Names, NEW i \in 1..Len(pending'[m])
       PROVE  \E k \in 1..Len(pending[m]) : pending'[m][i] = pending[m][k] /\ k = (IF m = x.name THEN i + 1 ELSE i)
  <2>1. CASE m # x.name
    BY <2>1, <1>12
  <2>2. CASE m = x.name
    <3>1. i + 1 \in 1..Len(pending[m]) /\ pending'[m][i] = pending[m][i + 1]
      BY <2>2, <1>2, <1>10, <1>12
    <3> QED
      BY <3>1, <2>2
  <2> QED
    BY <2>1, <2>2
<1>16. ASSUME NEW m \in Names, NEW i \in 1..Len(pending[m]), pending[m][i] # card
       PROVE  \E k \in 1..Len(pending'[m]) : pending'[m][k] = pending[m][i]
  <2>1. CASE m # x.name
    BY <2>1, <1>12
  <2>2. CASE m = x.name
    <3>1. i # 1
      BY <2>2, <1>13, <1>16
    <3>2. i - 1 \in 1..Len(pending'[m]) /\ (i - 1) + 1 = i
      BY <3>1, <2>2, <1>2, <1>10, <1>12
    <3> QED
      BY <3>2, <2>2, <1>12
  <2> QED
    BY <2>1, <2>2
<1>17. script'[a] = WithCard(x, card) \o Tail(script[a]) /\ \A b \in Asks \cup Modes : b # a => script'[b] = script[b]
  BY <1>3, <1>4
<1>18. WithCard(x, card) \in Seq(Plain)
  <2>1. card \in Nat
    BY <1>9, <1>13
  <2>2. CASE x.name \in {"read", "todo"}
    <3>1. Settle(card, "read") \in Seq(Plain)
      BY <2>1, Speaking, PlainSteps DEF Marks
    <3> QED
      BY <3>1, <2>2 DEF WithCard
  <2>3. CASE x.name \notin {"read", "todo"}
    <3>1. x \in Risky
      BY <2>3, <1>2 DEF Called, Risky, Names
    <3>2. [do |-> "plan", call |-> x, card |-> card] \in Plain
      BY <3>1, <2>1, PlainSteps
    <3>3. WithCard(x, card) = <<[do |-> "plan", call |-> x, card |-> card]>>
      BY <2>3 DEF WithCard
    <3> QED
      BY <3>2, <3>3
  <2> QED
    BY <2>2, <2>3
<1>19. /\ Orderly(script'[a]) /\ Queued(script'[a]) = Queued(script[a]) /\ Claiming(script'[a]) = {}
       /\ Idling(script'[a]) <=> Idling(script[a])
  BY <1>7, <1>17, <1>18, Longer
<1>20. \A n \in Asks : Active(n)' <=> Active(n)
  BY <1>4, <1>17, <1>19 DEF Active
<1>21. \A n \in Asks : Active(n) => n = a
  BY <1>6, OnlyOneRuns
<1>22. LastRun(a)' = LastRun(a) /\ \A n \in Asks : LastRun(n)' = LastRun(n)
  BY <1>4, <1>6 DEF LastRun
<1>23. \A n \in Asks : Claiming(script'[n]) = {}
  BY <1>6, <1>17, <1>19, OnlyOneRuns
<1>24. ASSUME NEW k 
       PROVE  /\ Ran(a, k)' <=> k \in Base(a) + 1..LastRun(a)
              /\ Ran(a, k) <=> (k \in Base(a) + 1..LastRun(a) /\ k < x.id)
  BY <1>6, <1>7, <1>22, <1>23 DEF Ran
<1>25. Counted'
  BY <1>4, <1>22 DEF CardInv, Counted
<1>26. Stacked'
  <2>1. ASSUME NEW m \in Names, NEW i \in 1..Len(pending'[m]) PROVE pending'[m][i] \in Base(a) + 1..Base(a) + made[a]
    BY <1>10, <1>15
  <2>2. ASSUME NEW m \in Names, NEW i \in 1..Len(pending'[m]), NEW k \in 1..Len(pending'[m]), i < k
        PROVE  pending'[m][i] < pending'[m][k]
    <3>1. PICK p \in 1..Len(pending[m]) : pending'[m][i] = pending[m][p] /\ p = IF m = x.name THEN i + 1 ELSE i
      BY <1>15
    <3>2. PICK q \in 1..Len(pending[m]) : pending'[m][k] = pending[m][q] /\ q = IF m = x.name THEN k + 1 ELSE k
      BY <1>15
    <3>3. p < q
      BY <3>1, <3>2, <2>2
    <3> QED
      BY <3>1, <3>2, <3>3, <1>6 DEF CardInv, Stacked
  <2>3. \A n \in Asks : Active(n)' => n = a
    BY <1>20, <1>21
  <2>4. Active(a)'
    BY <1>6, <1>20
  <2> QED
    BY <2>1, <2>2, <2>3, <2>4, <1>4, <1>6 DEF Stacked
<1>27. Announced'
  <2>1. \A b \in Asks \cup Modes : Orderly(script'[b]) /\ (Queued(script'[b]) # {} => b \in Asks /\ at'[b] = "tools")
    BY <1>4, <1>6, <1>17, <1>19 DEF CardInv, Announced
  <2>2. ASSUME NEW n \in Asks, NEW y \in Queued(script'[n])
        PROVE  /\ \E i \in 1..Len(work') : work'[i] = y
               /\ \A m \in Names : \A i \in 1..Len(pending'[m]) : pending'[m][i] < y.id
    <3>1. y \in Queued(script[n])
      BY <2>2, <1>17, <1>19
    <3>2. /\ \E i \in 1..Len(work) : work[i] = y
          /\ \A m \in Names : \A i \in 1..Len(pending[m]) : pending[m][i] < y.id
      BY <3>1 DEF CardInv, Announced
    <3>3. ASSUME NEW m \in Names, NEW i \in 1..Len(pending'[m]) PROVE pending'[m][i] < y.id
      BY <3>2, <1>15
    <3> QED
      BY <3>2, <3>3, <1>4
  <2>3. ASSUME NEW n \in Asks, at'[n] = "tools", NEW i \in 1..Len(work') PROVE (work[i] \in Queued(script[n]) \/ Waits(work[i]))'
    <3>0. PICK w : w = work[i] /\ w = work'[i]
      BY <1>4
    <3>1. n = a /\ i \in 1..Len(work)
      BY <2>3, <1>4, <1>6, OnlyOneRuns
    <3>2. w \in Queued(script[a]) \/ Waits(w)
      <4>1. work[i] \in Queued(script[a]) \/ Waits(work[i])
        BY <3>1, <1>6 DEF CardInv, Announced
      <4> QED
        BY <4>1, <3>0
    <3>3. w.id # card
      <4>1. w.id = LastRun(a) + i
        BY <3>0, <3>1, <1>9
      <4>2. i \in Nat \ {0} /\ LastRun(a) \in Int /\ card \in Int /\ card <= LastRun(a)
        BY <3>1, <1>8, <1>9, <1>13
      <4>3. LastRun(a) + i # card
        BY <4>2
      <4> QED
        BY <4>1, <4>3
    <3>4. ASSUME Waits(w) PROVE Waits(w)'
      <4>1. ASSUME NEW m \in Names, NEW k \in 1..Len(pending'[m]), pending'[m][k] = w.id PROVE m = w.name
        BY <4>1, <3>4, <1>15 DEF Waits
      <4>2. ASSUME NEW m \in Names, m = w.name PROVE \E k \in 1..Len(pending'[m]) : pending'[m][k] = w.id
        <5>1. PICK k \in 1..Len(pending[m]) : pending[m][k] = w.id
          BY <4>2, <3>4 DEF Waits
        <5> QED
          BY <5>1, <3>3, <1>16
      <4> QED
        BY <4>1, <4>2 DEF Waits
    <3>5. w \in Queued(script'[a]) \/ Waits(w)'
      BY <3>2, <3>4, <1>19
    <3> QED
      BY <3>0, <3>1, <3>5
  <2>4. \A n \in Asks : \A y \in Claiming(script'[n]) : y.id = LastRun(n)' /\ Waits(y)'
    BY <1>23
  <2> QED
    BY <2>1, <2>2, <2>3, <2>4 DEF Announced
\* A card that is left over was left by a call that missed its own.
<1>28. ASSUME NEW m \in Names, NEW i \in 1..Len(pending[m]), pending[m][i] < x.id PROVE \E k \in Turn(a) : Missed(a, k) /\ k < x.id
  <2>1. pending[m][i] \in Base(a) + 1..LastRun(a)
    BY <1>8, <1>9, <1>10, <1>28
  <2>2. Ran(a, pending[m][i])
    BY <2>1, <1>24, <1>28
  <2>3. PICK k \in Turn(a) : Missed(a, k)
    BY <2>2, <1>6 DEF CardInv, LeftOver
  <2> QED
    BY <2>3, <1>24 DEF Missed
<1>29. ASSUME NEW k, Missed(a, k), k < x.id PROVE (\A c \in claims' : c.call # k) /\ Missed(a, k)'
  <2>1. k \in Base(a) + 1..LastRun(a) /\ \A c \in claims : c.call # k
    BY <1>24, <1>29 DEF Missed
  <2>2. \A c \in claims' : c.call # k
    BY <2>1, <1>2, <1>4, <1>29
  <2> QED
    BY <2>1, <2>2, <1>24 DEF Missed
<1>30. LeftOver'
  <2>1. ASSUME NEW n \in Asks, NEW m \in Names, NEW i \in 1..Len(pending'[m]), NEW id, id = pending'[m][i], Active(n)', Ran(n, id)'
        PROVE  \E k \in Turn(n) : Missed(n, k)'
    <3>1. n = a /\ id \in Base(a) + 1..LastRun(a)
      BY <2>1, <1>20, <1>21, <1>24
    <3>2. PICK p \in 1..Len(pending[m]) : id = pending[m][p] /\ p = IF m = x.name THEN i + 1 ELSE i
      BY <2>1, <1>15
    <3>3. \E q \in Names : \E r \in 1..Len(pending[q]) : pending[q][r] < x.id
      <4>1. CASE id < x.id
        BY <4>1, <3>2
      <4>2. CASE id = x.id
        <5>1. m = x.name
          BY <4>2, <3>2, <1>8 DEF Waits
        <5>2. p > 1 /\ p \in 1..Len(pending[x.name])
          BY <5>1, <3>2
        <5>3. pending[x.name][1] < pending[x.name][p]
          BY <5>2, <1>2, <1>6, <1>12 DEF CardInv, Stacked
        <5> QED
          BY <5>1, <5>3, <4>2, <3>2, <1>2, <1>12
      <4> QED
        BY <4>1, <4>2, <3>1, <1>8, <1>9
    <3>4. PICK k \in Turn(a) : Missed(a, k) /\ k < x.id
      BY <3>3, <1>28
    <3> QED
      BY <3>1, <3>4, <1>29
  <2> QED
    BY <2>1 DEF LeftOver
<1>31. ASSUME NEW c \in claims, NEW n \in Asks, c.call \in Turn(n), Active(n) PROVE n = a /\ c.call \in Base(a) + 1..LastRun(a) /\ c.call < x.id
  <2>1. n = a /\ Ran(a, c.call)
    BY <1>21, <1>31 DEF CardInv, Claimed
  <2> QED
    BY <2>1, <1>24
<1>32. Claimed'
  <2>1. ASSUME NEW c \in claims', NEW t, t = c.call
        PROVE  /\ \E n \in Asks : t \in Turn(n)
               /\ \A n \in Asks : t \in Turn(n) => t <= Base(n) + made[n] /\ (Active(n)' => Ran(n, t)')
    <3>1. CASE c \in claims
      <4>1. /\ \E n \in Asks : t \in Turn(n)
            /\ \A n \in Asks : t \in Turn(n) => t <= Base(n) + made[n]
        BY <3>1, <2>1 DEF CardInv, Claimed
      <4>2. ASSUME NEW n \in Asks, t \in Turn(n), Active(n)' PROVE Ran(n, t)'
        <5>1. n = a /\ t \in Base(a) + 1..LastRun(a)
          BY <4>2, <3>1, <2>1, <1>20, <1>31
        <5> QED
          BY <5>1, <1>24
      <4> QED
        BY <4>1, <4>2
    <3>2. CASE c = [call |-> x.id, card |-> card]
      <4>1. t = x.id /\ \A n \in Asks : t \in Turn(n) => n = a
        BY <3>2, <2>1, <1>6, <1>14, TurnsApart
      <4>2. t \in Base(a) + 1..LastRun(a) /\ t <= Base(a) + made[a]
        BY <4>1, <1>8, <1>9, <1>14 DEF Turn
      <4>3. Ran(a, t)'
        BY <4>2, <1>24
      <4> QED
        BY <4>1, <4>2, <4>3, <1>6, <1>14
    <3> QED
      BY <3>1, <3>2, <1>4
  <2> QED
    BY <2>1, <1>4 DEF Claimed
<1>33. CardIsOwn'
  <2>1. ASSUME NEW c \in claims, c.card # c.call
        PROVE  \E k \in Cards : k # 0 /\ TurnOf(k) = TurnOf(c.call) /\ k < c.call /\ \A d \in claims' : d.call # k
    <3>1. PICK k \in Cards : k # 0 /\ TurnOf(k) = TurnOf(c.call) /\ k < c.call /\ \A d \in claims : d.call # k
      BY <2>1 DEF CardInv, CardIsOwn
    <3>2. k # x.id
      <4>1. SUFFICES ASSUME k = x.id PROVE FALSE
        OBVIOUS
      <4>2. PICK n \in Asks : c.call \in Turn(n)
        BY DEF CardInv, Claimed
      <4>3. TurnOf(c.call) = n - 1 /\ TurnOf(x.id) = a - 1
        BY <4>2, <1>6, <1>14, Turns
      <4>4. n = a
        BY <4>1, <4>3, <3>1, <1>6 DEF Asks
      <4>5. c.call < x.id
        BY <4>2, <4>4, <1>6, <1>31
      <4>6. c.call \in Nat
        BY <4>2, Bases DEF Turn
      <4> QED
        BY <4>1, <4>5, <4>6, <3>1, <1>2
    <3> QED
      BY <3>1, <3>2, <1>4
  <2>2. TurnOf(card) = TurnOf(x.id) /\ card <= x.id
    BY <1>6, <1>13, <1>14, Turns
  <2>3. ASSUME card # x.id
        PROVE  \E k \in Cards : k # 0 /\ TurnOf(k) = TurnOf(x.id) /\ k < x.id /\ \A d \in claims' : d.call # k
    <3>1. PICK k \in Turn(a) : Missed(a, k) /\ k < x.id
      BY <2>3, <1>2, <1>12, <1>13, <1>28
    <3>2. \A d \in claims' : d.call # k
      BY <3>1, <1>29
    <3>3. TurnOf(k) = TurnOf(x.id) /\ k \in Cards /\ k # 0
      BY <3>1, <1>6, <1>14, Turns, Bases
    <3> QED
      BY <3>1, <3>2, <3>3
  <2>4. ASSUME NEW c \in claims'
        PROVE  /\ c.card # 0 => TurnOf(c.card) = TurnOf(c.call) /\ c.card <= c.call
               /\ (c.card # c.call) => \E k \in Cards : k # 0 /\ TurnOf(k) = TurnOf(c.call) /\ k < c.call /\ \A d \in claims' : d.call # k
    <3>1. CASE c \in claims
      BY <3>1, <2>1 DEF CardInv, CardIsOwn
    <3>2. CASE c = [call |-> x.id, card |-> card]
      <4>1. c.card = card /\ c.call = x.id
        BY <3>2
      <4> QED
        BY <4>1, <2>2, <2>3
    <3> QED
      BY <3>1, <3>2, <1>4
  <2> QED
    BY <2>4 DEF CardIsOwn
<1> QED
  BY <1>25, <1>26, <1>27, <1>30, <1>32, <1>33 DEF CardInv

\* The turn is over: the cards that were left are nobody's.
LEMMA GoIdleCards == ASSUME Inv, CardInv, NEW a \in Asks \cup Modes, GoIdle(a) PROVE CardInv'
<1>1. script[a] # <<>> /\ Head(script[a]) \in Steps /\ Now(a) = Head(script[a]) /\ Now(a).do = "idle"
  BY Doings DEF GoIdle
<1>2. /\ script' = [script EXCEPT ![a] = <<>> \o Tail(script[a])] /\ busy' = FALSE
      /\ pending' = [n \in Names |-> <<>>] /\ UNCHANGED <<at, made, work, claims>>
  BY DEF GoIdle, Then, core
<1>3. Inv'
  BY GoIdleInv
<1>4. \A n \in Asks : ~Active(n)'
  BY <1>2, <1>3 DEF Inv, Gate
<1>5. \A n \in Asks : at[n] # "tools"
  BY <1>2, <1>4 DEF Active, Holding
<1>6. script \in [Asks \cup Modes -> Seq(Steps)] /\ WellMade(script[a])
  BY DEF Inv, Types, Scripts
<1>7. Tail(script[a]) \in Seq(Steps) /\ <<>> \o Tail(script[a]) = Tail(script[a])
  BY <1>1, <1>6, HeadTailProperties, ConcatEmptySeq
<1>8. script'[a] = Tail(script[a]) /\ \A b \in Asks \cup Modes : b # a => script'[b] = script[b]
  BY <1>2, <1>6, <1>7
<1>9. Orderly(script'[a]) /\ Queued(script'[a]) = Queued(script[a]) /\ Claiming(script'[a]) = Claiming(script[a])
  BY <1>1, <1>6, <1>8, Shorter DEF CardInv, Announced
<1>10. \A n \in Asks : Claiming(script'[n]) = {}
  <2>1. ASSUME NEW n \in Asks, Claiming(script[n]) # {} PROVE FALSE
    <3>1. PICK i \in 1..Len(script[n]) : script[n][i].do = "claim"
      BY <2>1 DEF Claiming, ClaimSteps
    <3>2. script[n][i] \in Steps
      BY <1>6, ElementOfSeq
    <3>3. Using(script[n])
      BY <3>1, <3>2, KindsApart DEF Using, Tooling
    <3> QED
      BY <3>3, <1>5 DEF Inv, Scripts
  <2> QED
    BY <2>1, <1>8, <1>9
<1>11. \A b \in Asks \cup Modes : Orderly(script'[b]) /\ Queued(script'[b]) = {}
  BY <1>5, <1>8, <1>9 DEF CardInv, Announced
<1>12. Counted'
  BY <1>2, <1>5 DEF CardInv, Counted
<1>13. Stacked'
  BY <1>2, <1>4 DEF Stacked
<1>14. Announced'
  BY <1>2, <1>5, <1>10, <1>11 DEF Announced
<1>15. LeftOver'
  BY <1>4 DEF LeftOver
<1>16. Claimed'
  BY <1>2, <1>4 DEF CardInv, Claimed
<1>17. CardIsOwn'
  BY <1>2 DEF CardInv, CardIsOwn
<1> QED
  BY <1>12, <1>13, <1>14, <1>15, <1>16, <1>17 DEF CardInv

\* A message goes on to a place where no tools run.
LEMMA CardsMove ==
    ASSUME Inv, CardInv, Inv', NEW n \in Asks, NEW l \in Places, l # "tools", at' = [at EXCEPT ![n] = l],
           l \in {"asked", "begun", "free"} => made[n] = 0,
           NEW r, script' = [script EXCEPT ![n] = r], Orderly(r), Queued(r) = {}, Claiming(r) = {},
           Active(n)', Active(n) => script[n] = <<>>, Active(n) \/ \A m \in Asks : ~Active(m), work = <<>>,
           UNCHANGED <<made, work, pending, claims>>
    PROVE  CardInv'
<1>1. script \in [Asks \cup Modes -> Seq(Steps)] /\ at \in [Asks -> Places]
  BY DEF Inv, Types
<1>2. script'[n] = r /\ (\A b \in Asks \cup Modes : b # n => script'[b] = script[b]) /\ at'[n] = l /\ \A m \in Asks : m # n => at'[m] = at[m]
  BY <1>1
<1>3. \A m \in Asks : Active(m)' => m = n
  BY DEF Inv, Gate
<1>4. \A m \in Asks : at'[m] # "tools"
  BY <1>2, <1>3 DEF Active, Holding
<1>5. \A m \in Asks : m # n => at[m] # "tools"
  BY <1>2, <1>4
<1>6. \A b \in Asks \cup Modes : Orderly(script'[b]) /\ Queued(script'[b]) = {}
  BY <1>2, <1>5 DEF CardInv, Announced
<1>7. \A m \in Asks : Claiming(script'[m]) = {}
  <2>1. ASSUME NEW m \in Asks, Claiming(script[m]) # {}, m # n PROVE FALSE
    <3>1. PICK i \in 1..Len(script[m]) : script[m][i].do = "claim"
      BY <2>1 DEF Claiming, ClaimSteps
    <3>2. script[m][i] \in Steps
      BY <1>1, ElementOfSeq
    <3>3. Using(script[m])
      BY <3>1, <3>2, KindsApart DEF Using, Tooling
    <3> QED
      BY <3>3, <2>1, <1>5 DEF Inv, Scripts
  <2> QED
    BY <2>1, <1>2
<1>8. made[n] \in Nat /\ Base(n) \in Nat /\ Len(work) = 0
  BY Calls, Bases
<1>9. LastRun(n) = Base(n) + made[n] /\ LastRun(n)' = LastRun(n)
  BY <1>8 DEF LastRun
<1>10. Counted'
  BY <1>2, <1>4 DEF CardInv, Counted
<1>11. Stacked'
  <2>1. CASE Active(n)
    BY <2>1, <1>3 DEF CardInv, Stacked
  <2>2. CASE \A m \in Asks : ~Active(m)
    <3>1. \A m \in Names : pending[m] = <<>>
      BY <2>2 DEF CardInv, Stacked
    <3>2. \A m \in Names : Len(pending'[m]) = 0
      BY <3>1
    <3> QED
      BY <3>1, <3>2 DEF Stacked
  <2> QED
    BY <2>1, <2>2
<1>12. Announced'
  BY <1>4, <1>6, <1>7 DEF Announced
<1>13. ASSUME NEW k PROVE Ran(n, k)' <=> k \in Base(n) + 1..Base(n) + made[n]
  BY <1>7, <1>9 DEF Ran
<1>14. LeftOver'
  <2>1. ASSUME NEW m \in Names, NEW i \in 1..Len(pending[m]), NEW id, id = pending[m][i], Ran(n, id)'
        PROVE  \E k \in Turn(n) : Missed(n, k)'
    <3>1. Active(n)
      <4>1. pending[m] # <<>>
        BY <2>1
      <4> QED
        BY <4>1 DEF CardInv, Stacked
    <3>2. Claiming(script[n]) = {}
      BY <3>1, NoCards
    <3>3. \A k : Ran(n, k) <=> k \in Base(n) + 1..Base(n) + made[n]
      BY <3>2, <1>9 DEF Ran
    <3>4. PICK k \in Turn(n) : Missed(n, k)
      BY <3>1, <3>3, <2>1, <1>13 DEF CardInv, LeftOver
    <3> QED
      BY <3>3, <3>4, <1>13 DEF Missed
  <2> QED
    BY <2>1, <1>3 DEF LeftOver
<1>15. Claimed'
  <2>1. ASSUME NEW c \in claims, NEW t, t = c.call, t \in Turn(n) PROVE t \in Base(n) + 1..Base(n) + made[n]
    <3>1. t <= Base(n) + made[n]
      BY <2>1 DEF CardInv, Claimed
    <3> QED
      BY <3>1, <2>1, <1>8, Bases DEF Turn
  <2> QED
    BY <2>1, <1>3, <1>13 DEF CardInv, Claimed
<1>16. CardIsOwn'
  BY DEF CardInv, CardIsOwn
<1> QED
  BY <1>10, <1>11, <1>12, <1>14, <1>15, <1>16 DEF CardInv

LEMMA TellingCards ==
    /\ \A s \in Seq(Plain) : Orderly(s) /\ Queued(s) = {} /\ Claiming(s) = {}
    /\ \A s \in {Failed, Finish, Tell("agent")} : Orderly(s) /\ Queued(s) = {} /\ Claiming(s) = {}
<1>1. ASSUME NEW s \in Seq(Plain) PROVE Orderly(s) /\ Queued(s) = {} /\ Claiming(s) = {}
  <2>1. <<>> \in Seq(Steps) /\ s \o <<>> = s
    BY ConcatEmptySeq
  <2> QED
    BY <2>1, Longer, NoCards
<1>2. Do("idle") \in Idles /\ StopButton \in Steps /\ StopButton.do = "send" /\ Do("idle").do = "idle"
  BY SpokenFrames DEF Do, Idles, StopButton, SendStep, Steps, Calm
<1>3. Idle \in Seq(Steps) /\ Orderly(Idle) /\ Queued(Idle) = {} /\ Claiming(Idle) = {}
  <2>1. Idle \in Seq(Steps) /\ Len(Idle) = 2 /\ Idle[1] = Do("idle") /\ Idle[2] = StopButton
    BY <1>2 DEF Idle, Steps
  <2>2. \A i \in 1..Len(Idle) : Idle[i].do \in {"idle", "send"}
    BY <2>1, <1>2
  <2>3. QueueSteps(Idle) = {} /\ ClaimSteps(Idle) = {}
    BY <2>2 DEF QueueSteps, ClaimSteps
  <2> QED
    BY <2>1, <2>3 DEF Orderly, Queued, Claiming
<1>4. Tell("agent") \in Seq(Plain) /\ Tell("error") \in Seq(Plain) /\ <<Do("meter")>> \in Seq(Plain)
  BY Speaking, PlainSteps, DoPlain DEF Kinds
<1>5. Orderly(Failed) /\ Queued(Failed) = {} /\ Claiming(Failed) = {}
  BY <1>3, <1>4, Longer DEF Failed
<1>6. Finish \in Seq(Steps) /\ Orderly(Finish) /\ Queued(Finish) = {} /\ Claiming(Finish) = {}
  BY <1>3, <1>4, Longer DEF Finish
<1>7. Orderly(Tell("agent")) /\ Queued(Tell("agent")) = {} /\ Claiming(Tell("agent")) = {}
  BY <1>1, <1>4
<1> QED
  BY <1>1, <1>5, <1>6, <1>7

LEMMA MovesCards ==
    ASSUME Inv, CardInv, NEW n \in Asks, Ask(n) \/ Prompt(n) \/ Register(n) \/ ToolsDone(n) \/ Final(n) \/ Leave(n) \/ SendFails(n)
    PROVE  CardInv'
<1>1. Inv'
  BY AskInv, PromptInv, ContinuesInv, FinalInv, LeavesInv
<1>2. UNCHANGED <<made, work, pending, claims>>
  BY DEF Ask, Prompt, Register, ToolsDone, Final, Leave, SendFails, own
<1>3. at \in [Asks -> Places] /\ script \in [Asks \cup Modes -> Seq(Steps)]
  BY DEF Inv, Types
<1>4. CASE Ask(n)
  <2>1. /\ at' = [at EXCEPT ![n] = "asked"] /\ script' = [script EXCEPT ![n] = Tell("user") \o <<StopButton>>]
        /\ at[n] = "free" /\ ~busy
    BY <1>4 DEF Ask, Goes
  <2>2. \A m \in Asks : ~Active(m)
    BY <2>1 DEF Inv, Gate
  <2>3. Tell("user") \o <<StopButton>> \in Seq(Plain)
    <3>1. Tell("user") \in Seq(Plain) /\ <<StopButton>> \in Seq(Plain)
      BY Speaking, SpokenFrames, PlainSteps DEF Kinds
    <3> QED
      BY <3>1, ConcatProperties
  <2>4. work = <<>>
    BY <2>2 DEF CardInv, Counted, Active, Holding
  <2>5. made[n] = 0
    BY <2>1 DEF CardInv, Counted
  <2>6. at'[n] = "asked"
    BY <2>1, <1>3
  <2>7. Active(n)'
    BY <2>6 DEF Active
  <2> QED
    BY <2>1, <2>2, <2>3, <2>4, <2>5, <2>7, <1>1, <1>2, TellingCards, CardsMove DEF Places
<1>5. CASE ~Ask(n)
  <2>1. /\ at[n] \in {"asked", "begun", "sending", "tools", "leaving"} /\ (at[n] = "tools" => work = <<>>) /\ script[n] = <<>>
    BY <1>5 DEF Prompt, Register, ToolsDone, Final, Leave, SendFails, At
  <2>2. Active(n)
    BY <2>1 DEF Active, Holding
  <2>3. work = <<>>
    BY <2>1, <2>2, OnlyOneRuns
  <2>4. made[n] = 0 \/ at[n] \in {"sending", "tools", "leaving"}
    BY <2>1 DEF CardInv, Counted
  <2>5. at'[n] # "refused"
    BY <1>1 DEF Inv, AskIsAdmitted
  <2>6. \/ at' = [at EXCEPT ![n] = "begun"] /\ at[n] = "asked" /\ UNCHANGED script
        \/ at' = [at EXCEPT ![n] = "sending"] /\ UNCHANGED script
        \/ at' = [at EXCEPT ![n] = "leaving"] /\ script' = [script EXCEPT ![n] = Tell("agent")]
        \/ at' = [at EXCEPT ![n] = "left"] /\ \E r \in {Failed, Finish} : script' = [script EXCEPT ![n] = r]
    <3>1. CASE Prompt(n)
      BY <3>1, <2>5, <1>3 DEF Prompt, At, Goes
    <3>2. CASE ~Prompt(n)
      BY <3>2, <1>5 DEF Register, ToolsDone, Final, Leave, SendFails, Goes
    <3> QED
      BY <3>1, <3>2
  <2>7. PICK l \in {"begun", "sending", "leaving", "left"} :
           /\ at' = [at EXCEPT ![n] = l] /\ (l = "begun" => at[n] = "asked")
           /\ l = "left" => \E r \in {Failed, Finish} : script' = [script EXCEPT ![n] = r]
           /\ l = "leaving" => script' = [script EXCEPT ![n] = Tell("agent")]
           /\ l \notin {"leaving", "left"} => UNCHANGED script
    BY <2>6
  <2>8. at'[n] = l
    BY <2>7, <1>3
  <2>9. PICK r \in {<<>>, Failed, Finish, Tell("agent")} :
           /\ script' = [script EXCEPT ![n] = r]
           /\ l = "left" => r \in {Failed, Finish}
    <3>1. CASE l = "left"
      BY <3>1, <2>7
    <3>2. CASE l = "leaving"
      BY <3>2, <2>7
    <3>3. CASE l \notin {"leaving", "left"}
      <4>1. script' = [script EXCEPT ![n] = <<>>]
        BY <3>3, <2>1, <2>7, ScriptsAreFunctions
      <4> QED
        BY <4>1, <3>3
    <3> QED
      BY <3>1, <3>2, <3>3
  <2>10. Orderly(r) /\ Queued(r) = {} /\ Claiming(r) = {}
    BY <2>9, TellingCards, NoCards
  <2>11. Active(n)'
    <3>1. script'[n] = r
      BY <2>9, <1>3
    <3>2. l = "left" => Idling(r)
      BY <2>9, Ending
    <3> QED
      BY <3>1, <3>2, <2>8 DEF Active, Holding
  <2> QED
    BY <2>2, <2>1, <2>3, <2>4, <2>7, <2>9, <2>10, <2>11, <1>1, <1>2, CardsMove DEF Places
<1> QED
  BY <1>4, <1>5

\* A response announces its calls in their order.
LEMMA Thirds ==
    ASSUME NEW k \in Nat, NEW i \in 1..3 * k
    PROVE  /\ ((i - 1) \div 3) + 1 \in 1..k /\ ((i - 1) % 3) + 1 \in 1..3
           /\ i = 3 * ((((i - 1) \div 3) + 1) - 1) + (((i - 1) % 3) + 1)
<1>1. PICK e \in Nat : e = i - 1
  OBVIOUS
<1>2. e \div 3 \in Nat /\ e % 3 \in 0..2 /\ e = 3 * (e \div 3) + (e % 3)
  OBVIOUS
<1>3. i = e + 1 /\ e < 3 * k
  BY <1>1
<1>4. PICK q \in Nat, r \in 0..2 : q = e \div 3 /\ r = e % 3
  BY <1>2
<1>5. e = 3 * q + r
  BY <1>2, <1>4
<1>6. q + 1 \in 1..k /\ i = 3 * ((q + 1) - 1) + (r + 1) /\ r + 1 \in 1..3
  BY <1>3, <1>5
<1> QED
  BY <1>1, <1>4, <1>6

LEMMA AnnouncedCalls ==
    ASSUME NEW calls \in Seq(Called), NEW k \in Nat, Len(calls) = k,
           \A i, j \in 1..k : i < j => calls[i].id < calls[j].id,
           NEW s, s = AnnounceAll(calls)
    PROVE  /\ Orderly(s) /\ Claiming(s) = {}
           /\ \A i \in 1..k : calls[i] \in Queued(s)
           /\ \A x \in Queued(s) : \E i \in 1..k : x = calls[i]
<1>1. s \in Seq(Calm)
  BY Announcing
<1>2. DOMAIN s = 1..3 * k /\ 3 * k \in Nat /\ Len(s) = 3 * k
  <2>1. DOMAIN s = 1..3 * k /\ 3 * k \in Nat
    BY DEF AnnounceAll
  <2> QED
    BY <2>1, <1>1, LenProperties
<1>3. ASSUME NEW i \in 1..3 * k
      PROVE  \E q \in 1..k, r \in 1..3 : i = 3 * (q - 1) + r /\ s[i] = Announce(calls[q])[r]
  <2>1. s[i] = Announce(calls[((i - 1) \div 3) + 1])[((i - 1) % 3) + 1]
    BY <1>2 DEF AnnounceAll
  <2> QED
    BY <2>1, Thirds
<1>4. ASSUME NEW c PROVE /\ Announce(c)[1] = [do |-> "queue", call |-> c]
                         /\ Announce(c)[2].do = "note" /\ Announce(c)[3].do = "send"
  BY DEF Announce, NoteStep, SendStep
<1>5. ASSUME NEW i \in 1..3 * k, NEW q \in 1..k, NEW r \in 1..3, s[i] = Announce(calls[q])[r]
      PROVE  /\ s[i].do # "claim"
             /\ s[i].do = "queue" <=> r = 1
             /\ r = 1 => s[i].call = calls[q]
  <2>1. PICK c : c = calls[q]
    OBVIOUS
  <2>2. PICK t : t = Announce(c)
    OBVIOUS
  <2>3. s[i] = t[r]
    BY <1>5, <2>1, <2>2
  <2>4. t[1] = [do |-> "queue", call |-> c] /\ t[2].do = "note" /\ t[3].do = "send"
    BY <1>4, <2>2
  <2>5. r = 1 \/ r = 2 \/ r = 3
    OBVIOUS
  <2> QED
    BY <2>1, <2>3, <2>4, <2>5
<1>6. ASSUME NEW i \in QueueSteps(s) PROVE \E q \in 1..k : i = 3 * (q - 1) + 1 /\ s[i].call = calls[q]
  <2>1. i \in 1..3 * k /\ s[i].do = "queue"
    BY <1>2 DEF QueueSteps
  <2>2. PICK q \in 1..k, r \in 1..3 : i = 3 * (q - 1) + r /\ s[i] = Announce(calls[q])[r]
    BY <2>1, <1>3
  <2> QED
    BY <2>1, <2>2, <1>5
<1>7. Claiming(s) = {} /\ ClaimSteps(s) = {}
  <2>1. ASSUME NEW i \in 1..3 * k PROVE s[i].do # "claim"
    BY <1>3, <1>5
  <2> QED
    BY <2>1, <1>2 DEF Claiming, ClaimSteps
<1>8. ASSUME NEW i \in QueueSteps(s), NEW j \in QueueSteps(s), i < j PROVE s[i].call.id < s[j].call.id
  <2>1. PICK p \in 1..k : i = 3 * (p - 1) + 1 /\ s[i].call = calls[p]
    BY <1>6
  <2>2. PICK q \in 1..k : j = 3 * (q - 1) + 1 /\ s[j].call = calls[q]
    BY <1>6
  <2>3. p < q
    BY <2>1, <2>2, <1>8
  <2> QED
    BY <2>1, <2>2, <2>3
<1>9. ASSUME NEW q \in 1..k PROVE calls[q] \in Queued(s)
  <2>1. PICK i \in 1..3 * k : i = 3 * (q - 1) + 1
    OBVIOUS
  <2>2. PICK p \in 1..k, r \in 1..3 : i = 3 * (p - 1) + r /\ s[i] = Announce(calls[p])[r]
    BY <1>3
  <2>3. p = q /\ r = 1
    BY <2>1, <2>2
  <2>4. s[i].do = "queue" /\ s[i].call = calls[q]
    BY <2>2, <2>3, <1>5
  <2>5. i \in QueueSteps(s)
    BY <2>4, <1>2 DEF QueueSteps
  <2> QED
    BY <2>4, <2>5 DEF Queued
<1>10. ASSUME NEW x \in Queued(s) PROVE \E i \in 1..k : x = calls[i]
  BY <1>6 DEF Queued
<1> QED
  BY <1>7, <1>8, <1>9, <1>10 DEF Orderly

LEMMA ResponseCards == ASSUME Inv, CardInv, NEW n \in Asks, Response(n) PROVE CardInv'
<1>0. Inv'
  BY ResponseInv
<1>1. PICK kinds \in BoundedSeq(CallKinds, MaxCalls) :
         /\ made[n] + Len(kinds) <= MaxCalls
         /\ work' = [i \in DOMAIN kinds |-> Call(n, made[n] + i, kinds[i])]
         /\ made' = [made EXCEPT ![n] = @ + Len([i \in DOMAIN kinds |-> Call(n, made[n] + i, kinds[i])])]
         /\ script' = [script EXCEPT ![n] = AnnounceAll([i \in DOMAIN kinds |-> Call(n, made[n] + i, kinds[i])])]
  BY DEF Response
<1>2. PICK calls : calls = [i \in DOMAIN kinds |-> Call(n, made[n] + i, kinds[i])] /\ calls = work'
  BY <1>1
<1>3. /\ at[n] = "sending" /\ script[n] = <<>> /\ Active(n) /\ at' = [at EXCEPT ![n] = "tools"]
      /\ UNCHANGED <<pending, claims>> /\ at \in [Asks -> Places] /\ script \in [Asks \cup Modes -> Seq(Steps)]
      /\ made \in [Asks -> Nat]
  BY DEF Response, At, Goes, own, Active, Holding, Inv, Types
<1>4. work = <<>> /\ Len(work) = 0
  BY <1>3, OnlyOneRuns
<1>5. PICK k \in Nat : kinds \in [1..k -> CallKinds]
  <2>1. MaxCalls \in Nat
    BY ConsoleAssumption
  <2>2. kinds \in UNION {[1..j -> CallKinds] : j \in 0..MaxCalls}
    BY DEF BoundedSeq, SeqOf
  <2> QED
    BY <2>1, <2>2
<1>6. calls = [i \in 1..k |-> Call(n, made[n] + i, kinds[i])] /\ calls \in Seq(Called) /\ Len(calls) = k /\ Len(kinds) = k
  <2>1. calls = [i \in 1..k |-> Call(n, made[n] + i, kinds[i])] /\ Len(kinds) = k
    BY <1>2, <1>5
  <2>2. calls \in Seq(Called)
    BY <1>0, <1>2 DEF Inv, Types
  <2> QED
    BY <2>1, <2>2, LenProperties
<1>7. made[n] \in Nat /\ Base(n) \in Nat /\ MaxCalls \in Nat /\ made[n] + k <= MaxCalls
  BY <1>1, <1>3, <1>6, Bases
<1>8. made' = [made EXCEPT ![n] = made[n] + k] /\ script' = [script EXCEPT ![n] = AnnounceAll(calls)]
  BY <1>1, <1>2, <1>6
<1>9. /\ made'[n] = made[n] + k /\ (\A m \in Asks : m # n => made'[m] = made[m])
      /\ script'[n] = AnnounceAll(calls) /\ (\A b \in Asks \cup Modes : b # n => script'[b] = script[b])
      /\ at'[n] = "tools" /\ (\A m \in Asks : m # n => at'[m] = at[m])
  BY <1>3, <1>8
<1>10. /\ LastRun(n) = Base(n) + made[n]
       /\ LastRun(n)' = Base(n) + made[n]
  <2>1. LastRun(n) = Base(n) + made[n]
    BY <1>4, <1>7 DEF LastRun
  <2>2. LastRun(n)' = Base(n) + (made[n] + k) - k
    BY <1>2, <1>6, <1>9 DEF LastRun, Base
  <2> QED
    BY <2>1, <2>2, <1>7
<1>11. ASSUME NEW i \in 1..k PROVE calls[i].id = Base(n) + made[n] + i
  <2>1. calls[i].id = (n - 1) * MaxCalls + (made[n] + i)
    BY <1>6 DEF Call
  <2> QED
    BY <2>1, <1>7 DEF Base
<1>12. \A i, j \in 1..k : i < j => calls[i].id < calls[j].id
  BY <1>7, <1>11
<1>13. /\ Orderly(script'[n]) /\ Claiming(script'[n]) = {}
       /\ \A i \in 1..k : calls[i] \in Queued(script'[n])
       /\ \A x \in Queued(script'[n]) : \E i \in 1..k : x = calls[i]
  BY <1>6, <1>9, <1>12, AnnouncedCalls
<1>14. Active(n)' /\ \A m \in Asks : Active(m)' => m = n
  BY <1>0, <1>9 DEF Active, Holding, Inv, Gate
<1>15. \A m \in Asks : at'[m] = "tools" => m = n
  BY <1>14 DEF Active, Holding
<1>16. \A b \in Asks \cup Modes : b # n => Queued(script'[b]) = {}
  BY <1>3, <1>9, <1>15 DEF CardInv, Announced
<1>17. \A m \in Asks : Claiming(script'[m]) = {}
  <2>1. \A m \in Asks : m # n => Claiming(script[m]) = {}
    BY <1>3, OnlyOneRuns
  <2> QED
    BY <2>1, <1>9, <1>13
<1>18. \A k2 : Ran(n, k2)' <=> Ran(n, k2)
  <2>1. Claiming(script[n]) = {}
    BY <1>3, NoCards
  <2> QED
    BY <2>1, <1>10, <1>17 DEF Ran
<1>19. \A m \in Names : \A i \in 1..Len(pending[m]) : pending[m][i] \in Base(n) + 1..Base(n) + made[n]
  BY <1>3 DEF CardInv, Stacked
<1>20. Counted'
  <2>1. \A m \in Asks : made'[m] <= MaxCalls /\ (at'[m] \in {"free", "asked", "begun"} => made'[m] = 0)
    BY <1>7, <1>9 DEF CardInv, Counted
  <2>2. Len(work') <= made'[n] /\ \A i \in 1..Len(work') : work'[i].id = LastRun(n)' + i
    BY <1>2, <1>6, <1>7, <1>9, <1>10, <1>11
  <2> QED
    BY <2>1, <2>2, <1>9, <1>15 DEF Counted
<1>21. Stacked'
  <2>1. ASSUME NEW m \in Names, NEW i \in 1..Len(pending[m]) PROVE pending[m][i] \in Base(n) + 1..Base(n) + made'[n]
    BY <1>7, <1>9, <1>19
  <2>2. \A m \in Names : \A i, j \in 1..Len(pending[m]) : i < j => pending[m][i] < pending[m][j]
    BY <1>3 DEF CardInv, Stacked
  <2> QED
    BY <2>1, <2>2, <1>3, <1>14 DEF Stacked
<1>22. Announced'
  <2>1. \A b \in Asks \cup Modes : Orderly(script'[b]) /\ (Queued(script'[b]) # {} => b \in Asks /\ at'[b] = "tools")
    BY <1>9, <1>13, <1>16 DEF CardInv, Announced
  <2>2. ASSUME NEW m \in Asks, NEW y \in Queued(script'[m])
        PROVE  /\ \E i \in 1..Len(work') : work'[i] = y
               /\ \A p \in Names : \A i \in 1..Len(pending'[p]) : pending'[p][i] < y.id
    <3>1. m = n
      BY <2>2, <1>16
    <3>2. PICK i \in 1..k : y = calls[i]
      BY <2>2, <3>1, <1>13
    <3>3. y.id = Base(n) + made[n] + i
      BY <3>2, <1>11
    <3>4. ASSUME NEW p \in Names, NEW j \in 1..Len(pending[p]) PROVE pending[p][j] < y.id
      BY <3>3, <1>7, <1>19
    <3> QED
      BY <3>2, <3>4, <1>2, <1>3, <1>6
  <2>3. ASSUME NEW m \in Asks, at'[m] = "tools", NEW i \in 1..Len(work') PROVE (work[i] \in Queued(script[m]))'
    BY <2>3, <1>2, <1>6, <1>13, <1>15
  <2> QED
    BY <2>1, <2>2, <2>3, <1>17 DEF Announced
<1>23. LeftOver'
  <2>1. ASSUME NEW m \in Names, NEW i \in 1..Len(pending[m]), NEW id, id = pending[m][i], Ran(n, id)'
        PROVE  \E j \in Turn(n) : Missed(n, j)'
    <3>1. PICK j \in Turn(n) : Missed(n, j)
      BY <2>1, <1>3, <1>18 DEF CardInv, LeftOver
    <3> QED
      BY <3>1, <1>3, <1>18 DEF Missed
  <2> QED
    BY <2>1, <1>3, <1>14 DEF LeftOver
<1>24. Claimed'
  <2>1. ASSUME NEW c \in claims, NEW m \in Asks, c.call \in Turn(m) PROVE c.call <= Base(m) + made'[m]
    <3>1. c.call <= Base(m) + made[m] /\ made[m] \in Nat /\ Base(m) \in Nat /\ c.call \in Nat
      BY <2>1, <1>3, Bases DEF CardInv, Claimed, Turn
    <3> QED
      BY <3>1, <1>7, <1>9
  <2>2. ASSUME NEW c \in claims, NEW t, t = c.call, t \in Turn(n) PROVE Ran(n, t)'
    BY <2>2, <1>3, <1>18 DEF CardInv, Claimed
  <2> QED
    BY <2>1, <2>2, <1>3, <1>14 DEF CardInv, Claimed
<1>25. CardIsOwn'
  BY <1>3 DEF CardInv, CardIsOwn
<1> QED
  BY <1>20, <1>21, <1>22, <1>23, <1>24, <1>25 DEF CardInv

\* A tool claims the card of its call, or none.
LEMMA ToolCards ==
    ASSUME NEW call \in Called, NEW s, s = ToolScript(call)
    PROVE  Orderly(s) /\ Queued(s) = {} /\ (Claiming(s) = {} \/ Claiming(s) = {call})
<1>1. call.id \in Nat /\ call.decodes \in BOOLEAN
  BY DEF Called
<1>2. CASE call.name = "other"
  <2>1. s = Tell("deny") /\ Tell("deny") \in Seq(Plain)
    BY <1>2, Speaking, PlainSteps DEF ToolScript, Kinds
  <2> QED
    BY <2>1, TellingCards
<1>3. CASE call.name # "other" /\ ~call.decodes
  <2>1. s = <<>>
    BY <1>3 DEF ToolScript
  <2> QED
    BY <2>1, NoCards
<1>4. CASE call.name = "todo" /\ call.decodes
  <2>1. s = <<[do |-> "todos", call |-> call], SendStep(Header("todos", call.id)), [do |-> "claim", call |-> call]>>
    BY <1>4 DEF ToolScript
  <2>2. /\ Len(s) = 3 /\ s[1].do = "todos" /\ s[2].do = "send" /\ s[3].do = "claim" /\ s[3].call = call
        /\ \A i \in 1..Len(s) : i = 1 \/ i = 2 \/ i = 3
    BY <2>1 DEF SendStep
  <2>3. QueueSteps(s) = {}
    BY <2>2 DEF QueueSteps
  <2>4. 3 \in ClaimSteps(s) /\ \A i \in ClaimSteps(s) : i = 3
    BY <2>2 DEF ClaimSteps
  <2> QED
    BY <2>2, <2>3, <2>4 DEF Orderly, Queued, Claiming
<1>5. CASE call.name # "other" /\ call.name # "todo" /\ call.decodes
  <2>1. s = <<[do |-> "claim", call |-> call]>>
    BY <1>5 DEF ToolScript
  <2>2. /\ Len(s) = 1 /\ s[1].do = "claim" /\ s[1].call = call
        /\ \A i \in 1..Len(s) : i = 1
    BY <2>1
  <2>3. QueueSteps(s) = {}
    BY <2>2 DEF QueueSteps
  <2>4. 1 \in ClaimSteps(s) /\ \A i \in ClaimSteps(s) : i = 1
    BY <2>2 DEF ClaimSteps
  <2> QED
    BY <2>2, <2>3, <2>4 DEF Orderly, Queued, Claiming
<1> QED
  BY <1>1, <1>2, <1>3, <1>4, <1>5

\* A call that runs either claims its card next, or has missed it for good.
LEMMA RunToolCards == ASSUME Inv, CardInv, NEW n \in Asks, RunTool(n) PROVE CardInv'
<1>0. Inv'
  BY RunToolInv
<1>1. PICK x, s : x = Head(work) /\ s = ToolScript(x)
  OBVIOUS
<1>2. /\ at[n] = "tools" /\ script[n] = <<>> /\ Active(n) /\ work # <<>> /\ work' = Tail(work)
      /\ script' = [script EXCEPT ![n] = s]
      /\ UNCHANGED <<at, pending, claims, made>>
  BY <1>1 DEF RunTool, At, own, Active, Holding
<1>3. /\ made[n] \in Nat /\ Len(work) \in Nat \ {0} /\ LastRun(n) \in Int /\ Base(n) \in Nat /\ MaxCalls \in Nat
      /\ Len(work) <= made[n] /\ made[n] <= MaxCalls /\ LastRun(n) = Base(n) + made[n] - Len(work)
      /\ \A i \in 1..Len(work) : work[i] \in Called /\ work[i].id = LastRun(n) + i
  BY <1>2, Calls, Bases, EmptySeq DEF CardInv, Counted, LastRun
<1>4. /\ x = work[1] /\ Len(work') = Len(work) - 1 /\ 1 \in 1..Len(work)
      /\ \A i \in 1..Len(work') : work'[i] = work[i + 1] /\ i + 1 \in 1..Len(work)
  BY <1>1, <1>2, <1>3, Calls, HeadTailProperties
<1>5. x \in Called /\ x.id = LastRun(n) + 1 /\ x.id \in Nat
  BY <1>3, <1>4 DEF Called
<1>6. Orderly(s) /\ Queued(s) = {} /\ (Claiming(s) = {} \/ Claiming(s) = {x})
  BY <1>1, <1>5, ToolCards
<1>7. script'[n] = s /\ \A b \in Asks \cup Modes : b # n => script'[b] = script[b]
  BY <1>2 DEF Inv, Types
<1>8. Queued(script[n]) = {} /\ Claiming(script[n]) = {}
  BY <1>2, NoCards
<1>9. \A i \in 1..Len(work) : Waits(work[i])
  BY <1>2, <1>8 DEF CardInv, Announced
<1>10. LastRun(n)' = LastRun(n) + 1
  <2>1. LastRun(n)' = Base(n) + made[n] - (Len(work) - 1)
    BY <1>2, <1>4 DEF LastRun, Base
  <2> QED
    BY <2>1, <1>3
<1>11. Active(n)' /\ \A m \in Asks : Active(m)' => m = n
  BY <1>0, <1>2 DEF Active, Holding, Inv, Gate
<1>12. \A m \in Asks : at'[m] = "tools" => m = n
  BY <1>11 DEF Active, Holding
<1>13. \A m \in Asks : m # n => Queued(script'[m]) = {} /\ Claiming(script'[m]) = {}
  BY <1>2, <1>7, OnlyOneRuns
<1>14. /\ \A k : Ran(n, k)' <=> (k \in Base(n) + 1..LastRun(n) + 1 /\ \A y \in Claiming(s) : k < y.id)
       /\ \A k : Ran(n, k) <=> k \in Base(n) + 1..LastRun(n)
  BY <1>7, <1>8, <1>10 DEF Ran, Base
<1>15. \A k : Ran(n, k) => Ran(n, k)'
  <2>1. \A k : k \in Base(n) + 1..LastRun(n) => k \in Base(n) + 1..LastRun(n) + 1 /\ k < x.id
    BY <1>3, <1>5
  <2> QED
    BY <2>1, <1>6, <1>14
<1>16. \A c \in claims : c.call # x.id
  <2>1. SUFFICES ASSUME NEW c \in claims, c.call = x.id PROVE FALSE
    OBVIOUS
  <2>2. c.call \in Turn(n)
    BY <2>1, <1>3, <1>5 DEF Turn
  <2>3. Ran(n, c.call)
    BY <2>1, <2>2, <1>2 DEF CardInv, Claimed
  <2>4. c.call \in Base(n) + 1..LastRun(n)
    BY <2>3, <1>14
  <2> QED
    BY <2>1, <2>4, <1>3, <1>5
<1>17. Counted'
  <2>1. Len(work') <= made'[n] /\ \A i \in 1..Len(work') : work'[i].id = LastRun(n)' + i
    <3>1. Len(work') <= made'[n]
      BY <1>2, <1>3, <1>4
    <3>2. ASSUME NEW i \in 1..Len(work') PROVE work'[i].id = (LastRun(n) + 1) + i
      <4>1. work'[i] = work[i + 1] /\ work[i + 1].id = LastRun(n) + (i + 1)
        BY <1>3, <1>4
      <4>2. i \in Nat /\ LastRun(n) \in Int
        BY <1>3, <1>4
      <4>3. LastRun(n) + (i + 1) = (LastRun(n) + 1) + i
        BY <4>2
      <4> QED
        BY <4>1, <4>3
    <3> QED
      BY <3>1, <3>2, <1>10
  <2>2. \A m \in Asks : made'[m] <= MaxCalls /\ (at'[m] \in {"free", "asked", "begun"} => made'[m] = 0)
    BY <1>2 DEF CardInv, Counted
  <2> QED
    BY <2>1, <2>2, <1>2, <1>12 DEF Counted
<1>18. Stacked'
  <2>1. \A m \in Names :
          /\ \A i \in 1..Len(pending[m]) : pending[m][i] \in Base(n) + 1..Base(n) + made[n]
          /\ \A i, j \in 1..Len(pending[m]) : i < j => pending[m][i] < pending[m][j]
    BY <1>2 DEF CardInv, Stacked
  <2> QED
    BY <2>1, <1>2, <1>11 DEF Stacked
<1>19. Announced'
  <2>1. \A b \in Asks \cup Modes : Orderly(script'[b]) /\ (Queued(script'[b]) # {} => b \in Asks /\ at'[b] = "tools")
    BY <1>2, <1>6, <1>7 DEF CardInv, Announced
  <2>2. \A m \in Asks : Queued(script'[m]) = {}
    BY <1>6, <1>7, <1>13
  <2>3. ASSUME NEW m \in Asks, at'[m] = "tools", NEW i \in 1..Len(work') PROVE Waits(work[i])'
    <3>1. PICK w : w = work'[i]
      OBVIOUS
    <3>2. Waits(w)
      <4>1. w = work[i + 1] /\ i + 1 \in 1..Len(work)
        BY <3>1, <1>4
      <4> QED
        BY <4>1, <1>9
    <3>3. Waits(w)'
      BY <3>2, <1>2 DEF Waits
    <3> QED
      BY <3>1, <3>3
  <2>4. ASSUME NEW m \in Asks, NEW y \in Claiming(script'[m]) PROVE y.id = LastRun(m)' /\ Waits(y)'
    <3>1. m = n /\ y = x
      BY <2>4, <1>6, <1>7, <1>13
    <3>2. Waits(x)
      BY <1>4, <1>9
    <3>3. Waits(y)'
      BY <3>1, <3>2, <1>2 DEF Waits
    <3> QED
      BY <3>1, <3>3, <1>5, <1>10
  <2> QED
    BY <2>1, <2>2, <2>3, <2>4 DEF Announced
\* Without a step that claims, the call is the one that missed its card.
<1>20. LeftOver'
  <2>1. ASSUME NEW m \in Names, NEW i \in 1..Len(pending[m]), NEW id, id = pending[m][i], Ran(n, id)'
        PROVE  \E k \in Turn(n) : Missed(n, k)'
    <3>1. CASE Claiming(s) = {x}
      <4>1. Ran(n, id)
        <5>1. id \in Base(n) + 1..LastRun(n) + 1 /\ id < x.id
          BY <2>1, <3>1, <1>14
        <5>2. id \in Base(n) + 1..LastRun(n)
          BY <5>1, <1>3, <1>5
        <5> QED
          BY <5>2, <1>14
      <4>2. PICK k \in Turn(n) : Missed(n, k)
        BY <4>1, <2>1, <1>2 DEF CardInv, LeftOver
      <4>3. Missed(n, k)'
        BY <4>2, <1>2, <1>15 DEF Missed
      <4> QED
        BY <4>3
    <3>2. CASE Claiming(s) = {}
      <4>1. PICK k : k = x.id
        OBVIOUS
      <4>2. k \in Turn(n) /\ k \in Base(n) + 1..LastRun(n) + 1
        BY <4>1, <1>3, <1>5 DEF Turn
      <4>3. Ran(n, k)'
        BY <4>2, <3>2, <1>14
      <4>4. Missed(n, k)'
        BY <4>1, <4>3, <1>2, <1>16 DEF Missed
      <4> QED
        BY <4>2, <4>4
    <3> QED
      BY <3>1, <3>2, <1>6
  <2> QED
    BY <2>1, <1>2, <1>11 DEF LeftOver
<1>21. Claimed'
  <2>1. ASSUME NEW c \in claims, NEW t, t = c.call, t \in Turn(n) PROVE Ran(n, t)'
    BY <2>1, <1>2, <1>15 DEF CardInv, Claimed
  <2> QED
    BY <2>1, <1>2, <1>11 DEF CardInv, Claimed
<1>22. CardIsOwn'
  BY <1>2 DEF CardInv, CardIsOwn
<1> QED
  BY <1>17, <1>18, <1>19, <1>20, <1>21, <1>22 DEF CardInv

LEMMA SetModeCards == ASSUME Inv, CardInv, NEW h \in Modes, NEW m \in {"plan", "act"}, SetMode(h, m) PROVE CardInv'
<1>1. PICK t : t = <<SendStep(Header("mode", m)), Do("returned")>>
  OBVIOUS
<1>2. t \in Seq(Plain)
  <2>1. SendStep(Header("mode", m)) \in Plain /\ Do("returned") \in Plain
    BY SpokenFrames, DoPlain, PlainSteps
  <2> QED
    BY <2>1, <1>1
<1>3. t \o script[h] = t
  BY <1>2, ConcatEmptySeq DEF SetMode
<1>4. script' = [script EXCEPT ![h] = t \o @] /\ UNCHANGED <<at, made, work, pending, claims>>
  BY <1>1, <1>3 DEF SetMode, core
<1> QED
  BY <1>2, <1>4, CardsWork

LEMMA OutsideCards ==
    ASSUME Inv, CardInv, UNCHANGED <<script, at, made, work, pending, claims>>
    PROVE  CardInv'
<1>1. \A a \in Asks \cup Modes : Orderly(script'[a])
  BY DEF CardInv, Announced
<1>2. \A n \in Asks : Active(n)' <=> Active(n)
  BY DEF Active
<1> QED
  BY <1>1, <1>2, CardsKept

LEMMA InitCards == Init => CardInv
<1> SUFFICES ASSUME Init PROVE CardInv
  OBVIOUS
<1>1. \A a \in Asks \cup Modes : script[a] = <<>>
  BY DEF Init
<1>2. \A n \in Asks : at[n] = "free" /\ made[n] = 0
  BY DEF Init
<1>3. work = <<>> /\ claims = {} /\ \A m \in Names : pending[m] = <<>> /\ Len(pending[m]) = 0
  BY DEF Init
<1>4. \A n \in Asks : ~Active(n)
  BY <1>1, <1>2, Empty DEF Active, Holding
<1>5. MaxCalls \in Nat
  BY ConsoleAssumption
<1>6. Counted
  BY <1>2, <1>3, <1>5 DEF Counted
<1>7. Stacked /\ LeftOver
  BY <1>3, <1>4 DEF Stacked, LeftOver
<1>8. Announced
  BY <1>1, <1>2, NoCards DEF Announced
<1>9. Claimed /\ CardIsOwn
  BY <1>3 DEF Claimed, CardIsOwn
<1> QED
  BY <1>6, <1>7, <1>8, <1>9 DEF CardInv

LEMMA NextCards == Inv /\ CardInv /\ [Next]_vars => CardInv'
<1> SUFFICES ASSUME Inv, CardInv, [Next]_vars PROVE CardInv'
  OBVIOUS
<1>1. ASSUME NEW a \in Asks \cup Modes, ScriptSteps(a) PROVE CardInv'
  BY <1>1, PlainCards, QueueCardCards, ClaimCardCards, GoIdleCards DEF ScriptSteps
<1>2. ASSUME NEW n \in Asks, PromptSteps(n) \/ Ask(n) \/ Response(n) \/ Final(n) \/ SendFails(n) \/ ShellLine(n) \/ ShellLongLine(n)
      PROVE  CardInv'
  <2>1. n \in Asks \cup Modes
    OBVIOUS
  <2> QED
    BY <1>2, <2>1, MovesCards, RunToolCards, ResponseCards, PlainCards DEF PromptSteps
<1>3. ASSUME NEW h \in Modes, NEW m \in {"plan", "act"}, SetMode(h, m) PROVE CardInv'
  BY <1>3, SetModeCards
<1>4. ASSUME \/ AskBusy \/ Interrupt \/ InterruptTurn \/ ShellDeadline \/ ShellKill \/ LeaderExits \/ ChildExits
             \/ \E t \in Tabs : LoadPage(t) \/ Subscribe(t) \/ Show(t)
             \/ UNCHANGED vars
      PROVE  CardInv'
  <2>1. UNCHANGED <<script, at, made, work, pending, claims>>
    BY <1>4 DEF AskBusy, Interrupt, InterruptTurn, ShellDeadline, ShellKill, LeaderExits, ChildExits, LoadPage, Subscribe, Show,
         vars, own, core
  <2> QED
    BY <2>1, OutsideCards
<1> QED
  BY <1>1, <1>2, <1>3, <1>4 DEF Next

(* ------------------------ what the tabs show ---------------------------- *)

Pushed == Frames \cup [to : {"busy"}, value : Nat]
Pages == [st : {"none", "loaded", "open", "lost"}, cards : Seq(Noted), busy : BOOLEAN, meter : Nat, todos : Nat,
          mode : {"plan", "act"}, queue : Seq(Pushed)]

(* What is recorded, and the frame that tells of it.                        *)
Records(x) == x.do \in {"note", "todos"} \/ (x.do = "set" /\ x.mark # "out")
Telling(x) == CASE x.do = "note" -> [to |-> "stream", entry |-> x.entry]
                [] x.do = "set" -> Patch(x.id, x.mark)
                [] OTHER -> Header("todos", x.call.id)
Changes(f) == f.to \in {"stream", "meter", "todos"} \/ (f.to = "card" /\ f.mark # "out")
Tells(x) == x.do = "send" /\ Changes(x.frame)
Soft(x) == x.do = "returned" \/ (x.do = "send" /\ x.frame.to \in {"stop", "mode"})

\* What is recorded is told next, and nothing else is told (but the meter).
Sound(s) ==
    \A i \in 1..Len(s) :
        /\ Records(s[i]) => i < Len(s) /\ s[i + 1] = SendStep(Telling(s[i]))
        /\ i > 1 /\ Tells(s[i]) => Records(s[i - 1])
        /\ s[i].do = "send" => s[i].frame.to # "mode"
Fresh(s) == s # <<>> => ~Tells(s[1])

\* Once it was idle a goroutine has no more to record.
Closes(s) == \E k \in 1..Len(s) : s[k].do = "idle" /\ \A i \in k + 1..Len(s) : Soft(s[i])
Ends(s) == Closes(s) \/ \A i \in 1..Len(s) : Soft(s[i])
Changing(s) == s = <<>> \/ s = <<Do("returned")>> \/ \E m \in {"plan", "act"} : s = <<SendStep(Header("mode", m)), Do("returned")>>

Voices ==
    /\ \A n \in Asks : Sound(script[n]) /\ (at[n] \notin {"asked"} \cup Holding => Ends(script[n]))
    /\ \A h \in Modes : Changing(script[h])
Modal ==
    ~crossed => /\ \A g, h \in Modes : Doing(g, "send") /\ Doing(h, "send") => g = h
                /\ \A h \in Modes : Doing(h, "send") => Head(script[h]).frame.value = mode

\* What a page shows when it has all that was sent.
Bare(p) == [st |-> "open", cards |-> p.cards, busy |-> p.busy, meter |-> p.meter, todos |-> p.todos, mode |-> p.mode, queue |-> <<>>]
Same(p) == Common(p.cards) = Common(entries) /\ p.meter = turns /\ p.todos = todos
Untold(n) == script[n] # <<>> /\ Tells(Head(script[n]))
Fits(p) ==
    /\ \A n \in Asks : Untold(n) => Same(Shown(p, Head(script[n]).frame))
    /\ (\A n \in Asks : ~Untold(n)) => Same(p)
    /\ ~crossed /\ (\A h \in Modes : ~Doing(h, "send")) => p.mode = mode
Follows(p) ==
    p.st \in {"loaded", "open"} =>
        \E f \in [0..Len(p.queue) -> Pages] :
            /\ f[0] = Bare(p) /\ \A i \in 1..Len(p.queue) : f[i] = Shown(f[i - 1], p.queue[i])
            /\ Fits(f[Len(p.queue)])
Paged == entries \in Seq(Noted) /\ todos \in Nat /\ crossed \in BOOLEAN /\ tabs \in [Tabs -> Pages]
LiveInv == Paged /\ Voices /\ Modal /\ \A t \in Tabs : Follows(tabs[t])

(* --------------------------------- cards -------------------------------- *)

LEMMA BlandNote ==
    ASSUME NEW e \in Noted
    PROVE  [e EXCEPT !.marks = @ \ {"out", "refused"}] = [kind |-> e.kind, id |-> e.id, marks |-> e.marks \ {"out", "refused"}]
BY DEF Noted

LEMMA Muted ==
    ASSUME NEW c \in Seq(Noted), NEW d \in Seq(Noted)
    PROVE  Common(c) = Common(d) <=>
               /\ Len(c) = Len(d)
               /\ \A i \in 1..Len(c) : /\ c[i].kind = d[i].kind /\ c[i].id = d[i].id
                                       /\ c[i].marks \ {"out", "refused"} = d[i].marks \ {"out", "refused"}
<1> DEFINE Bland(e) == [e EXCEPT !.marks = @ \ {"out", "refused"}]
<1>1. \A e \in Noted : Bland(e) = [kind |-> e.kind, id |-> e.id, marks |-> e.marks \ {"out", "refused"}]
  BY BlandNote
<1>2. ASSUME NEW e \in Noted, NEW g \in Noted
      PROVE  Bland(e) = Bland(g) <=> e.kind = g.kind /\ e.id = g.id /\ e.marks \ {"out", "refused"} = g.marks \ {"out", "refused"}
  <2>1. /\ Bland(e).kind = e.kind /\ Bland(e).id = e.id /\ Bland(e).marks = e.marks \ {"out", "refused"}
        /\ Bland(g).kind = g.kind /\ Bland(g).id = g.id /\ Bland(g).marks = g.marks \ {"out", "refused"}
    BY <1>1
  <2>2. Bland(e) = [kind |-> e.kind, id |-> e.id, marks |-> e.marks \ {"out", "refused"}] /\ Bland(g) = [kind |-> g.kind, id |-> g.id, marks |-> g.marks \ {"out", "refused"}]
    BY <1>1
  <2> HIDE DEF Bland
  <2> QED
    BY <2>1, <2>2
<1> HIDE DEF Bland
<1>3. Common(c) = [i \in 1..Len(c) |-> Bland(c[i])] /\ Common(d) = [i \in 1..Len(d) |-> Bland(d[i])]
  BY DEF Common, Bland
<1>4. Len(c) \in Nat /\ Len(d) \in Nat /\ \A i \in 1..Len(c) : c[i] \in Noted /\ \A j \in 1..Len(d) : d[j] \in Noted
  BY ElementOfSeq, LenProperties
<1>5. ASSUME Common(c) = Common(d)
      PROVE  /\ Len(c) = Len(d)
             /\ \A i \in 1..Len(c) : /\ c[i].kind = d[i].kind /\ c[i].id = d[i].id
                                     /\ c[i].marks \ {"out", "refused"} = d[i].marks \ {"out", "refused"}
  <2>1. 1..Len(c) = 1..Len(d)
    BY <1>3, <1>5
  <2>2. Len(c) = Len(d)
    BY <2>1, <1>4
  <2>3. ASSUME NEW i \in 1..Len(c) PROVE Bland(c[i]) = Bland(d[i])
    BY <1>3, <1>5, <2>1
  <2> QED
    BY <2>2, <2>3, <1>2, ElementOfSeq
<1>6. ASSUME Len(c) = Len(d),
             \A i \in 1..Len(c) : /\ c[i].kind = d[i].kind /\ c[i].id = d[i].id
                                  /\ c[i].marks \ {"out", "refused"} = d[i].marks \ {"out", "refused"}
      PROVE  Common(c) = Common(d)
  <2>1. ASSUME NEW i \in 1..Len(c) PROVE Bland(c[i]) = Bland(d[i])
    BY <1>6, <1>2, ElementOfSeq
  <2> QED
    BY <2>1, <1>3, <1>6
<1> QED
  BY <1>5, <1>6

\* x is c with its cards of that id patched.
IsPatch(x, c, id, mark) ==
    /\ x \in Seq(Noted) /\ Len(x) = Len(c)
    /\ \A i \in 1..Len(c) : /\ x[i].kind = c[i].kind /\ x[i].id = c[i].id
                            /\ x[i].marks = IF c[i].id = id THEN c[i].marks \cup {mark} ELSE c[i].marks

LEMMA Patching ==
    ASSUME NEW c \in Seq(Noted), NEW id \in Nat, NEW mark \in Marks
    PROVE  IsPatch(Patched(c, id, mark), c, id, mark)
<1> DEFINE Marked(e) == IF e.id = id THEN [e EXCEPT !.marks = @ \cup {mark}] ELSE e
<1>1. ASSUME NEW e \in Noted
      PROVE  /\ Marked(e) \in Noted /\ Marked(e).kind = e.kind /\ Marked(e).id = e.id
             /\ Marked(e).marks = IF e.id = id THEN e.marks \cup {mark} ELSE e.marks
  BY DEF Noted
<1> HIDE DEF Marked
<1>2. PICK x : x = Patched(c, id, mark)
  OBVIOUS
<1>3. x = [i \in 1..Len(c) |-> Marked(c[i])] /\ Len(c) \in Nat
  BY <1>2 DEF Patched, Marked
<1>4. \A i \in 1..Len(c) : c[i] \in Noted /\ Marked(c[i]) \in Noted
  BY <1>1, ElementOfSeq
<1>5. x \in Seq(Noted) /\ Len(x) = Len(c)
  BY <1>3, <1>4
<1>6. ASSUME NEW i \in 1..Len(c)
      PROVE  /\ x[i].kind = c[i].kind /\ x[i].id = c[i].id
             /\ x[i].marks = IF c[i].id = id THEN c[i].marks \cup {mark} ELSE c[i].marks
  <2>1. x[i] = Marked(c[i]) /\ c[i] \in Noted
    BY <1>3, <1>4
  <2> QED
    BY <2>1, <1>1
<1> QED
  BY <1>2, <1>5, <1>6 DEF IsPatch

LEMMA Quieted ==
    ASSUME NEW c \in Seq(Noted), NEW d \in Seq(Noted), Common(c) = Common(d)
    PROVE  /\ \A e \in Noted : Common(Append(c, e)) = Common(Append(d, e))
           /\ \A id \in Nat, mark \in Marks : Common(Patched(c, id, mark)) = Common(Patched(d, id, mark))
           /\ \A id \in Nat : Common(Patched(c, id, "out")) = Common(d)
<1>1. /\ Len(c) = Len(d) /\ Len(c) \in Nat
      /\ \A i \in 1..Len(c) : c[i].kind = d[i].kind /\ c[i].id = d[i].id /\ c[i].marks \ {"out", "refused"} = d[i].marks \ {"out", "refused"}
  BY Muted
<1>2. ASSUME NEW e \in Noted PROVE Common(Append(c, e)) = Common(Append(d, e))
  <2> DEFINE x == Append(c, e)
             y == Append(d, e)
  <2>1. x \in Seq(Noted) /\ y \in Seq(Noted) /\ Len(x) = Len(y) /\ Len(x) = Len(c) + 1
    BY <1>1
  <2>2. \A i \in 1..Len(x) : (i <= Len(c) /\ x[i] = c[i] /\ y[i] = d[i]) \/ (x[i] = e /\ y[i] = e)
    BY <1>1
  <2>3. \A i \in 1..Len(x) : x[i].kind = y[i].kind /\ x[i].id = y[i].id /\ x[i].marks \ {"out", "refused"} = y[i].marks \ {"out", "refused"}
    BY <1>1, <2>1, <2>2
  <2> HIDE DEF x, y
  <2>4. Common(x) = Common(y)
    BY <2>1, <2>3, Muted
  <2> QED
    BY <2>4 DEF x, y
<1>3. ASSUME NEW id \in Nat, NEW mark \in Marks PROVE Common(Patched(c, id, mark)) = Common(Patched(d, id, mark))
  <2>1. PICK x : x = Patched(c, id, mark)
    OBVIOUS
  <2>2. PICK y : y = Patched(d, id, mark)
    OBVIOUS
  <2>3. IsPatch(x, c, id, mark) /\ IsPatch(y, d, id, mark)
    BY <2>1, <2>2, Patching
  <2>4. x \in Seq(Noted) /\ y \in Seq(Noted) /\ Len(x) = Len(y) /\ Len(x) = Len(c)
    BY <2>3, <1>1 DEF IsPatch
  <2>5. ASSUME NEW i \in 1..Len(x) PROVE x[i].kind = y[i].kind /\ x[i].id = y[i].id /\ x[i].marks \ {"out", "refused"} = y[i].marks \ {"out", "refused"}
    <3>1. i \in 1..Len(c) /\ i \in 1..Len(d)
      BY <2>4, <1>1
    <3> QED
      BY <3>1, <2>3, <1>1 DEF IsPatch
  <2>6. Common(x) = Common(y)
    BY <2>4, <2>5, Muted
  <2> QED
    BY <2>1, <2>2, <2>6
<1>4. ASSUME NEW id \in Nat PROVE Common(Patched(c, id, "out")) = Common(d)
  <2>1. PICK x : x = Patched(c, id, "out")
    OBVIOUS
  <2>2. IsPatch(x, c, id, "out")
    BY <2>1, Patching DEF Marks
  <2>3. x \in Seq(Noted) /\ Len(x) = Len(d) /\ Len(x) = Len(c)
    BY <2>2, <1>1 DEF IsPatch
  <2>4. ASSUME NEW i \in 1..Len(x) PROVE x[i].kind = d[i].kind /\ x[i].id = d[i].id /\ x[i].marks \ {"out", "refused"} = d[i].marks \ {"out", "refused"}
    <3>1. i \in 1..Len(c)
      BY <2>3
    <3> QED
      BY <3>1, <2>2, <1>1 DEF IsPatch
  <2>5. Common(x) = Common(d)
    BY <2>3, <2>4, Muted
  <2> QED
    BY <2>1, <2>5
<1> QED
  BY <1>2, <1>3, <1>4

\* A replay draws the same cards, but for the look of those that were refused.
LEMMA Renders == ASSUME NEW c \in Seq(Noted) PROVE Rendered(c) \in Seq(Noted) /\ Common(Rendered(c)) = Common(c)
<1> DEFINE Drawn(e) == IF "deny" \in e.marks THEN [e EXCEPT !.marks = @ \cup {"refused"}] ELSE e
<1>1. ASSUME NEW e \in Noted
      PROVE  /\ Drawn(e) \in Noted /\ Drawn(e).kind = e.kind /\ Drawn(e).id = e.id
             /\ Drawn(e).marks \ {"out", "refused"} = e.marks \ {"out", "refused"}
  <2>1. CASE "deny" \in e.marks
    <3>1. Drawn(e) = [kind |-> e.kind, id |-> e.id, marks |-> e.marks \cup {"refused"}]
      BY <2>1 DEF Noted
    <3>2. e.marks \cup {"refused"} \in SUBSET Marks
      BY DEF Noted, Marks
    <3> QED
      BY <3>1, <3>2 DEF Noted
  <2>2. CASE "deny" \notin e.marks
    BY <2>2
  <2> QED
    BY <2>1, <2>2
<1> HIDE DEF Drawn
<1>2. PICK x : x = Rendered(c)
  OBVIOUS
<1>3. x = [i \in 1..Len(c) |-> Drawn(c[i])] /\ Len(c) \in Nat
  BY <1>2 DEF Rendered, Drawn
<1>4. \A i \in 1..Len(c) : c[i] \in Noted /\ Drawn(c[i]) \in Noted
  BY <1>1, ElementOfSeq
<1>5. x \in Seq(Noted) /\ Len(x) = Len(c)
  BY <1>3, <1>4
<1>6. ASSUME NEW i \in 1..Len(x)
      PROVE  x[i].kind = c[i].kind /\ x[i].id = c[i].id /\ x[i].marks \ {"out", "refused"} = c[i].marks \ {"out", "refused"}
  <2>1. x[i] = Drawn(c[i]) /\ c[i] \in Noted
    BY <1>3, <1>4, <1>5
  <2> QED
    BY <2>1, <1>1
<1> QED
  BY <1>2, <1>5, <1>6, Muted

(* --------------------------------- pages -------------------------------- *)

LEMMA Pushes ==
    ASSUME NEW f \in Pushed
    PROVE  /\ f.to \in {"stream", "card", "meter", "todos", "mode", "stop", "busy"}
           /\ f.to = "stream" => f.entry \in Noted
           /\ f.to = "card" => f.id \in Nat /\ f.mark \in Marks
           /\ f.to \in {"meter", "todos"} => f.value \in Nat
           /\ f.to = "mode" => f.value \in {"plan", "act"}
BY DEF Pushed, Frames

LEMMA Shows ==
    ASSUME NEW p \in Pages, NEW f \in Pushed
    PROVE  /\ Shown(p, f) \in Pages
           /\ Shown(p, f).cards = IF f.to = "stream" THEN Append(p.cards, f.entry)
                                  ELSE IF f.to = "card" THEN Patched(p.cards, f.id, f.mark) ELSE p.cards
           /\ Shown(p, f).meter = IF f.to = "meter" THEN f.value ELSE p.meter
           /\ Shown(p, f).todos = IF f.to = "todos" THEN f.value ELSE p.todos
           /\ Shown(p, f).mode = IF f.to = "mode" THEN f.value ELSE p.mode
           /\ Shown(p, f).st = p.st /\ Shown(p, f).queue = p.queue
<1>1. /\ p.cards \in Seq(Noted) /\ p.st \in {"none", "loaded", "open", "lost"} /\ p.busy \in BOOLEAN /\ p.meter \in Nat /\ p.todos \in Nat
      /\ p.mode \in {"plan", "act"} /\ p.queue \in Seq(Pushed)
      /\ p = [st |-> p.st, cards |-> p.cards, busy |-> p.busy, meter |-> p.meter, todos |-> p.todos, mode |-> p.mode, queue |-> p.queue]
  BY DEF Pages
<1>2. CASE f.to = "stream"
  <2>1. Append(p.cards, f.entry) \in Seq(Noted)
    BY <1>1, <1>2, Pushes
  <2>2. Shown(p, f) = [p EXCEPT !.cards = Append(p.cards, f.entry)]
    BY <1>2 DEF Shown
  <2>3. Shown(p, f) = [st |-> p.st, cards |-> Append(p.cards, f.entry), busy |-> p.busy, meter |-> p.meter, todos |-> p.todos, mode |-> p.mode, queue |-> p.queue]
    BY <2>2, <1>1
  <2> QED
    BY <2>1, <2>3, <1>1, <1>2 DEF Pages
<1>3. CASE f.to = "card"
  <2>1. PICK c : c = Patched(p.cards, f.id, f.mark)
    OBVIOUS
  <2>2. c \in Seq(Noted)
    BY <2>1, <1>1, <1>3, Pushes, Patching DEF IsPatch
  <2>3. Shown(p, f) = [p EXCEPT !.cards = c]
    <3>1. Shown(p, f) = [p EXCEPT !.cards = Patched(p.cards, f.id, f.mark)]
      BY <1>3 DEF Shown
    <3> QED
      BY <2>1, <3>1
  <2>4. Shown(p, f) = [st |-> p.st, cards |-> c, busy |-> p.busy, meter |-> p.meter, todos |-> p.todos, mode |-> p.mode, queue |-> p.queue]
    BY <2>3, <1>1
  <2> QED
    BY <2>1, <2>2, <2>4, <1>1, <1>3 DEF Pages
<1>4. CASE f.to = "meter"
  <2>1. Shown(p, f) = [st |-> p.st, cards |-> p.cards, busy |-> p.busy, meter |-> f.value, todos |-> p.todos, mode |-> p.mode, queue |-> p.queue]
    BY <1>1, <1>4 DEF Shown
  <2> QED
    BY <2>1, <1>1, <1>4, Pushes DEF Pages
<1>5. CASE f.to = "todos"
  <2>1. Shown(p, f) = [st |-> p.st, cards |-> p.cards, busy |-> p.busy, meter |-> p.meter, todos |-> f.value, mode |-> p.mode, queue |-> p.queue]
    BY <1>1, <1>5 DEF Shown
  <2> QED
    BY <2>1, <1>1, <1>5, Pushes DEF Pages
<1>6. CASE f.to = "mode"
  <2>1. Shown(p, f) = [st |-> p.st, cards |-> p.cards, busy |-> p.busy, meter |-> p.meter, todos |-> p.todos, mode |-> f.value, queue |-> p.queue]
    BY <1>1, <1>6 DEF Shown
  <2> QED
    BY <2>1, <1>1, <1>6, Pushes DEF Pages
<1>7. CASE f.to = "stop"
  BY <1>7 DEF Shown
<1>8. CASE f.to = "busy"
  <2>1. Shown(p, f) = [st |-> p.st, cards |-> p.cards, busy |-> TRUE, meter |-> p.meter, todos |-> p.todos, mode |-> p.mode, queue |-> p.queue]
    BY <1>1, <1>8 DEF Shown
  <2> QED
    BY <2>1, <1>1, <1>8 DEF Pages
<1> QED
  BY <1>2, <1>3, <1>4, <1>5, <1>6, <1>7, <1>8, Pushes

LEMMA ShowsBusy ==
    ASSUME NEW p \in Pages, NEW q \in Pages, NEW f \in Pushed, p.busy = q.busy
    PROVE  Shown(p, f).busy = Shown(q, f).busy
<1>1. ASSUME NEW r \in Pages, f.to # "busy" PROVE Shown(r, f).busy = r.busy
  <2>1. CASE f.to = "stream"
    BY <2>1 DEF Shown, Pages
  <2>2. CASE f.to = "card"
    BY <2>2 DEF Shown, Pages
  <2>3. CASE f.to \in {"meter", "todos", "mode", "stop"}
    BY <2>3 DEF Shown, Pages
  <2> QED
    BY <1>1, <2>1, <2>2, <2>3, Pushes
<1>2. ASSUME NEW r \in Pages, f.to = "busy" PROVE Shown(r, f).busy = TRUE
  BY <1>2 DEF Shown, Pages
<1> QED
  BY <1>1, <1>2

LEMMA PageFields ==
    ASSUME NEW r \in Pages, NEW q
    PROVE  /\ [r EXCEPT !.queue = q] = [st |-> r.st, cards |-> r.cards, busy |-> r.busy, meter |-> r.meter, todos |-> r.todos, mode |-> r.mode, queue |-> q]
           /\ [r EXCEPT !.st = q] = [st |-> q, cards |-> r.cards, busy |-> r.busy, meter |-> r.meter, todos |-> r.todos, mode |-> r.mode, queue |-> r.queue]
BY DEF Pages

LEMMA Bared ==
    ASSUME NEW p \in Pages
    PROVE  /\ Bare(p) \in Pages /\ Bare(p).cards = p.cards /\ Bare(p).meter = p.meter /\ Bare(p).todos = p.todos
           /\ Bare(p).mode = p.mode
           /\ \A f \in Pushed : \A q : Bare([Shown(p, f) EXCEPT !.queue = q]) = Shown(Bare(p), f)
           /\ \A q : Bare([p EXCEPT !.queue = q]) = Bare(p) /\ \A s : Bare([p EXCEPT !.st = s]) = Bare(p)
<1>1. /\ p.cards \in Seq(Noted) /\ p.busy \in BOOLEAN /\ p.meter \in Nat /\ p.todos \in Nat /\ p.mode \in {"plan", "act"}
      /\ p = [st |-> p.st, cards |-> p.cards, busy |-> p.busy, meter |-> p.meter, todos |-> p.todos, mode |-> p.mode, queue |-> p.queue]
  BY DEF Pages
<1>2. ASSUME NEW r \in Pages
      PROVE  Bare(r) = [st |-> "open", cards |-> r.cards, busy |-> r.busy, meter |-> r.meter, todos |-> r.todos, mode |-> r.mode, queue |-> <<>>]
  BY DEF Bare
<1>7. ASSUME NEW r \in Pages, NEW q
      PROVE  Bare([r EXCEPT !.queue = q]) = Bare(r) /\ Bare([r EXCEPT !.st = q]) = Bare(r)
  BY PageFields DEF Bare
<1>3. <<>> \in Seq(Pushed)
  OBVIOUS
<1>4. Bare(p) \in Pages
  <2>1. PICK b : b = Bare(p)
    OBVIOUS
  <2>2. b = [st |-> "open", cards |-> p.cards, busy |-> p.busy, meter |-> p.meter, todos |-> p.todos, mode |-> p.mode, queue |-> <<>>]
    BY <2>1, <1>2
  <2>3. b \in Pages
    BY <2>2, <1>1, <1>3 DEF Pages
  <2> QED
    BY <2>1, <2>3
<1>5. ASSUME NEW f \in Pushed, NEW q PROVE Bare([Shown(p, f) EXCEPT !.queue = q]) = Shown(Bare(p), f)
  <2>1. PICK r : r = Shown(p, f)
    OBVIOUS
  <2>2. PICK b : b = Shown(Bare(p), f)
    OBVIOUS
  <2>3. r \in Pages /\ b \in Pages
    BY <2>1, <2>2, <1>4, Shows
  <2>8. PICK w : w = Bare(p)
    OBVIOUS
  <2>9. w \in Pages /\ b = Shown(w, f)
    BY <2>2, <2>8, <1>4
  <2>10. w.cards = p.cards /\ w.busy = p.busy /\ w.meter = p.meter /\ w.todos = p.todos /\ w.mode = p.mode /\ w.st = "open" /\ w.queue = <<>>
    BY <2>8, <1>2
  <2>4. b.cards = r.cards /\ b.busy = r.busy /\ b.meter = r.meter /\ b.todos = r.todos /\ b.mode = r.mode
    BY <2>1, <2>9, <2>10, Shows, ShowsBusy
  <2>5. b.st = "open" /\ b.queue = <<>>
    BY <2>9, <2>10, Shows
  <2>6. b = [st |-> "open", cards |-> r.cards, busy |-> r.busy, meter |-> r.meter, todos |-> r.todos, mode |-> r.mode, queue |-> <<>>]
    BY <2>3, <2>4, <2>5 DEF Pages
  <2>7. Bare([r EXCEPT !.queue = q]) = [st |-> "open", cards |-> r.cards, busy |-> r.busy, meter |-> r.meter, todos |-> r.todos, mode |-> r.mode, queue |-> <<>>]
    BY <2>3, <1>2, <1>7
  <2> QED
    BY <2>1, <2>2, <2>6, <2>7
<1>6. Bare(p).cards = p.cards /\ Bare(p).meter = p.meter /\ Bare(p).todos = p.todos /\ Bare(p).mode = p.mode
  BY <1>2
<1> QED
  BY <1>4, <1>5, <1>6, <1>7

\* Two pages that differ in what is not compared, and in the mode, only.
Alike(p, q) == Common(p.cards) = Common(q.cards) /\ p.meter = q.meter /\ p.todos = q.todos

LEMMA ShowsAlike ==
    ASSUME NEW p \in Pages, NEW q \in Pages, NEW f \in Pushed
    PROVE  /\ Alike(p, q) => Alike(Shown(p, f), Shown(q, f))
           /\ ~Changes(f) => Alike(Shown(p, f), p)
<1>1. p.cards \in Seq(Noted) /\ q.cards \in Seq(Noted)
  BY DEF Pages
<1>2. PICK x : x = Shown(p, f)
  OBVIOUS
<1>3. PICK y : y = Shown(q, f)
  OBVIOUS
<1>4. ASSUME Alike(p, q) PROVE Alike(x, y)
  <2>1. Common(p.cards) = Common(q.cards) /\ p.meter = q.meter /\ p.todos = q.todos
    BY <1>4 DEF Alike
  <2>2. x.meter = y.meter /\ x.todos = y.todos
    BY <1>2, <1>3, <2>1, Shows
  <2>3. Common(x.cards) = Common(y.cards)
    <3>1. CASE f.to = "stream"
      <4>1. x.cards = Append(p.cards, f.entry) /\ y.cards = Append(q.cards, f.entry)
        BY <3>1, <1>2, <1>3, Shows
      <4> QED
        BY <4>1, <3>1, <2>1, <1>1, Quieted, Pushes
    <3>2. CASE f.to = "card"
      <4>1. x.cards = Patched(p.cards, f.id, f.mark) /\ y.cards = Patched(q.cards, f.id, f.mark)
        BY <3>2, <1>2, <1>3, Shows
      <4> QED
        BY <4>1, <3>2, <2>1, <1>1, Quieted, Pushes
    <3>3. CASE f.to \notin {"stream", "card"}
      BY <3>3, <2>1, <1>2, <1>3, Shows
    <3> QED
      BY <3>1, <3>2, <3>3
  <2> QED
    BY <2>2, <2>3 DEF Alike
<1>5. ASSUME ~Changes(f) PROVE Alike(x, p)
  <2>1. f.to \notin {"stream", "meter", "todos"} /\ (f.to = "card" => f.mark = "out")
    BY <1>5 DEF Changes
  <2>2. x.meter = p.meter /\ x.todos = p.todos
    BY <1>2, <2>1, Shows
  <2>3. Common(x.cards) = Common(p.cards)
    <3>1. CASE f.to = "card"
      <4>1. x.cards = Patched(p.cards, f.id, "out") /\ f.id \in Nat
        BY <3>1, <2>1, <1>2, Shows, Pushes
      <4> QED
        BY <4>1, <1>1, Quieted
    <3>2. CASE f.to # "card"
      BY <3>2, <2>1, <1>2, Shows
    <3> QED
      BY <3>1, <3>2
  <2> QED
    BY <2>2, <2>3 DEF Alike
<1> QED
  BY <1>2, <1>3, <1>4, <1>5

(* -------------------------------- telling ------------------------------- *)

LEMMA Contents ==
    ASSUME NEW s \in Steps
    PROVE  /\ s.do = "note" => s.entry \in Noted
           /\ s.do = "send" => s.frame \in Frames
           /\ s.do = "set" => s.id \in Nat /\ s.mark \in Marks
           /\ s.do = "todos" => s.call.id \in Nat
<1>1. s.do = "note" => s \in [do : {"note"}, entry : Noted]
  BY KindsApart DEF Calm, Saying
<1>2. s.do = "send" => s \in [do : {"send"}, frame : Frames]
  BY KindsApart DEF Calm, Saying
<1>3. s.do = "set" => s \in [do : {"set"}, id : Nat, mark : Marks]
  BY KindsApart DEF Calm, Saying
<1>4. s.do = "todos" => s.call.id \in Nat
  BY Fields DEF Called
<1> QED
  BY <1>1, <1>2, <1>3, <1>4

\* What tells of what was recorded.
LEMMA Tellings ==
    ASSUME NEW x \in Steps, Records(x)
    PROVE  /\ Telling(x) \in Frames /\ Changes(Telling(x)) /\ Telling(x).to # "mode"
           /\ Tells(SendStep(Telling(x))) /\ SendStep(Telling(x)).do = "send" /\ SendStep(Telling(x)).frame = Telling(x)
           /\ SendStep(Telling(x)) \in Steps
           /\ ~Records(SendStep(Telling(x))) /\ ~Tells(x) /\ ~Soft(x) /\ x.do \notin {"send", "idle"}
<1>1. x.do \in {"note", "set", "todos"} /\ (x.do = "set" => x.mark # "out")
  BY DEF Records
<1>2. Telling(x) \in Frames /\ Changes(Telling(x)) /\ Telling(x).to # "mode"
  <2>1. CASE x.do = "note"
    <3>1. Telling(x) = [to |-> "stream", entry |-> x.entry] /\ x.entry \in Noted
      BY <2>1, Contents DEF Telling
    <3> QED
      BY <3>1 DEF Frames, Changes
  <2>2. CASE x.do = "set"
    <3>1. Telling(x) = [to |-> "card", id |-> x.id, mark |-> x.mark] /\ x.id \in Nat /\ x.mark \in Marks /\ x.mark # "out"
      BY <1>1, <2>2, Contents DEF Telling, Patch
    <3> QED
      BY <3>1 DEF Frames, Changes
  <2>3. CASE x.do = "todos"
    <3>1. Telling(x) = [to |-> "todos", value |-> x.call.id] /\ x.call.id \in Nat
      BY <2>3, Contents DEF Telling, Header
    <3> QED
      BY <3>1 DEF Frames, Changes
  <2> QED
    BY <1>1, <2>1, <2>2, <2>3
<1>3. PICK f : f = Telling(x)
  OBVIOUS
<1>4. SendStep(f) = [do |-> "send", frame |-> f]
  BY DEF SendStep
<1>5. SendStep(f) \in Steps
  BY <1>2, <1>3, <1>4 DEF Steps, Calm, Saying
<1>6. SendStep(f).do = "send" /\ SendStep(f).frame = f
  BY <1>4
<1>7. ~Records(SendStep(f)) /\ Tells(SendStep(f))
  BY <1>2, <1>3, <1>6 DEF Records, Tells
<1>8. ~Tells(x) /\ ~Soft(x) /\ x.do \notin {"send", "idle"}
  BY <1>1 DEF Tells, Soft
<1> QED
  BY <1>2, <1>3, <1>5, <1>6, <1>7, <1>8

\* What is left when the first step of a script is done.
LEMMA TailSound ==
    ASSUME NEW s \in Seq(Steps), s # <<>>
    PROVE  /\ Sound(s) => Sound(Tail(s))
           /\ Sound(s) /\ ~Records(Head(s)) => Fresh(Tail(s))
           /\ Sound(s) /\ Records(Head(s)) => Tail(s) # <<>> /\ Head(Tail(s)) = SendStep(Telling(Head(s)))
           /\ Ends(s) => Ends(Tail(s))
           /\ Ends(s) /\ ~Soft(Head(s)) /\ Head(s).do # "idle" => Closes(Tail(s))
<1>1. PICK u : u = Tail(s)
  OBVIOUS
<1>2. /\ Len(s) \in Nat \ {0} /\ Head(s) = s[1] /\ u \in Seq(Steps) /\ Len(u) = Len(s) - 1
      /\ \A i \in 1..Len(u) : u[i] = s[i + 1] /\ i + 1 \in 2..Len(s)
  BY <1>1, HeadTailProperties, EmptySeq
<1>3. ASSUME Sound(s) PROVE Sound(u)
  <2>1. ASSUME NEW i \in 1..Len(u)
        PROVE  /\ Records(u[i]) => i < Len(u) /\ u[i + 1] = SendStep(Telling(u[i]))
               /\ i > 1 /\ Tells(u[i]) => Records(u[i - 1])
               /\ u[i].do = "send" => u[i].frame.to # "mode"
    <3>1. i + 1 \in 1..Len(s) /\ u[i] = s[i + 1] /\ (i + 1) - 1 = i
      BY <1>2
    <3>2. /\ Records(s[i + 1]) => i + 1 < Len(s) /\ s[(i + 1) + 1] = SendStep(Telling(s[i + 1]))
          /\ i + 1 > 1 /\ Tells(s[i + 1]) => Records(s[(i + 1) - 1])
          /\ s[i + 1].do = "send" => s[i + 1].frame.to # "mode"
      BY <3>1, <1>3 DEF Sound
    <3>3. i + 1 < Len(s) => i < Len(u) /\ i + 1 \in 1..Len(u) /\ u[i + 1] = s[(i + 1) + 1]
      BY <1>2
    <3>4. i > 1 => i - 1 \in 1..Len(u) /\ u[i - 1] = s[(i + 1) - 1]
      <4>1. ASSUME i > 1 PROVE i - 1 \in 1..Len(u) /\ (i - 1) + 1 = (i + 1) - 1
        BY <4>1, <1>2
      <4> QED
        BY <4>1, <1>2
    <3> QED
      BY <3>1, <3>2, <3>3, <3>4
  <2> QED
    BY <2>1 DEF Sound
<1>4. ASSUME Sound(s), ~Records(Head(s)) PROVE Fresh(u)
  <2>1. SUFFICES ASSUME u # <<>>, Tells(u[1]) PROVE FALSE
    BY DEF Fresh
  <2>2. 1 \in 1..Len(u) /\ u[1] = s[2] /\ 2 \in 1..Len(s)
    <3>1. Len(u) # 0
      BY <1>2, <2>1, EmptySeq
    <3>2. 1 \in 1..Len(u) /\ 1 + 1 = 2
      BY <3>1, <1>2
    <3> QED
      BY <3>2, <1>2
  <2>3. Records(s[2 - 1])
    BY <2>1, <2>2, <1>4 DEF Sound
  <2> QED
    BY <2>3, <1>2, <1>4
<1>5. ASSUME Sound(s), Records(Head(s)) PROVE u # <<>> /\ Head(u) = SendStep(Telling(Head(s)))
  <2>1. 1 \in 1..Len(s)
    BY <1>2
  <2>2. 1 < Len(s) /\ s[1 + 1] = SendStep(Telling(s[1]))
    BY <2>1, <1>2, <1>5 DEF Sound
  <2>3. 1 \in 1..Len(u) /\ u # <<>> /\ Head(u) = u[1]
    BY <2>2, <1>2, EmptySeq
  <2> QED
    BY <2>2, <2>3, <1>2
<1>6. ASSUME Closes(s), Head(s).do # "idle" PROVE Closes(u)
  <2>1. PICK k \in 1..Len(s) : s[k].do = "idle" /\ \A i \in k + 1..Len(s) : Soft(s[i])
    BY <1>6 DEF Closes
  <2>2. k # 1
    BY <2>1, <1>2, <1>6
  <2>3. k - 1 \in 1..Len(u) /\ (k - 1) + 1 = k
    BY <2>1, <2>2, <1>2
  <2>4. u[k - 1].do = "idle"
    BY <2>1, <2>3, <1>2
  <2>5. ASSUME NEW i \in (k - 1) + 1..Len(u) PROVE Soft(u[i])
    <3>1. i \in 1..Len(u) /\ i + 1 \in k + 1..Len(s)
      BY <2>3, <1>2
    <3> QED
      BY <3>1, <2>1, <1>2
  <2> QED
    BY <2>3, <2>4, <2>5 DEF Closes
<1>7. ASSUME Closes(s), Head(s).do = "idle" PROVE Ends(u)
  <2>1. PICK k \in 1..Len(s) : s[k].do = "idle" /\ \A i \in k + 1..Len(s) : Soft(s[i])
    BY <1>7 DEF Closes
  <2>2. CASE k = 1
    <3>1. \A i \in 1..Len(u) : Soft(u[i])
      BY <2>1, <2>2, <1>2
    <3> QED
      BY <3>1 DEF Ends
  <2>3. CASE k # 1
    <3>3. k - 1 \in 1..Len(u) /\ (k - 1) + 1 = k
      BY <2>1, <2>3, <1>2
    <3>4. u[k - 1].do = "idle"
      BY <2>1, <3>3, <1>2
    <3>5. ASSUME NEW i \in (k - 1) + 1..Len(u) PROVE Soft(u[i])
      <4>1. i \in 1..Len(u) /\ i + 1 \in k + 1..Len(s)
        BY <3>3, <1>2
      <4> QED
        BY <4>1, <2>1, <1>2
    <3> QED
      BY <3>3, <3>4, <3>5 DEF Closes, Ends
  <2> QED
    BY <2>2, <2>3
<1>8. ASSUME \A i \in 1..Len(s) : Soft(s[i]) PROVE Ends(u) /\ Soft(Head(s))
  <2>1. \A i \in 1..Len(u) : Soft(u[i])
    BY <1>8, <1>2
  <2>2. 1 \in 1..Len(s)
    BY <1>2
  <2> QED
    BY <2>1, <2>2, <1>2, <1>8 DEF Ends
<1> QED
  BY <1>1, <1>3, <1>4, <1>5, <1>6, <1>7, <1>8 DEF Ends

Good(t) == t \in Seq(Steps) /\ Sound(t) /\ Fresh(t)

\* What is done before the rest of a script.
LEMMA JoinSound ==
    ASSUME NEW t \in Seq(Steps), Sound(t), NEW u, Good(u)
    PROVE  /\ t \o u \in Seq(Steps) /\ Sound(t \o u)
           /\ Fresh(t) => Good(t \o u)
           /\ t # <<>> => t \o u # <<>> /\ Head(t \o u) = Head(t)
<1>1. PICK s : s = t \o u
  OBVIOUS
<1>2. u \in Seq(Steps) /\ Sound(u) /\ Fresh(u)
  BY DEF Good
<1>3. /\ s \in Seq(Steps) /\ Len(s) = Len(t) + Len(u) /\ Len(t) \in Nat /\ Len(u) \in Nat
      /\ \A i \in 1..Len(t) + Len(u) : s[i] = IF i <= Len(t) THEN t[i] ELSE u[i - Len(t)]
  BY <1>1, <1>2, ConcatProperties, LenProperties
<1>4. \A i \in 1..Len(t) : i \in 1..Len(s) /\ s[i] = t[i]
  BY <1>3
<1>5. \A i \in 1..Len(s) : i > Len(t) => i - Len(t) \in 1..Len(u) /\ s[i] = u[i - Len(t)]
  BY <1>3
<1>6. ASSUME NEW i \in 1..Len(s)
      PROVE  /\ Records(s[i]) => i < Len(s) /\ s[i + 1] = SendStep(Telling(s[i]))
             /\ i > 1 /\ Tells(s[i]) => Records(s[i - 1])
             /\ s[i].do = "send" => s[i].frame.to # "mode"
  <2>1. CASE i <= Len(t)
    <3>1. i \in 1..Len(t) /\ s[i] = t[i]
      BY <2>1, <1>3, <1>4
    <3>2. /\ Records(t[i]) => i < Len(t) /\ t[i + 1] = SendStep(Telling(t[i]))
          /\ i > 1 /\ Tells(t[i]) => Records(t[i - 1])
          /\ t[i].do = "send" => t[i].frame.to # "mode"
      BY <3>1 DEF Sound
    <3>3. i < Len(t) => i < Len(s) /\ s[i + 1] = t[i + 1]
      <4>1. i < Len(t) => i < Len(s) /\ i + 1 \in 1..Len(t)
        BY <1>3, <3>1
      <4> QED
        BY <4>1, <1>4
    <3>4. i > 1 => s[i - 1] = t[i - 1]
      <4>1. i > 1 => i - 1 \in 1..Len(t)
        BY <1>3, <3>1
      <4> QED
        BY <4>1, <1>4
    <3> QED
      BY <3>1, <3>2, <3>3, <3>4
  <2>2. CASE i > Len(t)
    <3>1. PICK j : j = i - Len(t)
      OBVIOUS
    <3>2. j \in 1..Len(u) /\ s[i] = u[j]
      BY <2>2, <3>1, <1>5
    <3>3. /\ Records(u[j]) => j < Len(u) /\ u[j + 1] = SendStep(Telling(u[j]))
          /\ j > 1 /\ Tells(u[j]) => Records(u[j - 1])
          /\ u[j].do = "send" => u[j].frame.to # "mode"
      BY <3>2, <1>2 DEF Sound
    <3>4. j < Len(u) => i < Len(s) /\ s[i + 1] = u[j + 1]
      <4>1. j < Len(u) => i < Len(s) /\ i + 1 \in 1..Len(s) /\ i + 1 > Len(t) /\ (i + 1) - Len(t) = j + 1
        BY <1>3, <3>1, <3>2
      <4> QED
        BY <4>1, <1>5
    <3>5. j > 1 => s[i - 1] = u[j - 1]
      <4>1. j > 1 => i - 1 \in 1..Len(s) /\ i - 1 > Len(t) /\ (i - 1) - Len(t) = j - 1
        BY <1>3, <3>1, <3>2
      <4> QED
        BY <4>1, <1>5
    <3>6. j = 1 => ~Tells(s[i])
      <4>1. u # <<>>
        BY <3>2, <1>3, EmptySeq
      <4> QED
        BY <4>1, <3>2, <1>2 DEF Fresh
    <3> QED
      BY <3>2, <3>3, <3>4, <3>5, <3>6
  <2> QED
    BY <2>1, <2>2, <1>3
<1>7. Sound(s)
  BY <1>6 DEF Sound
<1>8. ASSUME t # <<>> PROVE s # <<>> /\ Head(s) = Head(t)
  <2>1. Len(t) # 0
    BY <1>8, EmptySeq
  <2>2. 1 \in 1..Len(t) /\ Len(s) # 0
    BY <2>1, <1>3
  <2>3. s # <<>> /\ Head(s) = s[1] /\ Head(t) = t[1]
    BY <2>2, <1>3, <1>8, EmptySeq, HeadTailProperties
  <2> QED
    BY <2>2, <2>3, <1>4
<1>9. ASSUME Fresh(t) PROVE Fresh(s)
  <2>1. CASE t = <<>>
    <3>1. s = u
      BY <1>1, <1>2, <2>1, ConcatEmptySeq
    <3> QED
      BY <3>1, <1>2
  <2>2. CASE t # <<>>
    <3>1. 1 \in 1..Len(t)
      BY <2>2, <1>3, EmptySeq
    <3>2. s[1] = t[1]
      BY <3>1, <1>4
    <3> QED
      BY <3>2, <2>2, <1>9 DEF Fresh
  <2> QED
    BY <2>1, <2>2
<1> QED
  BY <1>1, <1>3, <1>7, <1>8, <1>9 DEF Good

LEMMA JoinCloses ==
    ASSUME NEW t \in Seq(Steps), NEW u \in Seq(Steps), Closes(u)
    PROVE  Closes(t \o u)
<1>1. PICK s : s = t \o u
  OBVIOUS
<1>2. /\ s \in Seq(Steps) /\ Len(s) = Len(t) + Len(u) /\ Len(t) \in Nat /\ Len(u) \in Nat
      /\ \A i \in 1..Len(t) + Len(u) : s[i] = IF i <= Len(t) THEN t[i] ELSE u[i - Len(t)]
  BY <1>1, ConcatProperties, LenProperties
<1>3. \A i \in 1..Len(s) : i > Len(t) => i - Len(t) \in 1..Len(u) /\ s[i] = u[i - Len(t)]
  BY <1>2
<1>4. PICK k \in 1..Len(u) : u[k].do = "idle" /\ \A i \in k + 1..Len(u) : Soft(u[i])
  BY DEF Closes
<1>5. k + Len(t) \in 1..Len(s) /\ k + Len(t) > Len(t) /\ (k + Len(t)) - Len(t) = k
  BY <1>2, <1>4
<1>6. s[k + Len(t)].do = "idle"
  BY <1>3, <1>4, <1>5
<1>7. ASSUME NEW i \in (k + Len(t)) + 1..Len(s) PROVE Soft(s[i])
  <2>1. i \in 1..Len(s) /\ i > Len(t) /\ i - Len(t) \in k + 1..Len(u)
    BY <1>2, <1>4, <1>5
  <2> QED
    BY <2>1, <1>3, <1>4
<1> QED
  BY <1>1, <1>5, <1>6, <1>7 DEF Closes

(* ------------------------------- scripts -------------------------------- *)

LEMMA NoneGood == Good(<<>>)
<1>1. <<>> \in Seq(Steps) /\ Len(<<>>) = 0
  OBVIOUS
<1> QED
  BY <1>1 DEF Good, Sound, Fresh

\* A step that records nothing, alone.
LEMMA OneGood ==
    ASSUME NEW x \in Steps, ~Records(x), x.do = "send" => x.frame.to # "mode"
    PROVE  <<x>> \in Seq(Steps) /\ Sound(<<x>>) /\ <<x>> # <<>> /\ Head(<<x>>) = x /\ (~Tells(x) => Good(<<x>>))
<1>1. <<x>> \in Seq(Steps) /\ Len(<<x>>) = 1 /\ <<x>>[1] = x /\ Head(<<x>>) = x /\ <<x>> # <<>>
  OBVIOUS
<1>2. ASSUME NEW i \in 1..Len(<<x>>)
      PROVE  i = 1
  BY <1>1
<1>3. Sound(<<x>>)
  BY <1>1, <1>2 DEF Sound
<1> QED
  BY <1>1, <1>3 DEF Good, Fresh

LEMMA PairGood ==
    ASSUME NEW x \in Steps, Records(x), NEW y, y = SendStep(Telling(x))
    PROVE  Good(<<x, y>>)
<1>1. /\ y \in Steps /\ ~Records(y) /\ Tells(y) /\ y.do = "send" /\ y.frame.to # "mode"
      /\ ~Tells(x) /\ x.do # "send"
  BY Tellings
<1>2. PICK s : s = <<x, y>>
  OBVIOUS
<1>3. s \in Seq(Steps) /\ Len(s) = 2 /\ s[1] = x /\ s[2] = y /\ s # <<>>
  BY <1>1, <1>2
<1>4. 1..Len(s) = {1, 2}
  BY <1>3
<1>5. ASSUME NEW i \in 1..Len(s)
      PROVE  /\ Records(s[i]) => i < Len(s) /\ s[i + 1] = SendStep(Telling(s[i]))
             /\ i > 1 /\ Tells(s[i]) => Records(s[i - 1])
             /\ s[i].do = "send" => s[i].frame.to # "mode"
  <2>1. CASE i = 1
    BY <2>1, <1>1, <1>3
  <2>2. CASE i = 2
    BY <2>2, <1>1, <1>3
  <2> QED
    BY <2>1, <2>2, <1>4
<1>6. Sound(s)
  BY <1>5 DEF Sound
<1> QED
  BY <1>1, <1>2, <1>3, <1>6 DEF Good, Fresh

LEMMA JoinGood == ASSUME NEW t, NEW u, Good(t), Good(u) PROVE Good(t \o u)
BY JoinSound DEF Good

LEMMA TellGood == ASSUME NEW kind \in Kinds PROVE Good(Tell(kind))
<1>1. Entry(kind, 0) \in Noted
  BY DEF Entry, Noted
<1>2. PICK x : x = NoteStep(kind, 0)
  OBVIOUS
<1>3. x = [do |-> "note", entry |-> Entry(kind, 0)]
  BY <1>2 DEF NoteStep
<1>4. x \in Steps
  BY <1>1, <1>3 DEF Steps, Calm, Saying
<1>5. Records(x) /\ Telling(x) = Fragment(kind, 0)
  BY <1>3 DEF Records, Telling, Fragment
<1>6. Good(<<x, SendStep(Fragment(kind, 0))>>)
  BY <1>4, <1>5, PairGood
<1> QED
  BY <1>2, <1>6 DEF Tell

LEMMA SetSteps ==
    ASSUME NEW id \in Nat, NEW mark \in Marks
    PROVE  /\ SetStep(id, mark) \in Steps /\ SetStep(id, mark).do = "set" /\ SetStep(id, mark).mark = mark
           /\ Telling(SetStep(id, mark)) = Patch(id, mark)
           /\ Records(SetStep(id, mark)) <=> mark # "out"
           /\ ~Tells(SetStep(id, mark))
<1>1. PICK x : x = SetStep(id, mark)
  OBVIOUS
<1>2. x = [do |-> "set", id |-> id, mark |-> mark]
  BY <1>1 DEF SetStep
<1>3. x \in Steps
  BY <1>2 DEF Steps, Calm, Saying
<1>4. x.do = "set" /\ x.mark = mark /\ Telling(x) = Patch(id, mark) /\ (Records(x) <=> mark # "out") /\ ~Tells(x)
  BY <1>2 DEF Records, Telling, Tells
<1> QED
  BY <1>1, <1>3, <1>4

LEMMA PutGood ==
    ASSUME NEW id \in Nat, NEW mark \in Marks \ {"out"}
    PROVE  Good(Put(id, mark)) /\ Good(Settle(id, mark))
<1>1. Good(Put(id, mark))
  BY SetSteps, PairGood DEF Put
<1> QED
  BY <1>1, NoneGood DEF Settle

LEMMA DrawGood ==
    ASSUME NEW id \in Nat
    PROVE  /\ Good(ShowDiff(id)) /\ Good(Fail(id))
           /\ \A kind \in Marks \ {"out"} : Good(FinishShell(id, kind))
<1>1. Good(Put(id, "diff")) /\ Good(Settle(id, "write")) /\ Good(Put(id, "note")) /\ Good(Settle(id, "deny"))
  BY PutGood DEF Marks
<1>2. Good(ShowDiff(id)) /\ Good(Fail(id))
  BY <1>1, JoinGood, NoneGood DEF ShowDiff, Fail
<1>3. ASSUME NEW kind \in Marks \ {"out"} PROVE Good(FinishShell(id, kind))
  <2>1. Good(<<SetStep(id, "out")>>)
    BY SetSteps, OneGood DEF Marks
  <2>2. Good(<<SetStep(id, "exit"), SendStep(Patch(id, "exit"))>>)
    BY SetSteps, PairGood DEF Marks
  <2>3. PICK x, y, z : x = SetStep(id, "out") /\ y = SetStep(id, "exit") /\ z = SendStep(Patch(id, "exit"))
    OBVIOUS
  <2>4. <<x, y, z>> = <<x>> \o <<y, z>>
    OBVIOUS
  <2>5. Good(<<x, y, z>>)
    BY <2>1, <2>2, <2>3, <2>4, JoinGood
  <2>6. Good(Settle(id, kind))
    BY PutGood
  <2>7. Good(<<x, y, z>> \o Settle(id, kind))
    BY <2>5, <2>6, JoinGood
  <2> QED
    BY <2>3, <2>7, NoneGood DEF FinishShell
<1> QED
  BY <1>2, <1>3

\* A step of none of those kinds.
LEMMA PlainGood ==
    ASSUME NEW x \in Steps, x.do \notin {"note", "todos", "set", "send"}
    PROVE  Good(<<x>>) /\ ~Records(x) /\ ~Tells(x)
<1>1. ~Records(x) /\ ~Tells(x)
  BY DEF Records, Tells
<1> QED
  BY <1>1, OneGood

LEMMA DoGood == \A what \in {"idle", "meter", "scan", "wait"} : Good(<<Do(what)>>)
<1>1. ASSUME NEW what \in {"idle", "meter", "scan", "wait"} PROVE Do(what) \in Steps /\ Do(what).do = what
  BY DEF Do, Steps, Calm, Saying, Idles
<1>2. ASSUME NEW what \in {"idle", "meter", "scan", "wait"} PROVE Good(<<Do(what)>>)
  BY <1>1, PlainGood
<1> QED
  BY <1>2

\* What a goroutine says that the pages do not depend on.
LEMMA SoftGood ==
    /\ Good(<<StopButton>>) /\ StopButton \in Steps /\ Soft(StopButton)
    /\ \A id \in Nat : Good(<<SendStep(Patch(id, "out"))>>)
<1>1. StopButton \in Steps /\ \A id \in Nat : SendStep(Patch(id, "out")) \in Steps
  BY FrameSteps DEF Steps
<1>2. StopButton.do = "send" /\ StopButton.frame.to = "stop"
  BY DEF StopButton, SendStep, Header
<1>3. ASSUME NEW id \in Nat PROVE Good(<<SendStep(Patch(id, "out"))>>)
  <2>1. PICK x : x = SendStep(Patch(id, "out"))
    OBVIOUS
  <2>2. x = [do |-> "send", frame |-> [to |-> "card", id |-> id, mark |-> "out"]]
    BY <2>1 DEF SendStep, Patch
  <2>3. x.do = "send" /\ x.frame.to = "card" /\ x.frame.mark = "out"
    BY <2>2
  <2>4. ~Records(x) /\ ~Tells(x) /\ x.frame.to # "mode"
    BY <2>3 DEF Records, Tells, Changes
  <2> QED
    BY <1>1, <2>1, <2>4, OneGood
<1>4. ~Records(StopButton) /\ ~Tells(StopButton) /\ Soft(StopButton) /\ StopButton.frame.to # "mode"
  BY <1>2 DEF Records, Tells, Changes, Soft
<1> QED
  BY <1>1, <1>3, <1>4, OneGood

LEMMA EndGood == (\A r \in {Failed, Finish} : Good(r) /\ Closes(r)) /\ Good(Tell("agent"))
<1>1. PICK i : i = Do("idle")
  OBVIOUS
<1>2. i \in Steps /\ i.do = "idle"
  BY <1>1 DEF Do, Steps, Idles
<1>3. Idle = <<i, StopButton>> /\ Idle = <<i>> \o <<StopButton>>
  BY <1>1 DEF Idle
<1>4. Good(Idle)
  BY <1>1, <1>3, DoGood, SoftGood, JoinGood
<1>5. Closes(Idle)
  <2>1. Len(Idle) = 2 /\ Idle[1] = i /\ Idle[2] = StopButton
    BY <1>3
  <2>2. \A j \in 1 + 1..Len(Idle) : j = 2
    BY <2>1
  <2>3. 1 \in 1..Len(Idle)
    BY <2>1
  <2> QED
    BY <2>1, <2>2, <2>3, <1>2, SoftGood DEF Closes
<1>6. Good(Finish) /\ Closes(Finish)
  BY <1>4, <1>5, DoGood, JoinGood, JoinCloses DEF Finish, Good
<1>7. Good(Failed) /\ Closes(Failed)
  <2>1. Good(Tell("error"))
    BY TellGood DEF Kinds
  <2> QED
    BY <2>1, <1>4, <1>5, JoinGood, JoinCloses DEF Failed, Good
<1>8. Good(Tell("agent"))
  BY TellGood DEF Kinds
<1> QED
  BY <1>6, <1>7, <1>8

LEMMA AskGood == Good(Tell("user") \o <<StopButton>>)
<1>1. Good(Tell("user"))
  BY TellGood DEF Kinds
<1> QED
  BY <1>1, SoftGood, JoinGood

LEMMA ToolGood ==
    ASSUME NEW call \in Called
    PROVE  /\ Good(ToolScript(call))
           /\ call.name # "other" => \A card \in Nat : Good(WithCard(call, card))
<1>1. call.id \in Nat /\ call.name \in Names
  BY DEF Called
<1>2. call.name # "other" => Good(<<[do |-> "claim", call |-> call]>>)
  <2>1. PICK x : x = [do |-> "claim", call |-> call]
    OBVIOUS
  <2>2. x.do = "claim"
    BY <2>1
  <2>3. call.name # "other" => x \in Steps
    BY <2>1 DEF Steps, Tooling, Asking
  <2> QED
    BY <2>1, <2>2, <2>3, PlainGood
<1>3. Good(<<[do |-> "todos", call |-> call], SendStep(Header("todos", call.id))>>)
  <2>1. PICK x : x = [do |-> "todos", call |-> call]
    OBVIOUS
  <2>2. x \in Steps
    BY <2>1 DEF Steps, Calm
  <2>3. Records(x) /\ Telling(x) = Header("todos", call.id)
    BY <2>1 DEF Records, Telling
  <2> QED
    BY <2>1, <2>2, <2>3, PairGood
<1>4. Good(ToolScript(call))
  <2>1. CASE call.name = "other"
    <3>1. Good(Tell("deny"))
      BY TellGood DEF Kinds
    <3> QED
      BY <3>1, <2>1 DEF ToolScript
  <2>2. CASE call.name # "other" /\ ~call.decodes
    BY <2>2, NoneGood DEF ToolScript
  <2>3. CASE call.name # "other" /\ call.decodes /\ call.name = "todo"
    <3>1. PICK x, y, z : x = [do |-> "todos", call |-> call] /\ y = SendStep(Header("todos", call.id)) /\ z = [do |-> "claim", call |-> call]
      OBVIOUS
    <3>2. Good(<<x, y>> \o <<z>>)
      BY <3>1, <1>2, <1>3, <2>3, JoinGood
    <3>3. <<x, y>> \o <<z>> = <<x, y, z>>
      <4>1. <<x, y>> \o <<z>> = Append(<<x, y>>, z)
        OBVIOUS
      <4>2. <<x, y, z>> = Append(<<x, y>>, z)
        OBVIOUS
      <4> QED
        BY <4>1, <4>2
    <3>4. ToolScript(call) = <<x, y, z>>
      BY <2>3, <3>1 DEF ToolScript
    <3> QED
      BY <3>2, <3>3, <3>4
  <2>4. CASE call.name # "other" /\ call.decodes /\ call.name # "todo"
    BY <2>4, <1>2 DEF ToolScript
  <2> QED
    BY <2>1, <2>2, <2>3, <2>4
<1>5. ASSUME call.name # "other", NEW card \in Nat PROVE Good(WithCard(call, card))
  <2>1. CASE call.name \in {"read", "todo"}
    <3>1. Good(Settle(card, "read"))
      BY PutGood DEF Marks
    <3> QED
      BY <2>1, <3>1 DEF WithCard
  <2>2. CASE call.name \notin {"read", "todo"}
    <3>1. call \in Risky
      BY <2>2, <1>1, <1>5 DEF Called, Risky, Names
    <3>2. PICK x : x = [do |-> "plan", call |-> call, card |-> card]
      OBVIOUS
    <3>3. x \in Steps /\ x.do = "plan"
      BY <3>1, <3>2 DEF Steps, Tooling, Asking
    <3>4. Good(<<x>>)
      BY <3>3, PlainGood
    <3> QED
      BY <2>2, <3>2, <3>4 DEF WithCard
  <2> QED
    BY <2>1, <2>2
<1> QED
  BY <1>4, <1>5

LEMMA ArmedGood == ASSUME NEW name \in {"write", "shell"}, NEW card \in Nat PROVE Good(<<[do |-> name, card |-> card]>>)
<1>1. PICK x : x = [do |-> name, card |-> card]
  OBVIOUS
<1>2. x \in Steps /\ x.do = name
  BY <1>1 DEF Steps, Tooling, Armed
<1> QED
  BY <1>1, <1>2, PlainGood

LEMMA AnnounceGood == ASSUME NEW calls \in Seq(Called) PROVE Good(AnnounceAll(calls))
<1>1. PICK s : s = AnnounceAll(calls)
  OBVIOUS
<1>2. PICK k \in Nat : k = Len(calls)
  BY LenProperties
<1>3. s \in Seq(Steps)
  BY <1>1, Announcing, SeqMonotonic DEF Steps
<1>4. DOMAIN s = 1..3 * k /\ Len(s) = 3 * k /\ 3 * k \in Nat
  <2>1. DOMAIN s = 1..3 * k /\ 3 * k \in Nat
    BY <1>1, <1>2 DEF AnnounceAll
  <2> QED
    BY <2>1, <1>3, LenProperties
<1>5. ASSUME NEW i \in 1..3 * k
      PROVE  \E q \in 1..k, r \in 1..3 : i = 3 * (q - 1) + r /\ s[i] = Announce(calls[q])[r]
  <2>1. s[i] = Announce(calls[((i - 1) \div 3) + 1])[((i - 1) % 3) + 1]
    BY <1>1, <1>2, <1>4 DEF AnnounceAll
  <2> QED
    BY <2>1, Thirds
<1>6. ASSUME NEW c \in Called
      PROVE  /\ Announce(c)[1].do = "queue"
             /\ Records(Announce(c)[2]) /\ Announce(c)[2].do = "note" /\ Announce(c)[3] = SendStep(Telling(Announce(c)[2]))
             /\ Announce(c)[3].do = "send" /\ Announce(c)[3].frame.to = "stream"
  <2>1. /\ Announce(c)[1] = [do |-> "queue", call |-> c] /\ Announce(c)[2] = NoteStep("tool", c.id)
        /\ Announce(c)[3] = SendStep(Fragment("tool", c.id))
    BY DEF Announce
  <2>2. NoteStep("tool", c.id) = [do |-> "note", entry |-> Entry("tool", c.id)]
    BY DEF NoteStep
  <2>3. Telling(NoteStep("tool", c.id)) = Fragment("tool", c.id) /\ Records(NoteStep("tool", c.id)) /\ NoteStep("tool", c.id).do = "note"
    BY <2>2 DEF Telling, Records, Fragment
  <2>4. SendStep(Fragment("tool", c.id)).do = "send" /\ SendStep(Fragment("tool", c.id)).frame.to = "stream"
    BY DEF SendStep, Fragment
  <2> QED
    BY <2>1, <2>3, <2>4
<1>7. ASSUME NEW i \in 1..3 * k
      PROVE  /\ Records(s[i]) => i < 3 * k /\ s[i + 1] = SendStep(Telling(s[i]))
             /\ i > 1 /\ Tells(s[i]) => Records(s[i - 1])
             /\ s[i].do = "send" => s[i].frame.to # "mode"
             /\ i = 1 => s[i].do = "queue"
  <2>1. PICK q \in 1..k, r \in 1..3 : i = 3 * (q - 1) + r /\ s[i] = Announce(calls[q])[r]
    BY <1>5
  <2>2. PICK c \in Called : c = calls[q]
    BY <1>2, ElementOfSeq
  <2>3. PICK t : t = Announce(c)
    OBVIOUS
  <2>4. /\ t[1].do = "queue" /\ Records(t[2]) /\ t[2].do = "note" /\ t[3] = SendStep(Telling(t[2]))
        /\ t[3].do = "send" /\ t[3].frame.to = "stream"
    BY <2>3, <1>6
  <2>5. s[i] = t[r]
    BY <2>1, <2>2, <2>3
  <2>6. CASE r = 1
    <3>1. s[i].do = "queue"
      BY <2>4, <2>5, <2>6
    <3> QED
      BY <3>1 DEF Records, Tells
  <2>7. CASE r = 2
    <3>1. i + 1 \in 1..3 * k /\ i < 3 * k /\ i + 1 = 3 * (q - 1) + 3 /\ i # 1
      BY <2>1, <2>7
    <3>2. PICK p \in 1..k, z \in 1..3 : i + 1 = 3 * (p - 1) + z /\ s[i + 1] = Announce(calls[p])[z]
      BY <3>1, <1>5
    <3>3. p = q /\ z = 3
      BY <3>1, <3>2
    <3>4. s[i + 1] = t[3]
      BY <3>2, <3>3, <2>2, <2>3
    <3>5. ~Tells(s[i]) /\ s[i].do # "send"
      BY <2>4, <2>5, <2>7 DEF Tells
    <3> QED
      BY <3>1, <3>4, <3>5, <2>4, <2>5, <2>7
  <2>8. CASE r = 3
    <3>1. i - 1 \in 1..3 * k /\ i - 1 = 3 * (q - 1) + 2 /\ i # 1
      BY <2>1, <2>8
    <3>2. PICK p \in 1..k, z \in 1..3 : i - 1 = 3 * (p - 1) + z /\ s[i - 1] = Announce(calls[p])[z]
      BY <3>1, <1>5
    <3>3. p = q /\ z = 2
      BY <3>1, <3>2
    <3>4. s[i - 1] = t[2]
      BY <3>2, <3>3, <2>2, <2>3
    <3>5. ~Records(s[i]) /\ s[i].frame.to # "mode"
      BY <2>4, <2>5, <2>8 DEF Records
    <3> QED
      BY <3>1, <3>4, <3>5, <2>4
  <2> QED
    BY <2>6, <2>7, <2>8
<1>8. Sound(s)
  BY <1>4, <1>7 DEF Sound
<1>9. Fresh(s)
  <2>1. SUFFICES ASSUME s # <<>> PROVE ~Tells(s[1])
    BY DEF Fresh
  <2>2. 1 \in 1..3 * k
    BY <2>1, <1>3, <1>4, EmptySeq
  <2> QED
    BY <2>2, <1>7 DEF Tells
<1> QED
  BY <1>1, <1>3, <1>8, <1>9 DEF Good

(* ------------------------------ who speaks ------------------------------ *)

LEMMA OneSpeaks ==
    ASSUME Inv, Voices, NEW n \in Asks, script[n] # <<>>, ~Soft(Head(script[n]))
    PROVE  Active(n)
<1>1. script[n] \in Seq(Steps) /\ Head(script[n]) = script[n][1] /\ 1 \in 1..Len(script[n])
  <2>1. script[n] \in Seq(Steps)
    BY DEF Inv, Types
  <2> QED
    BY <2>1, EmptySeq
<1>2. SUFFICES ASSUME at[n] \notin {"asked"} \cup Holding PROVE Idling(script[n])
  BY DEF Active
<1>3. Ends(script[n])
  BY <1>2 DEF Voices
<1>4. Closes(script[n])
  BY <1>1, <1>3 DEF Ends
<1>5. PICK k \in 1..Len(script[n]) : script[n][k].do = "idle"
  BY <1>4 DEF Closes
<1>6. script[n][k] \in Steps
  BY <1>1, ElementOfSeq
<1> QED
  BY <1>5, <1>6, KindsApart DEF Idling

LEMMA UntoldSpeaks ==
    ASSUME Inv, Voices, NEW n \in Asks, Untold(n)
    PROVE  Active(n) /\ script[n] # <<>> /\ Tells(Head(script[n]))
<1>1. script[n] # <<>> /\ Tells(Head(script[n])) /\ ~Soft(Head(script[n]))
  BY DEF Untold, Tells, Changes, Soft
<1> QED
  BY <1>1, OneSpeaks

\* Whose turn it is to record something, nobody else has something untold.
LEMMA OneUntold ==
    ASSUME Inv, Voices, NEW a \in Asks, script[a] # <<>>, ~Soft(Head(script[a])), NEW n \in Asks, Untold(n)
    PROVE  n = a
BY OneSpeaks, UntoldSpeaks DEF Inv, Gate

LEMMA ModesSend ==
    ASSUME Voices, NEW h \in Modes, script[h] # <<>>
    PROVE  \/ Head(script[h]).do = "returned"
           \/ /\ Head(script[h]).do = "send" /\ Tail(script[h]) = <<Do("returned")>>
              /\ \E m \in {"plan", "act"} : Head(script[h]).frame = Header("mode", m)
<1>1. PICK s : s = script[h]
  OBVIOUS
<1>2. CASE s = <<Do("returned")>>
  BY <1>1, <1>2 DEF Do
<1>3. ASSUME NEW m \in {"plan", "act"}, s = <<SendStep(Header("mode", m)), Do("returned")>>
      PROVE  Head(s) = SendStep(Header("mode", m)) /\ Tail(s) = <<Do("returned")>>
  BY <1>3
<1>4. \A m \in {"plan", "act"} : SendStep(Header("mode", m)).do = "send" /\ SendStep(Header("mode", m)).frame = Header("mode", m)
  BY DEF SendStep
<1>5. s = <<Do("returned")>> \/ \E m \in {"plan", "act"} : s = <<SendStep(Header("mode", m)), Do("returned")>>
  BY <1>1 DEF Voices, Changing
<1> QED
  BY <1>1, <1>2, <1>3, <1>4, <1>5

(* ------------------------- the scripts, step by step -------------------- *)

LEMMA VoicesWork ==
    ASSUME Inv, Voices, NEW a \in Asks, script[a] # <<>>,
           NEW t \in Seq(Steps), Sound(t), Records(Head(script[a])) => t = <<>>,
           t = <<>> \/ (~Soft(Head(script[a])) /\ Head(script[a]).do # "idle"),
           Then(a, t), UNCHANGED at
    PROVE  /\ Voices' /\ script'[a] = t \o Tail(script[a])
           /\ \A b \in Asks \cup Modes : b # a => script'[b] = script[b]
<1>1. script \in [Asks \cup Modes -> Seq(Steps)] /\ a \in Asks \cup Modes
  BY DEF Inv, Types
<1>2. PICK s \in Seq(Steps) : s = script[a]
  BY <1>1
<1>3. /\ Sound(s) /\ (at[a] \notin {"asked"} \cup Holding => Ends(s)) /\ s # <<>>
  BY <1>2 DEF Voices
<1>4. PICK u \in Seq(Steps) : u = Tail(s)
  BY <1>3, HeadTailProperties
<1>5. /\ Sound(u) /\ (~Records(Head(s)) => Fresh(u)) /\ (Ends(s) => Ends(u))
      /\ Ends(s) /\ ~Soft(Head(s)) /\ Head(s).do # "idle" => Closes(u)
  BY <1>3, <1>4, TailSound
<1>6. Sound(t \o u) /\ (at[a] \notin {"asked"} \cup Holding => Ends(t \o u)) /\ t \o u \in Seq(Steps)
  <2>1. CASE t = <<>>
    BY <2>1, <1>3, <1>5, ConcatEmptySeq
  <2>2. CASE t # <<>>
    <3>1. Good(u)
      BY <2>2, <1>2, <1>5 DEF Good
    <3>2. Sound(t \o u) /\ t \o u \in Seq(Steps)
      BY <3>1, JoinSound
    <3>3. ASSUME Ends(s) PROVE Ends(t \o u)
      <4>1. Closes(u)
        BY <3>3, <2>2, <1>2, <1>5
      <4> QED
        BY <4>1, JoinCloses DEF Ends
    <3> QED
      BY <3>2, <3>3, <1>3
  <2> QED
    BY <2>1, <2>2
<1>7. script'[a] = t \o u /\ \A b \in Asks \cup Modes : b # a => script'[b] = script[b]
  BY <1>1, <1>2, <1>4 DEF Then
<1>8. ASSUME NEW n \in Asks PROVE Sound(script'[n]) /\ (at'[n] \notin {"asked"} \cup Holding => Ends(script'[n]))
  <2>1. CASE n = a
    BY <2>1, <1>6, <1>7
  <2>2. CASE n # a
    BY <2>2, <1>7 DEF Voices
  <2> QED
    BY <2>1, <2>2
<1>9. ASSUME NEW h \in Modes PROVE Changing(script'[h])
  <2>1. h # a
    BY ConsoleAssumption DEF Asks, Modes
  <2> QED
    BY <2>1, <1>7 DEF Voices
<1> QED
  BY <1>2, <1>4, <1>7, <1>8, <1>9 DEF Voices

LEMMA VoicesSay ==
    ASSUME Inv, Voices, NEW a \in Asks, script[a] # <<>>, NEW t, Good(t),
           ~Soft(Head(script[a])), ~Tells(Head(script[a])), script' = [script EXCEPT ![a] = t \o @], UNCHANGED at
    PROVE  /\ Voices' /\ script'[a] = t \o script[a] /\ Good(script'[a])
           /\ \A b \in Asks \cup Modes : b # a => script'[b] = script[b]
<1>1. script \in [Asks \cup Modes -> Seq(Steps)] /\ a \in Asks \cup Modes
  BY DEF Inv, Types
<1>2. PICK s \in Seq(Steps) : s = script[a]
  BY <1>1
<1>3. /\ Sound(s) /\ (at[a] \notin {"asked"} \cup Holding => Ends(s)) /\ s # <<>> /\ Head(s) = s[1] /\ 1 \in 1..Len(s)
  BY <1>2, EmptySeq DEF Voices
<1>4. Good(s) /\ (Ends(s) => Closes(s))
  BY <1>2, <1>3 DEF Good, Fresh, Ends
<1>5. Good(t \o s) /\ (Ends(s) => Ends(t \o s))
  BY <1>4, JoinSound, JoinCloses DEF Good, Ends
<1>6. script'[a] = t \o s /\ \A b \in Asks \cup Modes : b # a => script'[b] = script[b]
  BY <1>1, <1>2
<1>8. ASSUME NEW n \in Asks PROVE Sound(script'[n]) /\ (at'[n] \notin {"asked"} \cup Holding => Ends(script'[n]))
  <2>1. CASE n = a
    BY <2>1, <1>3, <1>5, <1>6 DEF Good
  <2>2. CASE n # a
    BY <2>2, <1>6 DEF Voices
  <2> QED
    BY <2>1, <2>2
<1>9. ASSUME NEW h \in Modes PROVE Changing(script'[h])
  <2>1. h # a
    BY ConsoleAssumption DEF Asks, Modes
  <2> QED
    BY <2>1, <1>6 DEF Voices
<1> QED
  BY <1>2, <1>5, <1>6, <1>8, <1>9 DEF Voices

LEMMA VoicesMove ==
    ASSUME Inv, Voices, NEW n \in Asks, NEW l \in Places, at' = [at EXCEPT ![n] = l], NEW r, Good(r),
           l \in {"asked"} \cup Holding \/ Closes(r), script' = [script EXCEPT ![n] = r]
    PROVE  /\ Voices' /\ script'[n] = r
           /\ \A b \in Asks \cup Modes : b # n => script'[b] = script[b]
<1>1. script \in [Asks \cup Modes -> Seq(Steps)] /\ n \in Asks \cup Modes /\ at \in [Asks -> Places]
  BY DEF Inv, Types
<1>2. /\ script'[n] = r /\ \A b \in Asks \cup Modes : b # n => script'[b] = script[b]
      /\ at'[n] = l /\ \A m \in Asks : m # n => at'[m] = at[m]
  BY <1>1
<1>3. ASSUME NEW m \in Asks PROVE Sound(script'[m]) /\ (at'[m] \notin {"asked"} \cup Holding => Ends(script'[m]))
  <2>1. CASE m = n
    BY <2>1, <1>2 DEF Good, Ends
  <2>2. CASE m # n
    BY <2>2, <1>2 DEF Voices
  <2> QED
    BY <2>1, <2>2
<1>4. ASSUME NEW h \in Modes PROVE Changing(script'[h])
  <2>1. h # n
    BY ConsoleAssumption DEF Asks, Modes
  <2> QED
    BY <2>1, <1>2 DEF Voices
<1> QED
  BY <1>2, <1>3, <1>4 DEF Voices

(* ------------------------------- the pages ------------------------------ *)

\* A script that goes on with nothing to tell.
LEMMA NotUntold ==
    ASSUME NEW n, NEW s, Good(s), script'[n] = s
    PROVE  ~Untold(n)'
<1>1. s \in Seq(Steps) /\ (s # <<>> => Head(s) = s[1])
  BY HeadTailProperties DEF Good
<1> QED
  BY <1>1 DEF Good, Fresh, Untold

\* What is shown does not change what is still to be told, nor is anything recorded.
LEMMA FitsKept ==
    ASSUME \A n \in Asks : script'[n] = script[n] \/ (~Untold(n) /\ ~Untold(n)'),
           \A h \in Modes : Doing(h, "send") => Doing(h, "send")',
           Common(entries') = Common(entries), UNCHANGED <<turns, todos, mode>>, crossed \in BOOLEAN, crossed => crossed',
           NEW p, Fits(p)
    PROVE  Fits(p)'
<1>1. ASSUME NEW q PROVE Same(q)' <=> Same(q)
  BY DEF Same
<1>2. \A n \in Asks : Untold(n)' <=> Untold(n)
  BY DEF Untold
<1>3. ASSUME NEW n \in Asks, Untold(n)' PROVE Same(Shown(p, Head(script[n]).frame))'
  <2>1. Untold(n) /\ script'[n] = script[n]
    BY <1>2, <1>3
  <2>2. PICK q : q = Shown(p, Head(script[n]).frame)
    OBVIOUS
  <2>3. Same(q)
    BY <2>1, <2>2 DEF Fits
  <2>4. Same(q)'
    BY <2>3, <1>1
  <2>5. q = Shown(p, Head(script'[n]).frame)
    BY <2>1, <2>2
  <2> QED
    BY <2>4, <2>5 DEF Same
<1>4. ASSUME \A n \in Asks : ~Untold(n)' PROVE Same(p)'
  BY <1>1, <1>2, <1>4 DEF Fits
<1>5. ASSUME ~crossed', \A h \in Modes : ~Doing(h, "send")' PROVE p.mode = mode'
  <2>1. ~crossed /\ \A h \in Modes : ~Doing(h, "send")
    BY <1>5
  <2> QED
    BY <2>1 DEF Fits
<1> QED
  BY <1>3, <1>4, <1>5 DEF Fits

LEMMA FollowsKept ==
    ASSUME \A p \in Pages : Fits(p) => Fits(p)', NEW q \in Pages, Follows(q)
    PROVE  Follows(q)'
<1>1. SUFFICES ASSUME q.st \in {"loaded", "open"}
               PROVE  \E f \in [0..Len(q.queue) -> Pages] :
                          /\ f[0] = Bare(q) /\ \A i \in 1..Len(q.queue) : f[i] = Shown(f[i - 1], q.queue[i])
                          /\ Fits(f[Len(q.queue)])'
  BY DEF Follows
<1>2. PICK f \in [0..Len(q.queue) -> Pages] :
          /\ f[0] = Bare(q) /\ \A i \in 1..Len(q.queue) : f[i] = Shown(f[i - 1], q.queue[i])
          /\ Fits(f[Len(q.queue)])
  BY <1>1 DEF Follows
<1>3. q.queue \in Seq(Pushed)
  BY DEF Pages
<1>4. Len(q.queue) \in 0..Len(q.queue)
  BY <1>3, LenProperties
<1>5. PICK x \in Pages : x = f[Len(q.queue)]
  BY <1>2, <1>4
<1>6. Fits(x)'
  BY <1>2, <1>5
<1> QED
  BY <1>2, <1>5, <1>6

\* What records something has it to tell next.
LEMMA FitsRecord ==
    ASSUME NEW a \in Asks, \A n \in Asks : ~Untold(n), \A n \in Asks : n # a => script'[n] = script[n],
           \A h \in Modes : script'[h] = script[h], UNCHANGED <<mode, crossed>>,
           NEW f \in Frames, script'[a] # <<>>, Tells(Head(script'[a])), Head(script'[a]).frame = f,
           NEW p \in Pages, Fits(p),
           Same(p) => /\ Common(Shown(p, f).cards) = Common(entries')
                      /\ Shown(p, f).meter = turns' /\ Shown(p, f).todos = todos'
    PROVE  Fits(p)'
<1>1. PICK q : q = Shown(p, f)
  OBVIOUS
<1>2. Same(p)
  BY DEF Fits
<1>3. Same(q)'
  BY <1>1, <1>2 DEF Same
<1>4. ASSUME NEW n \in Asks, Untold(n)' PROVE n = a
  BY <1>4 DEF Untold
<1>5. Untold(a)'
  BY DEF Untold
<1>6. q = Shown(p, Head(script'[a]).frame)
  BY <1>1
<1>7. \A n \in Asks : Untold(n)' => Same(Shown(p, Head(script[n]).frame))'
  BY <1>3, <1>4, <1>6 DEF Same
<1>8. ASSUME ~crossed', \A h \in Modes : ~Doing(h, "send")' PROVE p.mode = mode'
  BY <1>8 DEF Fits, Doing
<1> QED
  BY <1>5, <1>7, <1>8 DEF Fits

\* A frame that is sent is for every page that follows.
LEMMA PushFollows ==
    ASSUME tabs \in [Tabs -> Pages], \A t \in Tabs : Follows(tabs[t]), NEW f \in Pushed, Push(f),
           \A p \in Pages : Fits(p) => Fits(Shown(p, f))'
    PROVE  tabs' \in [Tabs -> Pages] /\ \A t \in Tabs : Follows(tabs[t])'
<1>1. Lost \in Pages /\ Lost.st = "lost"
  <2>1. Lost = [st |-> "lost", cards |-> <<>>, busy |-> FALSE, meter |-> 0, todos |-> 0, mode |-> "act", queue |-> <<>>]
    <3>1. PICK b \in BOOLEAN : b = FALSE
      OBVIOUS
    <3>2. NoPage = [st |-> "none", cards |-> <<>>, busy |-> b, meter |-> 0, todos |-> 0, mode |-> "act", queue |-> <<>>]
      BY <3>1 DEF NoPage
    <3>3. Lost = [st |-> "lost", cards |-> <<>>, busy |-> b, meter |-> 0, todos |-> 0, mode |-> "act", queue |-> <<>>]
      BY <3>2 DEF Lost
    <3> QED
      BY <3>1, <3>3
  <2>2. <<>> \in Seq(Noted) /\ <<>> \in Seq(Pushed)
    OBVIOUS
  <2> QED
    BY <2>1, <2>2 DEF Pages
<1>2. ASSUME NEW t \in Tabs
      PROVE  /\ tabs[t].st = "open" /\ Len(tabs[t].queue) < Capacity => tabs'[t] = [tabs[t] EXCEPT !.queue = Append(tabs[t].queue, f)]
             /\ tabs[t].st = "open" /\ ~(Len(tabs[t].queue) < Capacity) => tabs'[t] = Lost
             /\ tabs[t].st = "loaded" => tabs'[t] = Lost
             /\ tabs[t].st \notin {"open", "loaded"} => tabs'[t] = tabs[t]
  <2>1. Len(tabs[t].queue) \in Nat /\ Capacity \in Nat
    BY LenProperties, ConsoleAssumption DEF Pages
  <2>2. ~(Len(tabs[t].queue) < Capacity) => Len(tabs[t].queue) >= Capacity
    BY <2>1
  <2>3. Len(tabs[t].queue) < Capacity => ~(Len(tabs[t].queue) >= Capacity)
    BY <2>1
  <2> QED
    BY <2>2, <2>3 DEF Push
<1>3. tabs' = [t \in Tabs |-> tabs'[t]]
  BY DEF Push
<1>4. ASSUME NEW t \in Tabs
      PROVE  tabs'[t] \in Pages /\ Follows(tabs[t])'
  <2>1. PICK p \in Pages : p = tabs[t]
    OBVIOUS
  <2>2. CASE p.st = "open" /\ Len(p.queue) < Capacity
    <3>1. PICK q : q = Append(p.queue, f)
      OBVIOUS
    <3>2. p.queue \in Seq(Pushed)
      BY DEF Pages
    <3>3. PICK m \in Nat : m = Len(p.queue)
      BY <3>2, LenProperties
    <3>4. /\ q \in Seq(Pushed) /\ Len(q) = m + 1 /\ q[m + 1] = f
          /\ \A i \in 1..m : q[i] = p.queue[i]
      BY <3>1, <3>2, <3>3
    <3>5. PICK r : r = [p EXCEPT !.queue = q]
      OBVIOUS
    <3>6. r = [st |-> p.st, cards |-> p.cards, busy |-> p.busy, meter |-> p.meter, todos |-> p.todos, mode |-> p.mode, queue |-> q]
      BY <3>5, PageFields
    <3>7. r \in Pages /\ r.queue = q /\ r.st = "open"
      BY <2>2, <3>4, <3>6 DEF Pages
    <3>8. tabs'[t] = r
      BY <1>2, <2>1, <2>2, <3>1, <3>5
    <3>9. Bare(r) = Bare(p)
      BY <3>5, Bared
    <3>10. PICK g \in [0..m -> Pages] : /\ g[0] = Bare(p) /\ \A i \in 1..m : g[i] = Shown(g[i - 1], p.queue[i])
                                        /\ Fits(g[m])
      BY <2>1, <2>2, <3>3 DEF Follows
    <3>11. g[m] \in Pages
      BY <3>3, <3>10
    <3>12. PICK e : e = Shown(g[m], f)
      OBVIOUS
    <3>13. e \in Pages
      BY <3>11, <3>12, Shows
    <3>14. Fits(e)'
      <4>1. PICK z \in Pages : z = g[m]
        BY <3>11
      <4>2. Fits(Shown(z, f))'
        BY <4>1, <3>10
      <4>3. e = Shown(z, f)
        BY <4>1, <3>12
      <4> QED
        BY <4>2, <4>3
    <3>15. PICK h : h = [i \in 0..m + 1 |-> IF i <= m THEN g[i] ELSE e]
      OBVIOUS
    <3>16. h \in [0..m + 1 -> Pages] /\ h[0] = g[0] /\ h[m + 1] = e /\ \A i \in 0..m : h[i] = g[i]
      BY <3>3, <3>10, <3>13, <3>15
    <3>17. ASSUME NEW i \in 1..m + 1 PROVE h[i] = Shown(h[i - 1], q[i])
      <4>1. CASE i \in 1..m
        <5>1. i - 1 \in 0..m /\ i \in 0..m
          BY <4>1, <3>3
        <5> QED
          BY <5>1, <4>1, <3>4, <3>10, <3>16
      <4>2. CASE i = m + 1
        <5>1. i - 1 = m /\ m \in 0..m
          BY <4>2, <3>3
        <5> QED
          BY <5>1, <4>2, <3>4, <3>12, <3>16
      <4> QED
        BY <4>1, <4>2, <3>3
    <3>18. Fits(h[m + 1])'
      BY <3>14, <3>16
    <3>19. h[0] = Bare(r)
      BY <3>9, <3>10, <3>16
    <3>20. Follows(r)'
      BY <3>4, <3>7, <3>16, <3>17, <3>18, <3>19 DEF Follows
    <3> QED
      BY <3>7, <3>8, <3>20
  <2>3. CASE (p.st = "open" /\ ~(Len(p.queue) < Capacity)) \/ p.st = "loaded"
    <3>1. tabs'[t] = Lost
      BY <2>1, <2>3, <1>2
    <3> QED
      BY <3>1, <1>1 DEF Follows
  <2>4. CASE p.st \notin {"open", "loaded"}
    <3>1. tabs'[t] = p
      BY <2>1, <2>4, <1>2
    <3> QED
      BY <3>1, <2>4 DEF Follows
  <2> QED
    BY <2>2, <2>3, <2>4
<1> QED
  BY <1>3, <1>4

\* What is sent is what was to be told, or nothing the pages are compared by.
LEMMA SendFits ==
    ASSUME Inv, Voices, Modal, crossed \in BOOLEAN, NEW a \in Asks \cup Modes, NEW f \in Frames, Doing(a, "send"), Now(a).frame = f,
           \A b \in Asks \cup Modes : b # a => script'[b] = script[b], script'[a] = Tail(script[a]),
           UNCHANGED <<entries, turns, todos, mode, crossed>>,
           NEW p \in Pages, Fits(p)
    PROVE  Fits(Shown(p, f))'
<1>1. PICK x : x = Shown(p, f)
  OBVIOUS
<1>2. f \in Pushed /\ x \in Pages
  BY <1>1, Shows DEF Pushed
<1>3. script[a] # <<>> /\ Head(script[a]).do = "send" /\ Head(script[a]).frame = f /\ Head(script[a]) \in Steps
  BY Doings DEF Now
<1>4. \A q : Same(q)' <=> Same(q)
  BY DEF Same
<1>5. ASSUME a \in Asks PROVE ~Untold(a)' /\ f.to # "mode" /\ \A h \in Modes : script'[h] = script[h]
  <2>1. PICK s \in Seq(Steps) : s = script[a]
    BY DEF Inv, Types
  <2>2. Sound(s) /\ s # <<>> /\ ~Records(Head(s)) /\ Head(s) = s[1] /\ 1 \in 1..Len(s)
    BY <2>1, <1>3, <1>5, EmptySeq DEF Voices, Records
  <2>3. PICK u : u = Tail(s)
    OBVIOUS
  <2>4. Good(u)
    BY <2>2, <2>3, TailSound, HeadTailProperties DEF Good
  <2>5. f.to # "mode"
    BY <2>1, <2>2, <1>3 DEF Sound
  <2>6. script'[a] = u
    BY <2>1, <2>3
  <2>7. \A h \in Modes : h # a
    BY <1>5, ConsoleAssumption DEF Asks, Modes
  <2> QED
    BY <2>4, <2>5, <2>6, <2>7, NotUntold
<1>6. CASE a \in Asks /\ Changes(f)
  <2>1. Untold(a)
    BY <1>3, <1>6 DEF Untold, Tells
  <2>2. ~Soft(Head(script[a]))
    BY <1>3, <1>6 DEF Changes, Soft
  <2>3. \A n \in Asks : Untold(n) => n = a
    BY <2>2, <1>3, <1>6, OneUntold
  <2>4. \A n \in Asks : ~Untold(n)'
    <3>1. ASSUME NEW n \in Asks, n # a PROVE ~Untold(n)'
      <4>1. script'[n] = script[n]
        BY <3>1
      <4> QED
        BY <4>1, <3>1, <2>3 DEF Untold
    <3> QED
      BY <3>1, <1>5, <1>6
  <2>5. Same(x)
    BY <2>1, <1>1, <1>3, <1>6 DEF Fits
  <2>6. Same(x)'
    BY <2>5, <1>4
  <2>7. ASSUME ~crossed', \A h \in Modes : ~Doing(h, "send")' PROVE x.mode = mode'
    <3>1. x.mode = p.mode
      BY <1>1, <1>2, <1>5, <1>6, Shows
    <3>2. p.mode = mode
      BY <2>7, <1>5, <1>6 DEF Fits, Doing
    <3> QED
      BY <3>1, <3>2
  <2>8. Fits(x)'
    BY <2>4, <2>6, <2>7 DEF Fits
  <2> QED
    BY <2>8, <1>1
<1>7. CASE ~(a \in Asks /\ Changes(f))
  <2>1. ~Changes(f)
    <3>1. ASSUME a \in Modes PROVE ~Changes(f)
      <4>1. PICK m \in {"plan", "act"} : f = Header("mode", m)
        BY <3>1, <1>3, ModesSend
      <4>2. f.to = "mode"
        BY <4>1 DEF Header
      <4> QED
        BY <4>2 DEF Changes
    <3> QED
      BY <3>1, <1>7
  <2>2. Alike(x, p)
    BY <2>1, <1>1, <1>2, ShowsAlike
  <2>3. ASSUME NEW y, NEW z, Alike(y, z) PROVE Same(y) <=> Same(z)
    BY <2>3 DEF Alike, Same
  <2>4. ASSUME NEW n \in Asks PROVE /\ Untold(n)' <=> Untold(n)
                                    /\ Untold(n) => script'[n] = script[n]
    <3>1. CASE n = a
      <4>1. ~Untold(a) /\ ~Untold(a)'
        BY <3>1, <2>1, <1>3, <1>5 DEF Untold, Tells
      <4> QED
        BY <4>1, <3>1 DEF Untold
    <3>2. CASE n # a
      BY <3>2 DEF Untold
    <3> QED
      BY <3>1, <3>2
  <2>5. ASSUME NEW n \in Asks, Untold(n)' PROVE Same(Shown(x, Head(script[n]).frame))'
    <3>1. Untold(n) /\ script'[n] = script[n]
      BY <2>4, <2>5
    <3>2. Head(script[n]) \in Steps /\ Head(script[n]).do = "send"
      <4>1. script[n] # <<>> /\ Tells(Head(script[n]))
        BY <3>1 DEF Untold
      <4>2. script[n] \in Seq(Steps)
        BY DEF Inv, Types
      <4> QED
        BY <4>1, <4>2, HeadTailProperties DEF Tells
    <3>3. PICK g \in Pushed : g = Head(script[n]).frame
      BY <3>2, Contents DEF Pushed
    <3>4. Same(Shown(p, g))
      BY <3>1, <3>3 DEF Fits
    <3>5. PICK y : y = Shown(x, g)
      OBVIOUS
    <3>6. Alike(y, Shown(p, g))
      BY <3>5, <2>2, <1>2, ShowsAlike
    <3>7. Same(y)
      BY <3>4, <3>6, <2>3
    <3>8. Same(y)'
      BY <3>7, <1>4
    <3>9. y = Shown(x, Head(script'[n]).frame)
      BY <3>1, <3>3, <3>5
    <3> QED
      BY <3>8, <3>9 DEF Same
  <2>6. ASSUME \A n \in Asks : ~Untold(n)' PROVE Same(x)'
    <3>1. Same(p)
      BY <2>4, <2>6 DEF Fits
    <3> QED
      BY <3>1, <2>2, <2>3, <1>4
  <2>7. ASSUME ~crossed', \A h \in Modes : ~Doing(h, "send")' PROVE x.mode = mode'
    <3>1. ~crossed
      BY <2>7
    <3>2. CASE a \in Asks
      <4>1. x.mode = p.mode
        BY <1>1, <1>2, <1>5, <3>2, Shows
      <4>2. p.mode = mode
        BY <2>7, <1>5, <3>2 DEF Fits, Doing
      <4> QED
        BY <4>1, <4>2
    <3>3. CASE a \in Modes
      <4>1. PICK m \in {"plan", "act"} : f = Header("mode", m)
        BY <3>3, <1>3, ModesSend
      <4>2. f.to = "mode" /\ f.value = m
        BY <4>1 DEF Header
      <4>3. f.value = mode
        BY <3>1, <3>3, <1>3 DEF Modal
      <4>4. x.mode = f.value
        BY <4>2, <1>1, <1>2, Shows
      <4> QED
        BY <4>3, <4>4
    <3> QED
      BY <3>2, <3>3
  <2>8. Fits(x)'
    BY <2>4, <2>5, <2>6, <2>7 DEF Fits
  <2> QED
    BY <2>8, <1>1
<1> QED
  BY <1>6, <1>7

LEMMA Apart == \A a \in Asks : a \notin Modes
BY ConsoleAssumption DEF Asks, Modes

LEMMA DoneByAsks ==
    ASSUME Inv, Voices, NEW a \in Asks \cup Modes, NEW what, Doing(a, what), what \notin {"send", "returned"}
    PROVE  a \in Asks
<1>1. script[a] # <<>> /\ Head(script[a]).do = what
  BY DEF Doing
<1> QED
  BY <1>1, ModesSend

\* The pages are as they were, and nothing is to be told of what happened.
LEMMA LiveKept ==
    ASSUME LiveInv, Voices', Modal', UNCHANGED <<turns, todos, mode, crossed, tabs>>,
           entries' \in Seq(Noted), Common(entries') = Common(entries),
           \A n \in Asks : script'[n] = script[n] \/ (~Untold(n) /\ ~Untold(n)'),
           \A h \in Modes : script'[h] = script[h]
    PROVE  LiveInv'
<1>1. Paged /\ \A t \in Tabs : Follows(tabs[t])
  BY DEF LiveInv
<1>2. crossed \in BOOLEAN /\ crossed' \in BOOLEAN /\ Paged'
  BY <1>1 DEF Paged
<1>3. \A h \in Modes : Doing(h, "send") => Doing(h, "send")'
  BY DEF Doing
<1>4. ASSUME NEW p \in Pages, Fits(p) PROVE Fits(p)'
  BY <1>2, <1>3, <1>4, FitsKept
<1>5. ASSUME NEW t \in Tabs PROVE Follows(tabs[t])'
  <2>1. PICK q \in Pages : q = tabs[t]
    BY <1>1 DEF Paged
  <2>2. Follows(q)'
    BY <2>1, <1>1, <1>4, FollowsKept
  <2> QED
    BY <2>1, <2>2
<1> QED
  BY <1>2, <1>5 DEF LiveInv

LEMMA ModalKept ==
    ASSUME Modal, \A h \in Modes : script'[h] = script[h], UNCHANGED <<mode, crossed>>
    PROVE  Modal'
<1>1. \A h \in Modes : Doing(h, "send")' <=> Doing(h, "send")
  BY DEF Doing
<1> QED
  BY <1>1 DEF Modal

\* A step that records nothing.
LEMMA WorksLive ==
    ASSUME Inv, LiveInv, NEW a \in Asks, script[a] # <<>>,
           Head(script[a]).do \notin {"note", "todos", "send", "returned"},
           ~Records(Head(script[a])),
           NEW t, Good(t), t = <<>> \/ Head(script[a]).do # "idle",
           Then(a, t), UNCHANGED <<at, turns, todos, mode, crossed, tabs>>,
           entries' \in Seq(Noted), Common(entries') = Common(entries)
    PROVE  LiveInv'
<1>1. Voices /\ Modal
  BY DEF LiveInv
<1>2. PICK s \in Seq(Steps) : s = script[a]
  BY DEF Inv, Types
<1>3. Sound(s) /\ s # <<>> /\ ~Soft(Head(s)) /\ ~Tells(Head(s)) /\ ~Records(Head(s))
  BY <1>1, <1>2 DEF Voices, Soft, Tells
<1>4. /\ Voices' /\ script'[a] = t \o Tail(script[a])
      /\ \A b \in Asks \cup Modes : b # a => script'[b] = script[b]
  BY <1>1, <1>2, <1>3, VoicesWork DEF Good
<1>5. PICK u : u = Tail(s)
  OBVIOUS
<1>6. Good(u)
  BY <1>3, <1>5, TailSound, HeadTailProperties DEF Good
<1>7. PICK r : r = t \o u
  OBVIOUS
<1>8. Good(r) /\ script'[a] = r
  BY <1>2, <1>4, <1>5, <1>6, <1>7, JoinGood
<1>9. ~Untold(a)' /\ ~Untold(a)
  BY <1>2, <1>3, <1>8, NotUntold DEF Untold
<1>10. \A h \in Modes : script'[h] = script[h]
  BY <1>4, Apart
<1>11. Modal'
  BY <1>1, <1>10, ModalKept
<1> QED
  BY <1>4, <1>9, <1>10, <1>11, LiveKept

\* What is recorded is told next.
LEMMA RecordsLive ==
    ASSUME Inv, LiveInv, NEW a \in Asks, script[a] # <<>>, ~Soft(Head(script[a])), ~Tells(Head(script[a])), Voices',
           \A b \in Asks \cup Modes : b # a => script'[b] = script[b],
           NEW f \in Frames, script'[a] # <<>>, Tells(Head(script'[a])), Head(script'[a]).frame = f,
           UNCHANGED <<mode, crossed, tabs>>, entries' \in Seq(Noted), todos' \in Nat,
           \A p \in Pages : Same(p) => /\ Common(Shown(p, f).cards) = Common(entries')
                                       /\ Shown(p, f).meter = turns' /\ Shown(p, f).todos = todos'
    PROVE  LiveInv'
<1>1. Voices /\ Modal /\ Paged /\ \A t \in Tabs : Follows(tabs[t])
  BY DEF LiveInv
<1>2. \A n \in Asks : ~Untold(n)
  <2>1. \A n \in Asks : Untold(n) => n = a
    BY <1>1, OneUntold
  <2> QED
    BY <2>1 DEF Untold
<1>3. (\A n \in Asks : n # a => script'[n] = script[n]) /\ \A h \in Modes : script'[h] = script[h]
  BY Apart
<1>4. ASSUME NEW p \in Pages, Fits(p) PROVE Fits(p)'
  BY <1>2, <1>3, <1>4, FitsRecord
<1>5. ASSUME NEW t \in Tabs PROVE Follows(tabs[t])'
  <2>1. PICK q \in Pages : q = tabs[t]
    BY <1>1 DEF Paged
  <2>2. Follows(q)'
    BY <2>1, <1>1, <1>4, FollowsKept
  <2> QED
    BY <2>1, <2>2
<1>6. Modal'
  BY <1>1, <1>3, ModalKept
<1>7. Paged'
  BY <1>1 DEF Paged
<1> QED
  BY <1>5, <1>6, <1>7 DEF LiveInv

\* The step that follows what was recorded.
LEMMA NextTells ==
    ASSUME Inv, Voices, NEW a \in Asks, script[a] # <<>>, NEW x, x = Head(script[a]), Records(x), Then(a, <<>>), UNCHANGED at
    PROVE  /\ Voices' /\ ~Soft(x) /\ ~Tells(x) /\ x \in Steps /\ Telling(x) \in Frames
           /\ \A b \in Asks \cup Modes : b # a => script'[b] = script[b]
           /\ script'[a] # <<>> /\ Tells(Head(script'[a])) /\ Head(script'[a]).frame = Telling(x)
<1>1. PICK s \in Seq(Steps) : s = script[a]
  BY DEF Inv, Types
<1>2. Sound(s) /\ s # <<>> /\ Head(s) = x /\ x \in Steps
  BY <1>1, HeadTailProperties DEF Voices
<1>3. <<>> \in Seq(Steps) /\ Sound(<<>>)
  BY NoneGood DEF Good
<1>4. /\ Voices' /\ script'[a] = <<>> \o Tail(script[a])
      /\ \A b \in Asks \cup Modes : b # a => script'[b] = script[b]
  BY <1>1, <1>2, <1>3, VoicesWork
<1>5. PICK u \in Seq(Steps) : u = Tail(s)
  BY <1>2, HeadTailProperties
<1>6. script'[a] = u
  BY <1>1, <1>4, <1>5, ConcatEmptySeq
<1>7. u # <<>> /\ Head(u) = SendStep(Telling(x))
  BY <1>2, <1>5, TailSound
<1>8. /\ Tells(SendStep(Telling(x))) /\ SendStep(Telling(x)).frame = Telling(x) /\ ~Tells(x) /\ ~Soft(x) /\ Telling(x) \in Frames
  BY <1>2, Tellings
<1> QED
  BY <1>2, <1>4, <1>6, <1>7, <1>8

LEMMA NoteLive == ASSUME Inv, LiveInv, NEW a \in Asks \cup Modes, Note(a) PROVE LiveInv'
<1>1. Voices /\ Paged
  BY DEF LiveInv
<1>2. a \in Asks
  BY <1>1, DoneByAsks DEF Note
<1>3. script[a] # <<>> /\ Head(script[a]) \in Steps /\ Now(a) = Head(script[a]) /\ Now(a).do = "note"
  BY Doings DEF Note
<1>4. PICK x : x = Head(script[a])
  OBVIOUS
<1>5. Records(x) /\ x.entry \in Noted /\ Telling(x) = [to |-> "stream", entry |-> x.entry]
  BY <1>3, <1>4, Contents DEF Records, Telling
<1>6. /\ entries' = Append(entries, x.entry) /\ Then(a, <<>>) /\ UNCHANGED <<at, mode, crossed, tabs, turns, todos>>
  BY <1>3, <1>4 DEF Note, core
<1>7. /\ Voices' /\ ~Soft(x) /\ ~Tells(x) /\ Telling(x) \in Frames
      /\ \A b \in Asks \cup Modes : b # a => script'[b] = script[b]
      /\ script'[a] # <<>> /\ Tells(Head(script'[a])) /\ Head(script'[a]).frame = Telling(x)
  BY <1>1, <1>2, <1>3, <1>4, <1>5, <1>6, NextTells
<1>8. entries \in Seq(Noted) /\ entries' \in Seq(Noted) /\ todos' \in Nat
  BY <1>1, <1>5, <1>6 DEF Paged
<1>9. PICK f \in Frames : f = Telling(x)
  BY <1>7
<1>10. f \in Pushed /\ f.to = "stream" /\ f.entry = x.entry
  BY <1>5, <1>9 DEF Pushed
<1>11. ASSUME NEW p \in Pages, Same(p)
       PROVE  /\ Common(Shown(p, f).cards) = Common(entries')
              /\ Shown(p, f).meter = turns' /\ Shown(p, f).todos = todos'
  <2>0. Shown(p, f).cards = Append(p.cards, f.entry) /\ Shown(p, f).meter = p.meter /\ Shown(p, f).todos = p.todos
    BY <1>10, Shows
  <2>1. Shown(p, f).cards = Append(p.cards, x.entry) /\ Shown(p, f).meter = p.meter /\ Shown(p, f).todos = p.todos
    BY <2>0, <1>10
  <2>2. p.cards \in Seq(Noted) /\ Common(p.cards) = Common(entries) /\ p.meter = turns /\ p.todos = todos
    BY <1>11 DEF Pages, Same
  <2>3. Common(Append(p.cards, x.entry)) = Common(Append(entries, x.entry))
    BY <2>2, <1>5, <1>8, Quieted
  <2> QED
    BY <2>1, <2>2, <2>3, <1>6
<1> QED
  BY <1>2, <1>3, <1>4, <1>6, <1>7, <1>8, <1>9, <1>11, RecordsLive

LEMMA UpdateCardLive == ASSUME Inv, LiveInv, NEW a \in Asks \cup Modes, UpdateCard(a) PROVE LiveInv'
<1>1. Voices /\ Paged
  BY DEF LiveInv
<1>2. a \in Asks
  BY <1>1, DoneByAsks DEF UpdateCard
<1>3. script[a] # <<>> /\ Head(script[a]) \in Steps /\ Now(a) = Head(script[a]) /\ Now(a).do = "set"
  BY Doings DEF UpdateCard
<1>4. PICK x : x = Head(script[a])
  OBVIOUS
<1>5. x.id \in Nat /\ x.mark \in Marks /\ x.do = "set" /\ Telling(x) = [to |-> "card", id |-> x.id, mark |-> x.mark]
  BY <1>3, <1>4, Contents DEF Telling, Patch
<1>6. /\ entries' = Patched(entries, x.id, x.mark) /\ Then(a, <<>>) /\ UNCHANGED <<at, mode, crossed, tabs, turns, todos>>
  BY <1>3, <1>4 DEF UpdateCard, core
<1>8. entries \in Seq(Noted) /\ entries' \in Seq(Noted) /\ todos' \in Nat
  BY <1>1, <1>5, <1>6, Patching DEF Paged, IsPatch
<1>12. CASE x.mark = "out"
  <2>1. Common(entries') = Common(entries)
    BY <1>5, <1>6, <1>8, <1>12, Quieted
  <2>2. ~Records(x)
    BY <1>5, <1>12 DEF Records
  <2> QED
    BY <2>1, <2>2, <1>2, <1>3, <1>4, <1>5, <1>6, <1>8, NoneGood, WorksLive
<1>13. CASE x.mark # "out"
  <2>0. Records(x)
    BY <1>5, <1>13 DEF Records
  <2>1. /\ Voices' /\ ~Soft(x) /\ ~Tells(x) /\ Telling(x) \in Frames
        /\ \A b \in Asks \cup Modes : b # a => script'[b] = script[b]
        /\ script'[a] # <<>> /\ Tells(Head(script'[a])) /\ Head(script'[a]).frame = Telling(x)
    BY <2>0, <1>1, <1>2, <1>3, <1>4, <1>5, <1>6, NextTells
  <2>2. PICK f \in Frames : f = Telling(x)
    BY <2>1
  <2>3. f \in Pushed /\ f.to = "card" /\ f.id = x.id /\ f.mark = x.mark
    BY <1>5, <2>2 DEF Pushed
  <2>4. ASSUME NEW p \in Pages, Same(p)
        PROVE  /\ Common(Shown(p, f).cards) = Common(entries')
               /\ Shown(p, f).meter = turns' /\ Shown(p, f).todos = todos'
    <3>1. /\ Shown(p, f).cards = Patched(p.cards, x.id, x.mark) /\ Shown(p, f).meter = p.meter /\ Shown(p, f).todos = p.todos
      BY <2>3, Shows
    <3>2. p.cards \in Seq(Noted) /\ Common(p.cards) = Common(entries) /\ p.meter = turns /\ p.todos = todos
      BY <2>4 DEF Pages, Same
    <3>3. Common(Patched(p.cards, x.id, x.mark)) = Common(Patched(entries, x.id, x.mark))
      BY <3>2, <1>5, <1>8, Quieted
    <3> QED
      BY <3>1, <3>2, <3>3, <1>6
  <2> QED
    BY <1>2, <1>3, <1>4, <1>6, <1>8, <2>1, <2>2, <2>4, RecordsLive
<1> QED
  BY <1>12, <1>13

LEMMA SetTodosLive == ASSUME Inv, LiveInv, NEW a \in Asks \cup Modes, SetTodos(a) PROVE LiveInv'
<1>1. Voices /\ Paged
  BY DEF LiveInv
<1>2. a \in Asks
  BY <1>1, DoneByAsks DEF SetTodos
<1>3. script[a] # <<>> /\ Head(script[a]) \in Steps /\ Now(a) = Head(script[a]) /\ Now(a).do = "todos"
  BY Doings DEF SetTodos
<1>4. PICK x : x = Head(script[a])
  OBVIOUS
<1>5. Records(x) /\ x.call.id \in Nat /\ Telling(x) = [to |-> "todos", value |-> x.call.id]
  BY <1>3, <1>4, Contents DEF Records, Telling, Header
<1>6. /\ todos' = x.call.id /\ Then(a, <<>>) /\ UNCHANGED <<at, mode, crossed, tabs, turns, entries>>
  BY <1>3, <1>4 DEF SetTodos, core
<1>7. /\ Voices' /\ ~Soft(x) /\ ~Tells(x) /\ Telling(x) \in Frames
      /\ \A b \in Asks \cup Modes : b # a => script'[b] = script[b]
      /\ script'[a] # <<>> /\ Tells(Head(script'[a])) /\ Head(script'[a]).frame = Telling(x)
  BY <1>1, <1>2, <1>3, <1>4, <1>5, <1>6, NextTells
<1>8. entries' \in Seq(Noted) /\ todos' \in Nat
  BY <1>1, <1>5, <1>6 DEF Paged
<1>9. PICK f \in Frames : f = Telling(x)
  BY <1>7
<1>10. f \in Pushed /\ f.to = "todos" /\ f.value = x.call.id
  BY <1>5, <1>9 DEF Pushed
<1>11. ASSUME NEW p \in Pages, Same(p)
       PROVE  /\ Common(Shown(p, f).cards) = Common(entries')
              /\ Shown(p, f).meter = turns' /\ Shown(p, f).todos = todos'
  <2>1. /\ Shown(p, f).cards = p.cards /\ Shown(p, f).meter = p.meter /\ Shown(p, f).todos = x.call.id
    BY <1>10, Shows
  <2> QED
    BY <2>1, <1>6, <1>11 DEF Same
<1> QED
  BY <1>2, <1>3, <1>4, <1>6, <1>7, <1>8, <1>9, <1>11, RecordsLive

LEMMA MeterLive == ASSUME Inv, LiveInv, NEW a \in Asks \cup Modes, Meter(a) PROVE LiveInv'
<1>1. Voices /\ Paged
  BY DEF LiveInv
<1>2. a \in Asks
  BY <1>1, DoneByAsks DEF Meter
<1>3. script[a] # <<>> /\ Head(script[a]) \in Steps /\ Now(a) = Head(script[a]) /\ Now(a).do = "meter"
  BY Doings DEF Meter
<1>4. ~Soft(Head(script[a])) /\ ~Tells(Head(script[a])) /\ ~Records(Head(script[a])) /\ Head(script[a]).do # "idle"
  BY <1>3 DEF Soft, Tells, Records
<1>5. PICK f : f = Header("meter", turns + 1)
  OBVIOUS
<1>6. PICK y : y = SendStep(f)
  OBVIOUS
<1>7. /\ turns' = turns + 1 /\ turns \in Nat /\ Then(a, <<y>>) /\ UNCHANGED <<at, mode, crossed, tabs, todos, entries>>
  BY <1>5, <1>6 DEF Meter, core, Inv, Types
<1>8. f \in Frames /\ f \in Pushed /\ f.to = "meter" /\ f.value = turns + 1
  BY <1>5, <1>7 DEF Header, Frames, Pushed
<1>9. y \in Steps /\ y.do = "send" /\ y.frame = f
  BY <1>6, <1>8 DEF SendStep, Steps, Calm, Saying
<1>10. Tells(y) /\ ~Records(y)
  BY <1>8, <1>9 DEF Tells, Changes, Records
<1>11. <<y>> \in Seq(Steps) /\ Sound(<<y>>) /\ <<y>> # <<>> /\ Head(<<y>>) = y
  BY <1>8, <1>9, <1>10, OneGood
<1>12. PICK t \in Seq(Steps) : t = <<y>>
  BY <1>11
<1>13. /\ Voices' /\ script'[a] = t \o Tail(script[a])
       /\ \A b \in Asks \cup Modes : b # a => script'[b] = script[b]
  BY <1>1, <1>2, <1>3, <1>4, <1>7, <1>11, <1>12, VoicesWork
<1>14. script'[a] # <<>> /\ Head(script'[a]) = y
  <2>1. PICK s \in Seq(Steps) : s = script[a]
    BY DEF Inv, Types
  <2>2. PICK u : u = Tail(s)
    OBVIOUS
  <2>3. Good(u)
    BY <2>1, <2>2, <1>1, <1>2, <1>3, <1>4, TailSound, HeadTailProperties DEF Good, Voices
  <2>4. t \o u # <<>> /\ Head(t \o u) = y
    BY <2>3, <1>11, <1>12, JoinSound
  <2> QED
    BY <2>1, <2>2, <2>4, <1>13
<1>15. entries' \in Seq(Noted) /\ todos' \in Nat
  BY <1>1, <1>7 DEF Paged
<1>16. ASSUME NEW p \in Pages, Same(p)
       PROVE  /\ Common(Shown(p, f).cards) = Common(entries')
              /\ Shown(p, f).meter = turns' /\ Shown(p, f).todos = todos'
  <2>1. /\ Shown(p, f).cards = p.cards /\ Shown(p, f).meter = turns + 1 /\ Shown(p, f).todos = p.todos
    BY <1>8, Shows
  <2> QED
    BY <2>1, <1>7, <1>16 DEF Same
<1> QED
  BY <1>2, <1>3, <1>4, <1>7, <1>8, <1>9, <1>10, <1>13, <1>14, <1>15, <1>16, RecordsLive

\* A step of the handler that changes the mode: it has sent its frame.
LEMMA ModesStep ==
    ASSUME Inv, Voices, Modal, NEW a \in Modes, Doing(a, "send"), Then(a, <<>>), UNCHANGED <<at, mode, crossed>>
    PROVE  /\ Voices' /\ Modal' /\ script'[a] = Tail(script[a])
           /\ \A b \in Asks \cup Modes : b # a => script'[b] = script[b]
<1>1. script \in [Asks \cup Modes -> Seq(Steps)] /\ a \in Asks \cup Modes
  BY DEF Inv, Types
<1>2. script[a] # <<>> /\ Tail(script[a]) = <<Do("returned")>> /\ Head(script[a]).do = "send"
  BY ModesSend DEF Doing, Do
<1>3. script'[a] = Tail(script[a]) /\ \A b \in Asks \cup Modes : b # a => script'[b] = script[b]
  <2>1. Tail(script[a]) \in Seq(Steps)
    BY <1>1, <1>2, HeadTailProperties
  <2>2. <<>> \o Tail(script[a]) = Tail(script[a])
    BY <2>1, ConcatEmptySeq
  <2> QED
    BY <1>1, <2>2 DEF Then
<1>4. script'[a] = <<Do("returned")>>
  BY <1>2, <1>3
<1>5. ~Doing(a, "send")'
  <2>1. Head(<<Do("returned")>>) = Do("returned") /\ Do("returned").do = "returned"
    BY DEF Do
  <2> QED
    BY <1>4, <2>1 DEF Doing
<1>6. ASSUME NEW n \in Asks PROVE Sound(script'[n]) /\ (at'[n] \notin {"asked"} \cup Holding => Ends(script'[n]))
  <2>1. n # a
    BY Apart
  <2> QED
    BY <2>1, <1>3 DEF Voices
<1>7. ASSUME NEW h \in Modes PROVE Changing(script'[h])
  BY <1>3, <1>4 DEF Voices, Changing
<1>8. ASSUME NEW h \in Modes, Doing(h, "send")' PROVE Doing(h, "send") /\ script'[h] = script[h]
  <2>1. h # a
    BY <1>5, <1>8
  <2> QED
    BY <2>1, <1>3, <1>8 DEF Doing
<1>9. Modal'
  BY <1>8 DEF Modal
<1> QED
  BY <1>3, <1>6, <1>7, <1>9 DEF Voices

LEMMA SendLive == ASSUME Inv, LiveInv, NEW a \in Asks \cup Modes, Send(a) PROVE LiveInv'
<1>1. Voices /\ Modal /\ Paged /\ \A t \in Tabs : Follows(tabs[t])
  BY DEF LiveInv
<1>2. script[a] # <<>> /\ Head(script[a]) \in Steps /\ Now(a) = Head(script[a]) /\ Now(a).do = "send" /\ Doing(a, "send")
  BY Doings DEF Send
<1>3. PICK f \in Frames : f = Now(a).frame
  BY <1>2, Contents
<1>4. /\ Push(f) /\ Then(a, <<>>) /\ UNCHANGED <<at, entries, turns, todos, mode, crossed>>
  BY <1>3 DEF Send, own, core
<1>5. /\ Voices' /\ Modal' /\ script'[a] = Tail(script[a])
      /\ \A b \in Asks \cup Modes : b # a => script'[b] = script[b]
  <2>1. CASE a \in Asks
    <3>1. <<>> \in Seq(Steps) /\ Sound(<<>>)
      BY NoneGood DEF Good
    <3>2. /\ Voices' /\ script'[a] = <<>> \o Tail(script[a])
          /\ \A b \in Asks \cup Modes : b # a => script'[b] = script[b]
      BY <2>1, <3>1, <1>1, <1>2, <1>4, VoicesWork
    <3>3. Tail(script[a]) \in Seq(Steps)
      BY <1>2, HeadTailProperties DEF Inv, Types
    <3>4. script'[a] = Tail(script[a])
      BY <3>2, <3>3, ConcatEmptySeq
    <3>5. \A h \in Modes : script'[h] = script[h]
      BY <2>1, <3>2, Apart
    <3>6. Modal'
      BY <3>5, <1>1, <1>4, ModalKept
    <3> QED
      BY <3>2, <3>4, <3>6
  <2>2. CASE a \in Modes
    BY <2>2, <1>1, <1>2, <1>4, ModesStep
  <2> QED
    BY <2>1, <2>2
<1>6. crossed \in BOOLEAN /\ tabs \in [Tabs -> Pages] /\ f \in Pushed
  BY <1>1 DEF Paged, Pushed
<1>7. ASSUME NEW p \in Pages, Fits(p) PROVE Fits(Shown(p, f))'
  BY <1>1, <1>2, <1>3, <1>4, <1>5, <1>6, <1>7, SendFits
<1>8. tabs' \in [Tabs -> Pages] /\ \A t \in Tabs : Follows(tabs[t])'
  BY <1>1, <1>4, <1>6, <1>7, PushFollows
<1>9. Paged'
  BY <1>1, <1>4, <1>8 DEF Paged
<1> QED
  BY <1>5, <1>8, <1>9 DEF LiveInv

(* ---------------------- the steps that record nothing ------------------- *)

LEMMA Working ==
    ASSUME Inv, LiveInv, NEW a \in Asks \cup Modes, NEW what, Doing(a, what),
           what \in {"queue", "claim", "idle", "plan", "write", "shell", "scan", "wait"}
    PROVE  /\ a \in Asks /\ script[a] # <<>> /\ Head(script[a]) \in Steps /\ Now(a) = Head(script[a]) /\ Head(script[a]).do = what
           /\ Head(script[a]).do \notin {"note", "todos", "send", "returned"} /\ ~Records(Head(script[a]))
           /\ entries \in Seq(Noted)
<1>1. a \in Asks /\ Paged
  BY DoneByAsks DEF LiveInv
<1>2. script[a] # <<>> /\ Head(script[a]) \in Steps /\ Now(a) = Head(script[a]) /\ Now(a).do = what
  BY Doings
<1> QED
  BY <1>1, <1>2 DEF Records, Paged

LEMMA PlainLive ==
    ASSUME Inv, LiveInv, NEW a \in Asks \cup Modes,
           \/ QueueCard(a) \/ ClaimCard(a) \/ GoIdle(a) \/ CheckPlan(a) \/ Write(a) \/ StartShell(a)
           \/ ShellRead(a) \/ ShellLongLine(a) \/ ShellDone(a)
    PROVE  LiveInv'
<1>1. UNCHANGED <<at, turns, todos, mode, crossed, tabs, entries>>
  BY DEF QueueCard, ClaimCard, GoIdle, CheckPlan, Write, StartShell, ShellRead, ShellLongLine, ShellDone, own, core
<1>2. PICK what \in {"queue", "claim", "idle", "plan", "write", "shell", "scan", "wait"} : Doing(a, what)
  BY DEF QueueCard, ClaimCard, GoIdle, CheckPlan, Write, StartShell, ShellRead, ShellLongLine, ShellDone
<1>3. /\ a \in Asks /\ script[a] # <<>> /\ Head(script[a]) \in Steps /\ Now(a) = Head(script[a]) /\ Head(script[a]).do = what
      /\ Head(script[a]).do \notin {"note", "todos", "send", "returned"} /\ ~Records(Head(script[a]))
      /\ entries \in Seq(Noted)
  BY <1>2, Working
<1>4. /\ what = "claim" => Now(a).call \in Called /\ Now(a).call.name # "other"
      /\ what = "plan" => Now(a).call \in Risky /\ Now(a).card \in Nat
      /\ what \in {"write", "shell"} => Now(a).card \in Nat
  BY <1>3, Fields
<1>5. \E t : Good(t) /\ (t = <<>> \/ what # "idle") /\ Then(a, t)
  <2>1. CASE QueueCard(a) \/ GoIdle(a)
    BY <2>1, NoneGood DEF QueueCard, GoIdle
  <2>2. CASE ClaimCard(a)
    <3>1. what = "claim"
      BY <2>2, <1>3 DEF ClaimCard, Doing
    <3>2. PICK card : /\ card = IF pending[Now(a).call.name] = <<>> THEN 0 ELSE Head(pending[Now(a).call.name])
                      /\ Then(a, WithCard(Now(a).call, card))
      BY <2>2 DEF ClaimCard
    <3>3. card \in Nat
      <4>1. pending[Now(a).call.name] \in Seq(Nat)
        BY <1>4, <3>1 DEF Inv, Types, Called
      <4> QED
        BY <3>2, <4>1, HeadTailProperties
    <3>4. Good(WithCard(Now(a).call, card))
      BY <1>4, <3>1, <3>3, ToolGood
    <3> QED
      BY <3>1, <3>2, <3>4
  <2>3. CASE CheckPlan(a)
    <3>1. what = "plan"
      BY <2>3, <1>3 DEF CheckPlan, Doing
    <3>2. Then(a, Fail(Now(a).card)) \/ Then(a, <<[do |-> Now(a).call.name, card |-> Now(a).card]>>)
      BY <2>3 DEF CheckPlan
    <3>3. Good(Fail(Now(a).card)) /\ Good(<<[do |-> Now(a).call.name, card |-> Now(a).card]>>)
      BY <1>4, <3>1, DrawGood, ArmedGood DEF Risky
    <3> QED
      BY <3>1, <3>2, <3>3
  <2>4. CASE Write(a)
    <3>1. what = "write"
      BY <2>4, <1>3 DEF Write, Doing
    <3>2. Then(a, Fail(Now(a).card)) \/ Then(a, ShowDiff(Now(a).card))
      BY <2>4 DEF Write
    <3> QED
      BY <3>1, <3>2, <1>4, DrawGood
  <2>5. CASE StartShell(a)
    <3>1. what = "shell"
      BY <2>5, <1>3 DEF StartShell, Doing
    <3>2. Then(a, Fail(Now(a).card)) \/ Then(a, <<Do("scan")>>)
      BY <2>5 DEF StartShell
    <3>3. Good(Fail(Now(a).card)) /\ Good(<<Do("scan")>>)
      BY <3>1, <1>4, DrawGood, DoGood
    <3> QED
      BY <3>1, <3>2, <3>3
  <2>6. CASE ShellRead(a) \/ ShellLongLine(a)
    <3>1. what = "scan"
      BY <2>6, <1>3 DEF ShellRead, ShellLongLine, Doing
    <3>2. Then(a, <<Do("wait")>>) /\ Good(<<Do("wait")>>)
      BY <2>6, DoGood DEF ShellRead, ShellLongLine
    <3> QED
      BY <3>1, <3>2
  <2>7. CASE ShellDone(a)
    <3>1. what = "wait"
      BY <2>7, <1>3 DEF ShellDone, Doing
    <3>2. PICK kind \in {"write", "deny"} : Then(a, FinishShell(shell.card, kind))
      BY <2>7 DEF ShellDone
    <3>3. shell.card \in Nat /\ kind \in Marks \ {"out"}
      BY <3>2 DEF Inv, Types, ShellStates, Marks
    <3>4. Good(FinishShell(shell.card, kind))
      BY <3>3, DrawGood
    <3> QED
      BY <3>1, <3>2, <3>4
  <2> QED
    BY <2>1, <2>2, <2>3, <2>4, <2>5, <2>6, <2>7
<1>6. PICK t : Good(t) /\ (t = <<>> \/ what # "idle") /\ Then(a, t)
  BY <1>5
<1>7. entries' \in Seq(Noted) /\ Common(entries') = Common(entries)
  BY <1>1, <1>3
<1> QED
  BY <1>1, <1>3, <1>6, <1>7, WorksLive

\* A line of output is told, and not recorded before the command is done.
LEMMA ShellLineLive == ASSUME Inv, LiveInv, NEW a \in Asks, ShellLine(a) PROVE LiveInv'
<1>1. Voices /\ Modal /\ Paged
  BY DEF LiveInv
<1>2. UNCHANGED <<at, turns, todos, mode, crossed, tabs, entries>>
  BY DEF ShellLine, own, core
<1>3. /\ script[a] # <<>> /\ Head(script[a]).do = "scan" /\ entries \in Seq(Noted)
  <2>1. a \in Asks \cup Modes /\ Doing(a, "scan")
    BY DEF ShellLine
  <2> QED
    BY <2>1, Working
<1>4. PICK t \in {<<>>, <<SendStep(Patch(shell.card, "out"))>>} : script' = [script EXCEPT ![a] = t \o @]
  BY DEF ShellLine
<1>5. Good(t)
  BY <1>4, NoneGood, SoftGood DEF Inv, Types, ShellStates
<1>6. ~Soft(Head(script[a])) /\ ~Tells(Head(script[a]))
  BY <1>3 DEF Soft, Tells
<1>7. /\ Voices' /\ Good(script'[a]) /\ \A b \in Asks \cup Modes : b # a => script'[b] = script[b]
  BY <1>1, <1>2, <1>3, <1>4, <1>5, <1>6, VoicesSay
<1>8. PICK r : r = script'[a]
  OBVIOUS
<1>9. ~Untold(a) /\ ~Untold(a)'
  BY <1>6, <1>7, <1>8, NotUntold DEF Untold
<1>10. \A h \in Modes : script'[h] = script[h]
  BY <1>7, Apart
<1>11. Modal'
  BY <1>1, <1>2, <1>10, ModalKept
<1>12. entries' \in Seq(Noted) /\ Common(entries') = Common(entries)
  BY <1>2, <1>3
<1>13. \A n \in Asks : script'[n] = script[n] \/ (~Untold(n) /\ ~Untold(n)')
  BY <1>7, <1>9
<1> QED
  BY <1>2, <1>7, <1>10, <1>11, <1>12, <1>13, LiveKept

(* ------------------------------- a prompt ------------------------------- *)

LEMMA MoveLive ==
    ASSUME Inv, LiveInv, NEW n \in Asks, ~Untold(n), NEW l \in Places, at' = [at EXCEPT ![n] = l], NEW r, Good(r),
           l \in {"asked"} \cup Holding \/ Closes(r), script' = [script EXCEPT ![n] = r],
           UNCHANGED <<entries, turns, todos, mode, crossed, tabs>>
    PROVE  LiveInv'
<1>1. Voices /\ Modal /\ Paged
  BY DEF LiveInv
<1>2. Voices' /\ script'[n] = r /\ \A b \in Asks \cup Modes : b # n => script'[b] = script[b]
  BY <1>1, VoicesMove
<1>3. ~Untold(n)'
  BY <1>2, NotUntold
<1>4. \A h \in Modes : script'[h] = script[h]
  BY <1>2, Apart
<1>5. Modal'
  BY <1>1, <1>4, ModalKept
<1>6. entries' \in Seq(Noted) /\ Common(entries') = Common(entries)
  BY <1>1 DEF Paged
<1>7. \A m \in Asks : script'[m] = script[m] \/ (~Untold(m) /\ ~Untold(m)')
  BY <1>2, <1>3
<1> QED
  BY <1>2, <1>4, <1>5, <1>6, <1>7, LiveKept

LEMMA AskLive == ASSUME Inv, LiveInv, NEW n \in Asks, Ask(n) PROVE LiveInv'
<1>1. /\ ~busy /\ at' = [at EXCEPT ![n] = "asked"] /\ script' = [script EXCEPT ![n] = Tell("user") \o <<StopButton>>]
      /\ UNCHANGED <<entries, turns, todos, mode, crossed, tabs>>
  BY DEF Ask, Goes
<1>2. ~Untold(n)
  <2>1. ~Active(n) /\ Voices
    BY <1>1 DEF Inv, Gate, LiveInv
  <2> QED
    BY <2>1, UntoldSpeaks
<1>3. PICK r : r = Tell("user") \o <<StopButton>>
  OBVIOUS
<1>4. Good(r) /\ script' = [script EXCEPT ![n] = r]
  BY <1>1, <1>3, AskGood
<1> QED
  BY <1>1, <1>2, <1>4, MoveLive DEF Places

LEMMA PromptLive == ASSUME Inv, Inv', LiveInv, NEW n \in Asks, PromptSteps(n) \/ Response(n) \/ Final(n) \/ SendFails(n) PROVE LiveInv'
<1>1. script[n] = <<>> /\ ~Untold(n) /\ UNCHANGED <<entries, turns, todos, mode, crossed, tabs>>
  BY DEF PromptSteps, Prompt, Register, RunTool, ToolsDone, Response, Final, Leave, SendFails, At, own, Untold
<1>2. at \in [Asks -> Places] /\ script = [script EXCEPT ![n] = <<>>]
  BY <1>1, ScriptsAreFunctions DEF Inv, Types
<1>3. CASE Prompt(n)
  <2>1. at'[n] # "refused"
    BY DEF Inv, AskIsAdmitted
  <2>2. Goes(n, "begun") /\ UNCHANGED script
    BY <2>1, <1>2, <1>3 DEF Prompt, Goes
  <2>3. at' = [at EXCEPT ![n] = "begun"] /\ script' = [script EXCEPT ![n] = <<>>]
    BY <2>2, <1>2 DEF Goes
  <2> QED
    BY <2>3, <1>1, NoneGood, MoveLive DEF Places, Holding
<1>4. CASE Register(n) \/ ToolsDone(n)
  <2>1. at' = [at EXCEPT ![n] = "sending"] /\ script' = [script EXCEPT ![n] = <<>>]
    BY <1>2, <1>4 DEF Register, ToolsDone, Goes
  <2> QED
    BY <2>1, <1>1, NoneGood, MoveLive DEF Places, Holding
<1>5. CASE RunTool(n)
  <2>1. work # <<>> /\ work \in Seq(Called) /\ at[n] = "tools" /\ at' = at
    BY <1>5 DEF RunTool, At, Inv, Types
  <2>2. PICK call \in Called : call = Head(work)
    BY <2>1, HeadTailProperties
  <2>3. PICK r : r = ToolScript(call)
    OBVIOUS
  <2>4. Good(r) /\ script' = [script EXCEPT ![n] = r]
    BY <2>2, <2>3, <1>5, ToolGood DEF RunTool
  <2>5. at' = [at EXCEPT ![n] = "tools"]
    BY <2>1, <1>2
  <2> QED
    BY <2>4, <2>5, <1>1, MoveLive DEF Places, Holding
<1>6. CASE Response(n)
  <2>1. at' = [at EXCEPT ![n] = "tools"] /\ \E calls : work' = calls /\ script' = [script EXCEPT ![n] = AnnounceAll(calls)]
    BY <1>6 DEF Response, Goes
  <2>2. PICK calls : work' = calls /\ script' = [script EXCEPT ![n] = AnnounceAll(calls)]
    BY <2>1
  <2>3. work' \in Seq(Called)
    BY DEF Inv, Types
  <2>4. PICK r : r = AnnounceAll(calls)
    OBVIOUS
  <2>5. Good(r) /\ script' = [script EXCEPT ![n] = r]
    BY <2>2, <2>3, <2>4, AnnounceGood
  <2> QED
    BY <2>1, <2>5, <1>1, MoveLive DEF Places, Holding
<1>8. CASE Final(n)
  <2>1. at' = [at EXCEPT ![n] = "leaving"] /\ script' = [script EXCEPT ![n] = Tell("agent")]
    BY <1>8 DEF Final, Goes
  <2>2. PICK r : r = Tell("agent")
    OBVIOUS
  <2>3. Good(r) /\ script' = [script EXCEPT ![n] = r]
    BY <2>1, <2>2, EndGood
  <2> QED
    BY <2>1, <2>3, <1>1, MoveLive DEF Places, Holding
<1>7. CASE Leave(n) \/ SendFails(n)
  <2>1. at' = [at EXCEPT ![n] = "left"]
    BY <1>7 DEF Leave, SendFails, Goes
  <2>2. PICK r \in {Failed, Finish} : script' = [script EXCEPT ![n] = r]
    BY <1>7 DEF Leave, SendFails
  <2>3. Good(r) /\ Closes(r)
    BY EndGood
  <2> QED
    BY <2>1, <2>2, <2>3, <1>1, MoveLive DEF Places
<1> QED
  BY <1>3, <1>4, <1>5, <1>6, <1>7, <1>8 DEF PromptSteps

(* ------------------------------ the others ------------------------------ *)

LEMMA OutsideLive ==
    ASSUME LiveInv, UNCHANGED <<script, at, entries, turns, todos, mode, crossed, tabs>>
    PROVE  LiveInv'
<1>1. Voices /\ Modal /\ Paged
  BY DEF LiveInv
<1>2. Voices'
  BY <1>1 DEF Voices
<1>3. Modal'
  BY <1>1, ModalKept
<1>4. entries' \in Seq(Noted) /\ Common(entries') = Common(entries)
  BY <1>1 DEF Paged
<1> QED
  BY <1>2, <1>3, <1>4, LiveKept

\* A card that says the agent is busy changes nothing the pages are compared by.
LEMMA BusyFits == ASSUME Inv, NEW p \in Pages, Fits(p), NEW f \in Pushed, f.to = "busy" PROVE Fits(Shown(p, f))
<1>1. PICK x \in Pages : x = Shown(p, f)
  BY Shows
<1>2. Alike(x, p) /\ x.mode = p.mode
  BY <1>1, ShowsAlike, Shows DEF Changes
<1>3. ASSUME NEW y, NEW z, Alike(y, z) PROVE Same(y) <=> Same(z)
  BY <1>3 DEF Alike, Same
<1>4. ASSUME NEW n \in Asks, Untold(n) PROVE Same(Shown(x, Head(script[n]).frame))
  <2>1. Head(script[n]) \in Steps /\ Head(script[n]).do = "send"
    <3>1. script[n] # <<>> /\ Tells(Head(script[n]))
      BY <1>4 DEF Untold
    <3>2. script[n] \in Seq(Steps)
      BY DEF Inv, Types
    <3> QED
      BY <3>1, <3>2, HeadTailProperties DEF Tells
  <2>2. PICK g \in Pushed : g = Head(script[n]).frame
    BY <2>1, Contents DEF Pushed
  <2>3. Same(Shown(p, g))
    BY <1>4, <2>2 DEF Fits
  <2>4. Alike(Shown(x, g), Shown(p, g))
    BY <1>2, ShowsAlike
  <2> QED
    BY <2>2, <2>3, <2>4, <1>3
<1>5. ASSUME \A n \in Asks : ~Untold(n) PROVE Same(x)
  BY <1>5, <1>2, <1>3 DEF Fits
<1>6. Fits(x)
  BY <1>2, <1>4, <1>5 DEF Fits
<1> QED
  BY <1>1, <1>6

LEMMA AskBusyLive == ASSUME Inv, LiveInv, AskBusy PROVE LiveInv'
<1>1. Voices /\ Modal /\ Paged /\ \A t \in Tabs : Follows(tabs[t])
  BY DEF LiveInv
<1>2. PICK f : f = Header("busy", 0)
  OBVIOUS
<1>3. Push(f) /\ UNCHANGED <<script, at, entries, turns, todos, mode, crossed>>
  BY <1>2 DEF AskBusy, own, core
<1>4. f \in Pushed /\ f.to = "busy"
  BY <1>2 DEF Header, Pushed
<1>6. ASSUME NEW p \in Pages, Fits(p) PROVE Fits(Shown(p, f))'
  <2>1. PICK x : x = Shown(p, f)
    OBVIOUS
  <2>2. Fits(x)
    BY <2>1, <1>4, <1>6, BusyFits
  <2>3. crossed \in BOOLEAN
    BY <1>1 DEF Paged
  <2>4. \A h \in Modes : Doing(h, "send") => Doing(h, "send")'
    BY <1>3 DEF Doing
  <2>5. Fits(x)'
    BY <2>2, <2>3, <2>4, <1>3, FitsKept
  <2> QED
    BY <2>1, <2>5
<1>7. tabs' \in [Tabs -> Pages] /\ \A t \in Tabs : Follows(tabs[t])'
  BY <1>1, <1>3, <1>4, <1>6, PushFollows DEF Paged
<1>8. Voices' /\ Modal' /\ Paged'
  <2>1. Voices'
    BY <1>1, <1>3 DEF Voices
  <2>2. Modal'
    BY <1>1, <1>3, ModalKept
  <2>3. Paged'
    BY <1>1, <1>3, <1>7 DEF Paged
  <2> QED
    BY <2>1, <2>2, <2>3
<1> QED
  BY <1>7, <1>8 DEF LiveInv

\* The mode changes: it is told next, and told alone unless two changes cross.
LEMMA SetModeLive == ASSUME Inv, LiveInv, NEW h \in Modes, NEW m \in {"plan", "act"}, SetMode(h, m) PROVE LiveInv'
<1>1. Voices /\ Modal /\ Paged /\ \A t \in Tabs : Follows(tabs[t])
  BY DEF LiveInv
<1>2. PICK r : r = <<SendStep(Header("mode", m)), Do("returned")>>
  OBVIOUS
<1>3. /\ script[h] = <<>> /\ script' = [script EXCEPT ![h] = r] /\ mode' = m
      /\ crossed' = (crossed \/ \E g \in Modes : Doing(g, "send"))
      /\ UNCHANGED <<at, entries, turns, todos, tabs>>
  BY <1>2 DEF SetMode, core
<1>4. script'[h] = r /\ \A b \in Asks \cup Modes : b # h => script'[b] = script[b]
  <2>1. script \in [Asks \cup Modes -> Seq(Steps)]
    BY DEF Inv, Types
  <2> QED
    BY <2>1, <1>3
<1>5. r # <<>> /\ Head(r).do = "send" /\ Head(r).frame = Header("mode", m) /\ Head(r).frame.value = m
  <2>1. r # <<>> /\ Head(r) = SendStep(Header("mode", m))
    BY <1>2
  <2> QED
    BY <2>1 DEF SendStep, Header
<1>6. Doing(h, "send")' /\ Head(script'[h]).frame.value = m
  BY <1>4, <1>5 DEF Doing
<1>7. Voices'
  <2>1. ASSUME NEW n \in Asks PROVE Sound(script'[n]) /\ (at'[n] \notin {"asked"} \cup Holding => Ends(script'[n]))
    <3>1. n # h
      BY Apart
    <3> QED
      BY <3>1, <1>1, <1>3, <1>4 DEF Voices
  <2>2. ASSUME NEW g \in Modes PROVE Changing(script'[g])
    BY <1>1, <1>2, <1>4 DEF Voices, Changing
  <2> QED
    BY <2>1, <2>2 DEF Voices
<1>8. Modal'
  <2>1. ASSUME ~crossed' PROVE \A g \in Modes : Doing(g, "send")' => g = h
    <3>1. \A g \in Modes : ~Doing(g, "send")
      BY <2>1, <1>3
    <3> QED
      BY <3>1, <1>4 DEF Doing
  <2> QED
    BY <2>1, <1>3, <1>6 DEF Modal
<1>9. \A n \in Asks : script'[n] = script[n]
  BY <1>4, Apart
<1>10. ASSUME NEW p \in Pages, Fits(p) PROVE Fits(p)'
  <2>1. ASSUME NEW q PROVE Same(q)' <=> Same(q)
    BY <1>3 DEF Same
  <2>2. ASSUME NEW n \in Asks, Untold(n)' PROVE Same(Shown(p, Head(script[n]).frame))'
    <3>1. Untold(n) /\ script'[n] = script[n]
      BY <2>2, <1>9 DEF Untold
    <3>2. PICK q : q = Shown(p, Head(script[n]).frame)
      OBVIOUS
    <3>3. Same(q)
      BY <3>1, <3>2, <1>10 DEF Fits
    <3>4. q = Shown(p, Head(script'[n]).frame)
      BY <3>1, <3>2
    <3> QED
      BY <3>3, <3>4, <2>1 DEF Same
  <2>3. ASSUME \A n \in Asks : ~Untold(n)' PROVE Same(p)'
    <3>1. \A n \in Asks : ~Untold(n)
      BY <2>3, <1>9 DEF Untold
    <3> QED
      BY <3>1, <2>1, <1>10 DEF Fits
  <2> QED
    BY <2>2, <2>3, <1>6 DEF Fits
<1>11. ASSUME NEW t \in Tabs PROVE Follows(tabs[t])'
  <2>1. PICK q \in Pages : q = tabs[t]
    BY <1>1 DEF Paged
  <2>2. Follows(q)'
    BY <2>1, <1>1, <1>10, FollowsKept
  <2> QED
    BY <2>1, <2>2, <1>3
<1>12. Paged'
  BY <1>1, <1>3 DEF Paged
<1> QED
  BY <1>7, <1>8, <1>11, <1>12 DEF LiveInv

(* --------------------------------- tabs --------------------------------- *)

LEMMA PageLive ==
    ASSUME LiveInv, NEW t \in Tabs, NEW q \in Pages, Follows(q), tabs' = [tabs EXCEPT ![t] = q],
           UNCHANGED <<script, at, entries, turns, todos, mode, crossed>>
    PROVE  LiveInv'
<1>1. Voices /\ Modal /\ Paged /\ \A u \in Tabs : Follows(tabs[u])
  BY DEF LiveInv
<1>2. Voices' /\ Modal' /\ Paged'
  <2>1. Voices'
    BY <1>1 DEF Voices
  <2>2. Modal'
    BY <1>1, ModalKept
  <2>3. Paged'
    BY <1>1 DEF Paged
  <2> QED
    BY <2>1, <2>2, <2>3
<1>3. ASSUME NEW p \in Pages, Fits(p) PROVE Fits(p)'
  <2>1. crossed \in BOOLEAN
    BY <1>1 DEF Paged
  <2>2. \A h \in Modes : Doing(h, "send") => Doing(h, "send")'
    BY DEF Doing
  <2> QED
    BY <2>1, <2>2, <1>3, FitsKept
<1>4. ASSUME NEW u \in Tabs PROVE Follows(tabs[u])'
  <2>1. PICK p \in Pages : p = tabs'[u] /\ Follows(p)
    BY <1>1 DEF Paged
  <2>2. Follows(p)'
    BY <2>1, <1>3, FollowsKept
  <2> QED
    BY <2>1, <2>2
<1> QED
  BY <1>2, <1>4 DEF LiveInv

\* A page that is made while nothing is being sent shows what is recorded.
LEMMA LoadPageLive == ASSUME Inv, LiveInv, NEW t \in Tabs, LoadPage(t) PROVE LiveInv'
<1>1. UNCHANGED <<script, at, entries, turns, todos, mode, crossed>>
  BY DEF LoadPage, own, core
<1>2. PICK q : q = IF Sending THEN Lost ELSE
                     [NoPage EXCEPT !.st = "loaded", !.cards = Rendered(entries), !.meter = turns, !.todos = todos, !.mode = mode]
  OBVIOUS
<1>3. tabs' = [tabs EXCEPT ![t] = q]
  BY <1>2 DEF LoadPage
<1>4. <<>> \in Seq(Noted) /\ <<>> \in Seq(Pushed) /\ Len(<<>>) = 0
  OBVIOUS
<1>5. CASE Sending
  <2>1. q = [st |-> "lost", cards |-> <<>>, busy |-> FALSE, meter |-> 0, todos |-> 0, mode |-> "act", queue |-> <<>>]
    BY <1>2, <1>5 DEF Lost, NoPage
  <2>2. q \in Pages /\ q.st = "lost"
    BY <2>1, <1>4 DEF Pages
  <2>3. Follows(q)
    BY <2>2 DEF Follows
  <2> QED
    BY <2>2, <2>3, <1>1, <1>3, PageLive
<1>6. CASE ~Sending
  <2>12. PICK c : c = Rendered(entries)
    OBVIOUS
  <2>13. c \in Seq(Noted) /\ Common(c) = Common(entries)
    BY <2>12, Renders DEF LiveInv, Paged
  <2>1. q = [st |-> "loaded", cards |-> c, busy |-> FALSE, meter |-> turns, todos |-> todos, mode |-> mode, queue |-> <<>>]
    BY <1>2, <1>6, <2>12 DEF NoPage
  <2>2. entries \in Seq(Noted) /\ turns \in Nat /\ todos \in Nat /\ mode \in {"plan", "act"}
    BY DEF LiveInv, Paged, Inv, Types
  <2>3. q \in Pages /\ q.queue = <<>> /\ q.cards = c /\ q.meter = turns /\ q.todos = todos /\ q.mode = mode
    BY <2>1, <2>2, <2>13, <1>4 DEF Pages
  <2>4. PICK b : b = Bare(q)
    OBVIOUS
  <2>5. b \in Pages /\ b.cards = c /\ b.meter = turns /\ b.todos = todos /\ b.mode = mode
    BY <2>3, <2>4, Bared
  <2>6. \A a \in Asks \cup Modes : ~Doing(a, "send")
    BY <1>6 DEF Sending, Inv, Types
  <2>7. \A n \in Asks : ~Untold(n)
    BY <2>6 DEF Untold, Tells, Doing
  <2>8. Fits(b)
    BY <2>5, <2>7, <2>13 DEF Fits, Same
  <2>9. PICK f : f = [i \in 0..0 |-> b]
    OBVIOUS
  <2>10. f \in [0..0 -> Pages] /\ f[0] = b /\ \A i \in 1..0 : f[i] = Shown(f[i - 1], q.queue[i])
    BY <2>5, <2>9
  <2>11. Follows(q)
    BY <2>3, <2>4, <2>8, <2>10, <1>4 DEF Follows
  <2> QED
    BY <2>3, <2>11, <1>1, <1>3, PageLive
<1> QED
  BY <1>5, <1>6

LEMMA SubscribeLive == ASSUME LiveInv, NEW t \in Tabs, Subscribe(t) PROVE LiveInv'
<1>1. UNCHANGED <<script, at, entries, turns, todos, mode, crossed>>
  BY DEF Subscribe, own, core
<1>2. PICK p \in Pages : p = tabs[t] /\ Follows(p)
  BY DEF LiveInv, Paged
<1>3. PICK q : q = [p EXCEPT !.st = "open"]
  OBVIOUS
<1>4. tabs' = [tabs EXCEPT ![t] = q] /\ p.st = "loaded"
  BY <1>2, <1>3 DEF Subscribe
<1>5. q = [st |-> "open", cards |-> p.cards, busy |-> p.busy, meter |-> p.meter, todos |-> p.todos, mode |-> p.mode, queue |-> p.queue]
  BY <1>3, PageFields
<1>6. q \in Pages /\ q.queue = p.queue
  BY <1>5 DEF Pages
<1>7. Bare(q) = Bare(p)
  BY <1>3, Bared
<1>8. Follows(q)
  BY <1>2, <1>4, <1>6, <1>7 DEF Follows
<1> QED
  BY <1>1, <1>4, <1>6, <1>8, PageLive

\* What is shown next is what was sent first.
LEMMA ShowLive == ASSUME LiveInv, NEW t \in Tabs, Show(t) PROVE LiveInv'
<1>1. UNCHANGED <<script, at, entries, turns, todos, mode, crossed>>
  BY DEF Show, own, core
<1>2. PICK p \in Pages : p = tabs[t] /\ Follows(p)
  BY DEF LiveInv, Paged
<1>3. p.st = "open" /\ p.queue # <<>> /\ p.queue \in Seq(Pushed)
  BY <1>2 DEF Show, Pages
<1>4. PICK w : w = p.queue
  OBVIOUS
<1>5. /\ Head(w) \in Pushed /\ Tail(w) \in Seq(Pushed) /\ Head(w) = w[1] /\ Len(w) \in Nat \ {0}
      /\ Len(Tail(w)) = Len(w) - 1 /\ \A i \in 1..Len(w) - 1 : Tail(w)[i] = w[i + 1]
  <2>1. w # <<>> /\ w \in Seq(Pushed)
    BY <1>3, <1>4
  <2>2. Len(w) \in Nat \ {0} /\ Head(w) = w[1]
    BY <2>1, EmptySeq
  <2> QED
    BY <2>1, <2>2, HeadTailProperties
<1>6. PICK g \in Pushed : g = Head(w)
  BY <1>5
<1>7. PICK r \in Pages : r = Shown(p, g)
  BY Shows
<1>8. r.st = "open" /\ r.queue = w
  BY <1>3, <1>4, <1>7, Shows
<1>9. PICK q : q = [r EXCEPT !.queue = Tail(w)]
  OBVIOUS
<1>10. tabs' = [tabs EXCEPT ![t] = q]
  <2>1. tabs' = [tabs EXCEPT ![t] = [Shown(tabs[t], Head(tabs[t].queue)) EXCEPT !.queue = Tail(tabs[t].queue)]]
    BY DEF Show
  <2>2. Shown(tabs[t], Head(tabs[t].queue)) = r
    BY <1>2, <1>4, <1>6, <1>7
  <2> QED
    BY <2>1, <2>2, <1>2, <1>4, <1>9
<1>11. q = [st |-> "open", cards |-> r.cards, busy |-> r.busy, meter |-> r.meter, todos |-> r.todos, mode |-> r.mode, queue |-> Tail(w)]
  BY <1>8, <1>9, PageFields
<1>12. q \in Pages /\ q.queue = Tail(w) /\ q.st = "open"
  BY <1>5, <1>11 DEF Pages
<1>13. Bare(q) = Shown(Bare(p), g)
  <2>1. \A x : Bare([Shown(p, g) EXCEPT !.queue = x]) = Shown(Bare(p), g)
    BY Bared
  <2>2. PICK x : x = Tail(w)
    OBVIOUS
  <2>3. Bare([r EXCEPT !.queue = x]) = Shown(Bare(p), g)
    BY <2>1, <1>7
  <2> QED
    BY <2>2, <2>3, <1>9
<1>14. PICK k \in Nat : Len(w) = k + 1
  <2>1. Len(w) - 1 \in Nat /\ Len(w) = (Len(w) - 1) + 1
    BY <1>5
  <2> QED
    BY <2>1
<1>15. Len(Tail(w)) = k /\ \A i \in 1..k : Tail(w)[i] = w[i + 1]
  BY <1>5, <1>14
<1>16. PICK f \in [0..k + 1 -> Pages] : /\ f[0] = Bare(p) /\ \A i \in 1..k + 1 : f[i] = Shown(f[i - 1], w[i])
                                        /\ Fits(f[k + 1])
  BY <1>2, <1>3, <1>4, <1>14 DEF Follows
<1>17. PICK e : e = [i \in 0..k |-> f[i + 1]]
  OBVIOUS
<1>18. e \in [0..k -> Pages]
  <2>1. \A i \in 0..k : i + 1 \in 0..k + 1
    OBVIOUS
  <2> QED
    BY <2>1, <1>16, <1>17
<1>19. e[0] = f[1] /\ e[k] = f[k + 1]
  BY <1>17
<1>20. f[1] = Shown(f[0], w[1])
  <2>1. 1 \in 1..k + 1 /\ 1 - 1 = 0
    OBVIOUS
  <2> QED
    BY <2>1, <1>16
<1>21. e[0] = Bare(q)
  BY <1>5, <1>6, <1>13, <1>16, <1>19, <1>20
<1>22. ASSUME NEW i \in 1..k PROVE e[i] = Shown(e[i - 1], Tail(w)[i])
  <2>1. i + 1 \in 1..k + 1 /\ (i + 1) - 1 = i /\ i \in 0..k /\ i - 1 \in 0..k /\ (i - 1) + 1 = i
    OBVIOUS
  <2>2. f[i + 1] = Shown(f[i], w[i + 1])
    BY <2>1, <1>16
  <2>3. e[i] = f[i + 1] /\ e[i - 1] = f[i]
    BY <2>1, <1>17
  <2> QED
    BY <2>2, <2>3, <1>15
<1>23. Fits(e[k])
  BY <1>16, <1>19
<1>24. Follows(q)
  BY <1>12, <1>15, <1>18, <1>21, <1>22, <1>23 DEF Follows
<1> QED
  BY <1>1, <1>10, <1>12, <1>24, PageLive

LEMMA InitLive == Init => LiveInv
<1> SUFFICES ASSUME Init PROVE LiveInv
  OBVIOUS
<1>1. \A a \in Asks \cup Modes : script[a] = <<>>
  BY DEF Init
<1>2. <<>> \in Seq(Noted) /\ <<>> \in Seq(Pushed)
  OBVIOUS
<1>3. NoPage \in Pages /\ NoPage.st = "none"
  BY <1>2 DEF NoPage, Pages
<1>4. Paged
  BY <1>2, <1>3 DEF Init, Paged
<1>5. Sound(<<>>) /\ Ends(<<>>)
  <2>1. Ends(<<>>)
    BY DEF Ends
  <2> QED
    BY <2>1, NoneGood DEF Good
<1>6. Voices
  BY <1>1, <1>5 DEF Voices, Changing
<1>7. Modal
  BY <1>1 DEF Modal, Doing
<1>8. ASSUME NEW t \in Tabs PROVE Follows(tabs[t])
  BY <1>3 DEF Init, Follows
<1> QED
  BY <1>4, <1>6, <1>7, <1>8 DEF LiveInv

LEMMA NextLive == Inv /\ Inv' /\ LiveInv /\ [Next]_vars => LiveInv'
<1> SUFFICES ASSUME Inv, Inv', LiveInv, [Next]_vars PROVE LiveInv'
  OBVIOUS
<1>1. ASSUME NEW a \in Asks \cup Modes, ScriptSteps(a) PROVE LiveInv'
  BY <1>1, SendLive, NoteLive, UpdateCardLive, SetTodosLive, MeterLive, PlainLive DEF ScriptSteps
<1>2. ASSUME NEW n \in Asks, PromptSteps(n) \/ Ask(n) \/ Response(n) \/ Final(n) \/ SendFails(n) \/ ShellLine(n) \/ ShellLongLine(n)
      PROVE  LiveInv'
  <2>1. n \in Asks \cup Modes
    OBVIOUS
  <2> QED
    BY <1>2, <2>1, PromptLive, AskLive, ShellLineLive, PlainLive
<1>3. ASSUME NEW h \in Modes, NEW m \in {"plan", "act"}, SetMode(h, m) PROVE LiveInv'
  BY <1>3, SetModeLive
<1>4. ASSUME \/ Interrupt \/ InterruptTurn \/ ShellDeadline \/ ShellKill \/ LeaderExits \/ ChildExits
             \/ UNCHANGED vars
      PROVE  LiveInv'
  <2>1. UNCHANGED <<script, at, entries, turns, todos, mode, crossed, tabs>>
    BY <1>4 DEF Interrupt, InterruptTurn, ShellDeadline, ShellKill, LeaderExits, ChildExits, vars, own, core
  <2> QED
    BY <2>1, OutsideLive
<1>5. ASSUME NEW t \in Tabs, LoadPage(t) \/ Subscribe(t) \/ Show(t) PROVE LiveInv'
  BY <1>5, LoadPageLive, SubscribeLive, ShowLive
<1> QED
  BY <1>1, <1>2, <1>3, <1>4, <1>5, AskBusyLive DEF Next

(* ------------------------- that every card settles ---------------------- *)

\* A step that notes a card, one by which a card is or will be settled, and which.
Lists(x) == x.do = "note" /\ x.entry.id # 0
Settles(x) == x.do \in {"plan", "write", "shell", "scan", "wait"} \/ (x.do = "set" /\ x.mark \in Settled)
Acts(x) == x.do = "claim" \/ Settles(x)
CardOf(x) == IF x.do = "set" THEN x.id ELSE IF x.do \in {"scan", "wait"} THEN shell.card ELSE x.card

ListSteps(s) == {i \in 1..Len(s) : Lists(s[i])}
ActSteps(s) == {i \in 1..Len(s) : Acts(s[i])}
Listing(s) == {s[i].entry.id : i \in ListSteps(s)}
Acting(s) == {s[i] : i \in ActSteps(s)}

\* A goroutine claims or settles one card at a time, and none before all are noted.
Single(s) ==
    /\ s \in Seq(Steps)
    /\ \A i, j \in ActSteps(s) : i = j
    /\ \A i, j \in ListSteps(s) : s[i].entry.id = s[j].entry.id => i = j
    /\ \A i \in ListSteps(s) : s[i].entry.marks = {}
    /\ Acting(s) = {} \/ Listing(s) = {}
Silent(s) == Single(s) /\ Acting(s) = {} /\ Listing(s) = {}
Pays(s, k) ==
    /\ Single(s) /\ Listing(s) = {}
    /\ \E x : Acting(s) = {x} /\ Settles(x) /\ x.do \notin {"scan", "wait"} /\ CardOf(x) = k

Debts(s) == {CardOf(x) : x \in {y \in Acting(s) : Settles(y)}}
Numbers(n) == Base(n) + 1..Base(n) + made[n]
Owing(n) == Debts(script[n])
Owed(k) == \E n \in Asks : k \in Owing(n)
Took(k) == \E c \in claims : c.card = k
Stands(k) == \E i \in 1..Len(entries) : entries[i].id = k

Alone ==
    \A a \in Asks \cup Modes :
        /\ Single(script[a])
        /\ Acting(script[a]) # {} \/ Listing(script[a]) # {} => a \in Asks /\ at[a] = "tools"

\* Every card of a turn is noted once, or will be.
Listed ==
    /\ \A i, j \in 1..Len(entries) : entries[i].id # 0 /\ entries[i].id = entries[j].id => i = j
    /\ \A i \in 1..Len(entries) : entries[i].id # 0 => \E n \in Asks : entries[i].id \in Numbers(n)
    /\ \A n \in Asks : \A k \in Listing(script[n]) : k \in Numbers(n) /\ ~Stands(k)
    /\ \A n \in Asks : \A k \in Numbers(n) : k \in Listing(script[n]) \/ Stands(k)

\* The cards that wait were not taken, and wait for one tool.
Unclaimed ==
    /\ \A m \in Names : \A i \in 1..Len(pending[m]) : ~Took(pending[m][i])
    /\ \A l, m \in Names : \A i \in 1..Len(pending[l]) : \A j \in 1..Len(pending[m]) : pending[l][i] = pending[m][j] => l = m

\* No card is taken twice.
Taken ==
    /\ \A c \in claims : Stands(c.card) /\ \E n \in Asks : c.card \in Numbers(n) /\ c.call \in Numbers(n)
    /\ \A c, d \in claims : c.card = d.card => c = d

\* A card that was taken is settled, or about to be.
Marked ==
    /\ \A i \in 1..Len(entries) : entries[i].id # 0 =>
          /\ Took(entries[i].id) => Owed(entries[i].id) \/ entries[i].marks \cap Settled # {}
          /\ entries[i].marks \cap Settled # {} => Took(entries[i].id) /\ ~Owed(entries[i].id)
          /\ \E m \in Settled : entries[i].marks \cap Settled \subseteq {m}
    /\ \A n \in Asks : \A k \in Owing(n) : Took(k) /\ k \in Numbers(n)
SettleInv == entries \in Seq(Noted) /\ Alone /\ Listed /\ Taken /\ Unclaimed /\ Marked

(* -------------------------------- scripts ------------------------------- *)

LEMMA ActsOrLists == ASSUME NEW x, Acts(x) PROVE ~Lists(x)
BY DEF Acts, Lists, Settles

LEMMA SingleOne ==
    ASSUME NEW x \in Steps, Lists(x) => x.entry.marks = {}
    PROVE  /\ Single(<<x>>)
           /\ Acts(x) => Acting(<<x>>) = {x} /\ Listing(<<x>>) = {}
           /\ Lists(x) => Acting(<<x>>) = {} /\ Listing(<<x>>) = {x.entry.id}
           /\ ~Acts(x) /\ ~Lists(x) => Silent(<<x>>)
<1>1. PICK s : s = <<x>>
  OBVIOUS
<1>2. s \in Seq(Steps) /\ Len(s) = 1 /\ s[1] = x /\ \A i \in 1..Len(s) : i = 1
  BY <1>1
<1>3. ActSteps(s) = IF Acts(x) THEN {1} ELSE {}
  BY <1>2 DEF ActSteps
<1>4. ListSteps(s) = IF Lists(x) THEN {1} ELSE {}
  BY <1>2 DEF ListSteps
<1>5. Acting(s) = IF Acts(x) THEN {x} ELSE {}
  BY <1>2, <1>3 DEF Acting
<1>6. Listing(s) = IF Lists(x) THEN {x.entry.id} ELSE {}
  BY <1>2, <1>4 DEF Listing
<1>7. Single(s)
  <2>1. \A i, j \in ActSteps(s) : i = j
    BY <1>3
  <2>2. /\ \A i, j \in ListSteps(s) : s[i].entry.id = s[j].entry.id => i = j
        /\ \A i \in ListSteps(s) : s[i].entry.marks = {}
    BY <1>2, <1>4
  <2>3. Acting(s) = {} \/ Listing(s) = {}
    BY <1>5, <1>6, ActsOrLists
  <2> QED
    BY <1>2, <2>1, <2>2, <2>3 DEF Single
<1> QED
  BY <1>1, <1>5, <1>6, <1>7, ActsOrLists DEF Silent

LEMMA NoneSilent == Silent(<<>>)
<1>1. ActSteps(<<>>) = {} /\ ListSteps(<<>>) = {} /\ <<>> \in Seq(Steps)
  BY DEF ActSteps, ListSteps
<1> QED
  BY <1>1 DEF Silent, Single, Acting, Listing

LEMMA SingleTail ==
    ASSUME NEW s, Single(s), s # <<>>, NEW x, x = Head(s), NEW u, u = Tail(s)
    PROVE  /\ Single(u) /\ x \in Steps /\ s \in Seq(Steps) /\ u \in Seq(Steps)
           /\ ~Lists(x) => Listing(u) = Listing(s)
           /\ ~Acts(x) => Acting(u) = Acting(s)
           /\ Acts(x) => Acting(s) = {x} /\ Listing(s) = {} /\ Silent(u)
           /\ Lists(x) => /\ x.entry.marks = {} /\ Listing(s) = Listing(u) \cup {x.entry.id} /\ x.entry.id \notin Listing(u)
                          /\ Acting(s) = {}
<1>1. s \in Seq(Steps) /\ u \in Seq(Steps) /\ x \in Steps
  BY HeadTailProperties DEF Single
<1>2. /\ Len(s) \in Nat \ {0} /\ x = s[1] /\ Len(u) = Len(s) - 1
      /\ \A i \in 1..Len(u) : u[i] = s[i + 1] /\ i + 1 \in 1..Len(s)
      /\ \A i \in 1..Len(s) : i = 1 \/ (i - 1 \in 1..Len(u) /\ u[i - 1] = s[i])
  <2>1. Len(s) \in Nat \ {0} /\ x = s[1] /\ Len(u) = Len(s) - 1 /\ \A i \in 1..Len(u) : u[i] = s[i + 1]
    BY <1>1, HeadTailProperties, EmptySeq
  <2>2. \A i \in 1..Len(u) : i + 1 \in 1..Len(s)
    BY <2>1
  <2>3. ASSUME NEW i \in 1..Len(s), i # 1 PROVE i - 1 \in 1..Len(u) /\ u[i - 1] = s[i]
    <3>1. i - 1 \in 1..Len(u) /\ (i - 1) + 1 = i
      BY <2>1, <2>3
    <3> QED
      BY <3>1, <2>1
  <2> QED
    BY <2>1, <2>2, <2>3
<1>3. /\ \A i \in ActSteps(u) : i + 1 \in ActSteps(s) /\ u[i] = s[i + 1] /\ i \in 1..Len(u)
      /\ \A i \in ListSteps(u) : i + 1 \in ListSteps(s) /\ u[i] = s[i + 1] /\ i \in 1..Len(u)
  BY <1>2 DEF ActSteps, ListSteps
<1>4. /\ \A i \in ActSteps(s) : i = 1 \/ (i - 1 \in ActSteps(u) /\ u[i - 1] = s[i])
      /\ \A i \in ListSteps(s) : i = 1 \/ (i - 1 \in ListSteps(u) /\ u[i - 1] = s[i])
  BY <1>2 DEF ActSteps, ListSteps
<1>5. (1 \in ActSteps(s) <=> Acts(x)) /\ (1 \in ListSteps(s) <=> Lists(x))
  BY <1>2 DEF ActSteps, ListSteps
<1>6. ASSUME NEW i \in ActSteps(u) PROVE u[i] \in Acting(s)
  BY <1>3 DEF Acting
<1>7. ASSUME NEW i \in ListSteps(u) PROVE u[i].entry.id \in Listing(s)
  BY <1>3 DEF Listing
<1>8. Acting(u) \subseteq Acting(s) /\ Listing(u) \subseteq Listing(s)
  BY <1>6, <1>7 DEF Acting, Listing
<1>9. ASSUME NEW y \in Acting(s) PROVE y \in Acting(u) \/ (y = x /\ Acts(x))
  <2>1. PICK i \in ActSteps(s) : y = s[i]
    BY <1>9 DEF Acting
  <2>2. CASE i = 1
    BY <2>1, <2>2, <1>2, <1>5
  <2>3. CASE i # 1
    BY <2>1, <2>3, <1>4 DEF Acting
  <2> QED
    BY <2>2, <2>3
<1>10. ASSUME NEW k \in Listing(s) PROVE k \in Listing(u) \/ (k = x.entry.id /\ Lists(x))
  <2>1. PICK i \in ListSteps(s) : k = s[i].entry.id
    BY <1>10 DEF Listing
  <2>2. CASE i = 1
    BY <2>1, <2>2, <1>2, <1>5
  <2>3. CASE i # 1
    BY <2>1, <2>3, <1>4 DEF Listing
  <2> QED
    BY <2>2, <2>3
<1>11. Single(u)
  <2>1. ASSUME NEW i \in ActSteps(u), NEW j \in ActSteps(u) PROVE i = j
    <3>1. i + 1 = j + 1
      BY <1>3 DEF Single
    <3> QED
      BY <3>1, <1>3
  <2>2. ASSUME NEW i \in ListSteps(u), NEW j \in ListSteps(u), u[i].entry.id = u[j].entry.id PROVE i = j
    <3>1. i + 1 = j + 1
      BY <2>2, <1>3 DEF Single
    <3> QED
      BY <3>1, <1>3
  <2>3. \A i \in ListSteps(u) : u[i].entry.marks = {}
    BY <1>3 DEF Single
  <2>4. Acting(u) = {} \/ Listing(u) = {}
    BY <1>8 DEF Single
  <2> QED
    BY <1>1, <2>1, <2>2, <2>3, <2>4 DEF Single
<1>12. ASSUME Acts(x) PROVE x \in Acting(s) /\ Acting(u) = {}
  <2>1. x \in Acting(s)
    BY <1>2, <1>5, <1>12 DEF Acting
  <2>2. ASSUME NEW i \in ActSteps(u) PROVE FALSE
    <3>1. i + 1 = 1
      BY <1>3, <1>5, <1>12 DEF Single
    <3> QED
      BY <3>1, <1>3
  <2> QED
    BY <2>1, <2>2 DEF Acting
<1>13. ASSUME Lists(x) PROVE x.entry.marks = {} /\ x.entry.id \in Listing(s) /\ x.entry.id \notin Listing(u)
  <2>1. x.entry.marks = {} /\ x.entry.id \in Listing(s)
    BY <1>2, <1>5, <1>13 DEF Single, Listing
  <2>2. ASSUME NEW i \in ListSteps(u), u[i].entry.id = x.entry.id PROVE FALSE
    <3>1. i + 1 = 1
      BY <2>2, <1>2, <1>3, <1>5, <1>13 DEF Single
    <3> QED
      BY <3>1, <1>3
  <2> QED
    BY <2>1, <2>2 DEF Listing
<1>14. ~Lists(x) => Listing(u) = Listing(s)
  BY <1>8, <1>10
<1>15. ~Acts(x) => Acting(u) = Acting(s)
  BY <1>8, <1>9
<1>16. Acts(x) => Acting(s) = {x} /\ Listing(s) = {} /\ Silent(u)
  BY <1>8, <1>9, <1>11, <1>12 DEF Single, Silent
<1>17. Lists(x) => Listing(s) = Listing(u) \cup {x.entry.id} /\ Acting(s) = {}
  BY <1>8, <1>10, <1>13 DEF Single
<1> QED
  BY <1>1, <1>11, <1>13, <1>14, <1>15, <1>16, <1>17

LEMMA SingleJoin ==
    ASSUME NEW t, NEW u, Single(t), Single(u), Silent(t) \/ Silent(u)
    PROVE  Single(t \o u) /\ Acting(t \o u) = Acting(t) \cup Acting(u) /\ Listing(t \o u) = Listing(t) \cup Listing(u)
<1>1. PICK s : s = t \o u
  OBVIOUS
<1>2. t \in Seq(Steps) /\ u \in Seq(Steps)
  BY DEF Single
<1>3. /\ s \in Seq(Steps) /\ Len(s) = Len(t) + Len(u) /\ Len(t) \in Nat /\ Len(u) \in Nat
      /\ \A i \in 1..Len(t) + Len(u) : s[i] = IF i <= Len(t) THEN t[i] ELSE u[i - Len(t)]
  BY <1>1, <1>2, ConcatProperties, LenProperties
<1>4. PICK l \in Nat : l = Len(t)
  BY <1>3
<1>5. ASSUME NEW i \in 1..Len(s)
      PROVE  (i \in 1..l /\ s[i] = t[i]) \/ (i - l \in 1..Len(u) /\ s[i] = u[i - l])
  BY <1>3, <1>4
<1>6. /\ \A i \in 1..l : i \in 1..Len(s) /\ s[i] = t[i]
      /\ \A i \in 1..Len(u) : l + i \in 1..Len(s) /\ s[l + i] = u[i]
  <2>1. \A i \in 1..l : i \in 1..Len(s) /\ s[i] = t[i]
    BY <1>3, <1>4
  <2>2. ASSUME NEW i \in 1..Len(u) PROVE l + i \in 1..Len(s) /\ s[l + i] = u[i]
    <3>1. l + i \in 1..Len(t) + Len(u) /\ ~(l + i <= Len(t)) /\ (l + i) - Len(t) = i
      BY <1>3, <1>4
    <3> QED
      BY <3>1, <1>3
  <2> QED
    BY <2>1, <2>2
<1>7. /\ \A i \in ActSteps(s) : (i \in ActSteps(t) /\ s[i] = t[i]) \/ (i - l \in ActSteps(u) /\ s[i] = u[i - l])
      /\ \A i \in ListSteps(s) : (i \in ListSteps(t) /\ s[i] = t[i]) \/ (i - l \in ListSteps(u) /\ s[i] = u[i - l])
  BY <1>4, <1>5 DEF ActSteps, ListSteps
<1>8. /\ \A i \in ActSteps(t) : i \in ActSteps(s) /\ s[i] = t[i]
      /\ \A i \in ListSteps(t) : i \in ListSteps(s) /\ s[i] = t[i]
      /\ \A i \in ActSteps(u) : l + i \in ActSteps(s) /\ s[l + i] = u[i]
      /\ \A i \in ListSteps(u) : l + i \in ListSteps(s) /\ s[l + i] = u[i]
  BY <1>4, <1>6 DEF ActSteps, ListSteps
<1>9. Acting(s) = Acting(t) \cup Acting(u)
  <2>1. ASSUME NEW i \in ActSteps(s) PROVE s[i] \in Acting(t) \cup Acting(u)
    BY <1>7 DEF Acting
  <2>2. ASSUME NEW i \in ActSteps(t) PROVE t[i] \in Acting(s)
    BY <1>8 DEF Acting
  <2>3. ASSUME NEW i \in ActSteps(u) PROVE u[i] \in Acting(s)
    BY <1>8 DEF Acting
  <2> QED
    BY <2>1, <2>2, <2>3 DEF Acting
<1>10. Listing(s) = Listing(t) \cup Listing(u)
  <2>1. ASSUME NEW i \in ListSteps(s) PROVE s[i].entry.id \in Listing(t) \cup Listing(u)
    BY <1>7 DEF Listing
  <2>2. ASSUME NEW i \in ListSteps(t) PROVE t[i].entry.id \in Listing(s)
    BY <1>8 DEF Listing
  <2>3. ASSUME NEW i \in ListSteps(u) PROVE u[i].entry.id \in Listing(s)
    BY <1>8 DEF Listing
  <2> QED
    BY <2>1, <2>2, <2>3 DEF Listing
<1>11. \A i \in ActSteps(s) \cup ListSteps(s) : i \in Int
  BY DEF ActSteps, ListSteps
<1>12. ActSteps(t) = {} \/ ActSteps(u) = {}
  BY DEF Silent, Acting
<1>13. ListSteps(t) = {} \/ ListSteps(u) = {}
  BY DEF Silent, Listing
<1>14. ASSUME NEW i \in ActSteps(s), NEW j \in ActSteps(s) PROVE i = j
  <2>1. CASE ActSteps(t) = {}
    <3>1. i - l = j - l
      BY <2>1, <1>7 DEF Single
    <3> QED
      BY <3>1, <1>11
  <2>2. CASE ActSteps(u) = {}
    BY <2>2, <1>7 DEF Single
  <2> QED
    BY <2>1, <2>2, <1>12
<1>15. ASSUME NEW i \in ListSteps(s), NEW j \in ListSteps(s), s[i].entry.id = s[j].entry.id PROVE i = j
  <2>1. CASE ListSteps(t) = {}
    <3>1. i - l = j - l
      BY <2>1, <1>7, <1>15 DEF Single
    <3> QED
      BY <3>1, <1>11
  <2>2. CASE ListSteps(u) = {}
    BY <2>2, <1>7, <1>15 DEF Single
  <2> QED
    BY <2>1, <2>2, <1>13
<1>16. \A i \in ListSteps(s) : s[i].entry.marks = {}
  BY <1>7 DEF Single
<1>17. Acting(s) = {} \/ Listing(s) = {}
  BY <1>9, <1>10 DEF Silent, Single
<1>18. Single(s)
  BY <1>3, <1>14, <1>15, <1>16, <1>17 DEF Single
<1> QED
  BY <1>1, <1>9, <1>10, <1>18
LEMMA PairJoins == ASSUME NEW x, NEW y PROVE <<x, y>> = <<x>> \o <<y>>
<1>1. <<x>> \o <<y>> = Append(<<x>>, y)
  OBVIOUS
<1>2. <<x, y>> = Append(<<x>>, y)
  OBVIOUS
<1> QED
  BY <1>1, <1>2

LEMMA TripleJoins == ASSUME NEW x, NEW y, NEW z PROVE <<x, y, z>> = (<<x>> \o <<y>>) \o <<z>>
<1>1. <<x, y>> \o <<z>> = Append(<<x, y>>, z)
  OBVIOUS
<1>2. <<x, y, z>> = Append(<<x, y>>, z)
  OBVIOUS
<1> QED
  BY <1>1, <1>2, PairJoins

LEMMA SilentJoin ==
    ASSUME NEW t, NEW u, Silent(t), Silent(u)
    PROVE  Silent(t \o u)
BY SingleJoin DEF Silent

LEMMA PaysJoin ==
    ASSUME NEW t, NEW u, NEW k, (Silent(t) /\ Pays(u, k)) \/ (Pays(t, k) /\ Silent(u))
    PROVE  Pays(t \o u, k)
<1>1. Single(t \o u) /\ Acting(t \o u) = Acting(t) \cup Acting(u) /\ Listing(t \o u) = Listing(t) \cup Listing(u)
  BY SingleJoin DEF Silent, Pays
<1>2. Listing(t \o u) = {} /\ (Acting(t \o u) = Acting(t) \/ Acting(t \o u) = Acting(u))
  BY <1>1 DEF Silent, Pays
<1>3. CASE Silent(t) /\ Pays(u, k)
  <2>1. Acting(t \o u) = Acting(u)
    BY <1>1, <1>3 DEF Silent
  <2> QED
    BY <1>1, <1>2, <1>3, <2>1 DEF Pays
<1>4. CASE Pays(t, k) /\ Silent(u)
  <2>1. Acting(t \o u) = Acting(t)
    BY <1>1, <1>4 DEF Silent
  <2> QED
    BY <1>1, <1>2, <1>4, <2>1 DEF Pays
<1> QED
  BY <1>3, <1>4

LEMMA SilentStep ==
    ASSUME NEW x \in Steps, x.do \notin {"claim", "plan", "write", "shell", "scan", "wait"},
           x.do = "set" => x.mark \notin Settled, x.do = "note" => x.entry.id = 0
    PROVE  Silent(<<x>>) /\ ~Acts(x) /\ ~Lists(x)
<1>1. ~Acts(x) /\ ~Lists(x)
  BY DEF Acts, Settles, Lists
<1> QED
  BY <1>1, SingleOne

LEMMA PaysStep ==
    ASSUME NEW x \in Steps, Settles(x), x.do \notin {"scan", "wait"}, NEW k, CardOf(x) = k
    PROVE  Pays(<<x>>, k)
<1>1. Acts(x) /\ ~Lists(x)
  BY ActsOrLists DEF Acts
<1>2. Single(<<x>>) /\ Acting(<<x>>) = {x} /\ Listing(<<x>>) = {}
  BY <1>1, SingleOne
<1> QED
  BY <1>2 DEF Pays

\* What a script that pays owes, whatever the shell does.
LEMMA PaysDebt ==
    ASSUME NEW t, NEW k, Pays(t, k)
    PROVE  Debts(t) = {k} /\ Debts(t)' = {k} /\ Single(t) /\ Listing(t) = {}
<1>1. PICK x : Acting(t) = {x} /\ Settles(x) /\ x.do \notin {"scan", "wait"} /\ CardOf(x) = k
  BY DEF Pays
<1>2. \A y \in Acting(t) : y = x
  BY <1>1
<1>3. CardOf(x)' = k
  BY <1>1 DEF CardOf
<1>4. Debts(t) = {k}
  BY <1>1 DEF Debts
<1>5. Debts(t)' = {k}
  BY <1>1, <1>3 DEF Debts
<1> QED
  BY <1>4, <1>5 DEF Pays

LEMMA SilentDebt == ASSUME NEW t, Silent(t) PROVE Debts(t) = {} /\ Debts(t)' = {} /\ Single(t) /\ Listing(t) = {} /\ Acting(t) = {}
BY DEF Debts, Silent

(* The scripts there are. *)
LEMMA SilentSends ==
    ASSUME NEW x \in Steps, x.do = "send"
    PROVE  Silent(<<x>>)
BY SilentStep

LEMMA TellSilent == ASSUME NEW kind \in Kinds PROVE Silent(Tell(kind))
<1>1. Entry(kind, 0) \in Noted /\ Entry(kind, 0).id = 0
  BY DEF Entry, Noted
<1>2. PICK x, y : x = NoteStep(kind, 0) /\ y = SendStep(Fragment(kind, 0))
  OBVIOUS
<1>3. x = [do |-> "note", entry |-> Entry(kind, 0)]
  BY <1>2 DEF NoteStep
<1>4. x \in Steps /\ x.do = "note" /\ x.entry.id = 0
  BY <1>1, <1>3 DEF Steps, Calm, Saying
<1>5. Fragment(kind, 0) \in Frames
  BY <1>1 DEF Fragment, Frames
<1>6. y = [do |-> "send", frame |-> Fragment(kind, 0)]
  BY <1>2 DEF SendStep
<1>7. y \in Steps /\ y.do = "send"
  BY <1>5, <1>6 DEF Steps, Calm, Saying
<1>8. Silent(<<x>>)
  BY <1>4, SilentStep
<1>9. Silent(<<y>>)
  BY <1>7, SilentSends
<1>10. <<x, y>> = <<x>> \o <<y>>
  BY PairJoins
<1>11. Silent(<<x, y>>)
  BY <1>8, <1>9, <1>10, SilentJoin
<1> QED
  BY <1>2, <1>11 DEF Tell

LEMMA PatchSends ==
    ASSUME NEW id \in Nat, NEW mark \in Marks
    PROVE  SendStep(Patch(id, mark)) \in Steps /\ SendStep(Patch(id, mark)).do = "send" /\ Silent(<<SendStep(Patch(id, mark))>>)
<1>1. PICK y : y = SendStep(Patch(id, mark))
  OBVIOUS
<1>2. Patch(id, mark) \in Frames
  BY DEF Patch, Frames
<1>3. y = [do |-> "send", frame |-> Patch(id, mark)]
  BY <1>1 DEF SendStep
<1>4. y \in Steps /\ y.do = "send"
  BY <1>2, <1>3 DEF Steps, Calm, Saying
<1> QED
  BY <1>1, <1>4, SilentSends

LEMMA PutPays ==
    ASSUME NEW id \in Nat, NEW mark \in Marks
    PROVE  /\ mark \notin Settled => Silent(<<SetStep(id, mark)>>) /\ Silent(Put(id, mark))
           /\ mark \in Settled => Pays(Put(id, mark), id)
<1>1. PICK x, y : x = SetStep(id, mark) /\ y = SendStep(Patch(id, mark))
  OBVIOUS
<1>2. x \in Steps /\ x.do = "set" /\ x.mark = mark
  BY <1>1, SetSteps
<1>3. x.id = id
  BY <1>1 DEF SetStep
<1>4. Silent(<<y>>)
  BY <1>1, PatchSends
<1>5. Put(id, mark) = <<x>> \o <<y>>
  BY <1>1 DEF Put
<1>6. ASSUME mark \notin Settled PROVE Silent(<<x>>)
  BY <1>2, <1>6, SilentStep
<1>7. ASSUME mark \in Settled PROVE Pays(<<x>>, id)
  <2>1. Settles(x) /\ CardOf(x) = id
    BY <1>2, <1>3, <1>7 DEF Settles, CardOf
  <2> QED
    BY <2>1, <1>2, PaysStep
<1>8. ASSUME mark \notin Settled PROVE Silent(<<x>> \o <<y>>)
  BY <1>4, <1>6, <1>8, SilentJoin
<1>9. ASSUME mark \in Settled PROVE Pays(<<x>> \o <<y>>, id)
  BY <1>4, <1>7, <1>9, PaysJoin
<1> QED
  BY <1>1, <1>5, <1>6, <1>8, <1>9

LEMMA DrawPays ==
    ASSUME NEW id \in Nat \ {0}
    PROVE  /\ \A mark \in Settled : Pays(Settle(id, mark), id)
           /\ Pays(ShowDiff(id), id) /\ Pays(Fail(id), id)
           /\ \A kind \in {"write", "deny"} : Pays(FinishShell(id, kind), id)
<1>1. Settled \subseteq Marks /\ {"note", "out", "exit", "diff"} \subseteq Marks \ Settled
  BY DEF Settled, Marks
<1>2. ASSUME NEW mark \in Settled PROVE Pays(Settle(id, mark), id)
  BY <1>1, PutPays DEF Settle
<1>3. Silent(Put(id, "diff")) /\ Silent(Put(id, "note"))
  BY <1>1, PutPays
<1>4. Pays(Settle(id, "write"), id) /\ Pays(Settle(id, "deny"), id)
  BY <1>2 DEF Settled
<1>5. Pays(ShowDiff(id), id) /\ Pays(Fail(id), id)
  <2>1. Pays(Put(id, "diff") \o Settle(id, "write"), id) /\ Pays(Put(id, "note") \o Settle(id, "deny"), id)
    BY <1>3, <1>4, PaysJoin
  <2> QED
    BY <2>1 DEF ShowDiff, Fail
<1>6. ASSUME NEW kind \in {"write", "deny"} PROVE Pays(FinishShell(id, kind), id)
  <2>1. PICK x, y, z : x = SetStep(id, "out") /\ y = SetStep(id, "exit") /\ z = SendStep(Patch(id, "exit"))
    OBVIOUS
  <2>2. Silent(<<x>>) /\ Silent(<<y>>)
    BY <2>1, <1>1, PutPays
  <2>3. Silent(<<z>>)
    BY <2>1, <1>1, PatchSends
  <2>4. Silent(<<x>> \o <<y>>)
    BY <2>2, SilentJoin
  <2>5. Silent((<<x>> \o <<y>>) \o <<z>>)
    BY <2>3, <2>4, SilentJoin
  <2>6. <<x, y, z>> = (<<x>> \o <<y>>) \o <<z>>
    BY TripleJoins
  <2>7. Silent(<<x, y, z>>)
    BY <2>5, <2>6
  <2>8. Pays(Settle(id, kind), id)
    BY <1>2 DEF Settled
  <2>9. Pays(<<x, y, z>> \o Settle(id, kind), id)
    BY <2>7, <2>8, PaysJoin
  <2> QED
    BY <2>1, <2>9 DEF FinishShell
<1> QED
  BY <1>2, <1>5, <1>6

LEMMA DoSilent == \A what \in {"idle", "meter", "returned"} : Silent(<<Do(what)>>)
<1>1. ASSUME NEW what \in {"idle", "meter", "returned"} PROVE Do(what) \in Steps /\ Do(what).do = what
  BY DEF Do, Steps, Calm, Saying, Idles
<1>2. ASSUME NEW what \in {"idle", "meter", "returned"} PROVE Silent(<<Do(what)>>)
  BY <1>1, SilentStep
<1> QED
  BY <1>2

LEMMA FrameSilent ==
    /\ Silent(<<StopButton>>)
    /\ \A v \in Nat : Silent(<<SendStep(Header("meter", v))>>) /\ Silent(<<SendStep(Header("todos", v))>>)
    /\ \A m \in {"plan", "act"} : Silent(<<SendStep(Header("mode", m))>>)
<1>1. \A f : SendStep(f).do = "send"
  BY DEF SendStep
<1>2. StopButton.do = "send"
  BY <1>1 DEF StopButton
<1>3. \A x \in Calm : x \in Steps
  BY DEF Steps
<1> QED
  BY <1>1, <1>2, <1>3, FrameSteps, SilentSends

LEMMA EndSilent ==
    /\ Silent(Failed) /\ Silent(Finish) /\ Silent(Tell("agent")) /\ Silent(Tell("user") \o <<StopButton>>)
    /\ \A m \in {"plan", "act"} : Silent(<<SendStep(Header("mode", m)), Do("returned")>>)
<1>1. Silent(Tell("error")) /\ Silent(Tell("agent")) /\ Silent(Tell("user"))
  BY TellSilent DEF Kinds
<1>2. PICK i, b : i = Do("idle") /\ b = StopButton
  OBVIOUS
<1>3. Idle = <<i>> \o <<b>>
  BY <1>2 DEF Idle
<1>4. Silent(<<i>>) /\ Silent(<<b>>)
  BY <1>2, DoSilent, FrameSilent
<1>5. Silent(Idle)
  BY <1>3, <1>4, SilentJoin
<1>6. Silent(<<Do("meter")>>)
  BY DoSilent
<1>7. Silent(Finish)
  BY <1>5, <1>6, SilentJoin DEF Finish
<1>8. Silent(Tell("error") \o Idle) /\ Silent(Tell("user") \o <<b>>)
  BY <1>1, <1>4, <1>5, <1>7, SilentJoin
<1>9. ASSUME NEW m \in {"plan", "act"} PROVE Silent(<<SendStep(Header("mode", m)), Do("returned")>>)
  <2>1. PICK x, y : x = SendStep(Header("mode", m)) /\ y = Do("returned")
    OBVIOUS
  <2>2. Silent(<<x>>) /\ Silent(<<y>>)
    BY <2>1, DoSilent, FrameSilent
  <2>3. <<x, y>> = <<x>> \o <<y>>
    BY PairJoins
  <2> QED
    BY <2>1, <2>2, <2>3, SilentJoin
<1> QED
  BY <1>1, <1>2, <1>7, <1>8, <1>9 DEF Failed

\* A tool claims its card, and does nothing else with cards.
LEMMA ToolSingle ==
    ASSUME NEW call \in Called
    PROVE  /\ Single(ToolScript(call)) /\ Listing(ToolScript(call)) = {} /\ Debts(ToolScript(call)) = {}
           /\ Debts(ToolScript(call))' = {}
<1>1. call.id \in Nat /\ call.name \in Names
  BY DEF Called
<1>2. ASSUME NEW t, Single(t), Listing(t) = {}, \A x \in Acting(t) : x.do = "claim"
      PROVE  Debts(t) = {} /\ Debts(t)' = {}
  BY <1>2 DEF Debts, Settles
<1>3. SUFFICES /\ Single(ToolScript(call)) /\ Listing(ToolScript(call)) = {}
               /\ \A x \in Acting(ToolScript(call)) : x.do = "claim"
  BY <1>2
<1>4. CASE call.name = "other"
  <2>1. Silent(Tell("deny"))
    BY TellSilent DEF Kinds
  <2>2. ToolScript(call) = Tell("deny")
    BY <1>4 DEF ToolScript
  <2> QED
    BY <2>1, <2>2 DEF Silent
<1>5. CASE call.name # "other" /\ ~call.decodes
  <2>1. ToolScript(call) = <<>>
    BY <1>5 DEF ToolScript
  <2> QED
    BY <2>1, NoneSilent DEF Silent
<1>6. PICK c : c = [do |-> "claim", call |-> call]
  OBVIOUS
<1>7. ASSUME call.name # "other"
      PROVE  Single(<<c>>) /\ Listing(<<c>>) = {} /\ \A x \in Acting(<<c>>) : x.do = "claim"
  <2>1. c \in [do : {"claim"}, call : {d \in Called : d.name # "other"}]
    BY <1>6, <1>7
  <2>2. c \in Steps /\ c.do = "claim"
    BY <2>1 DEF Steps, Tooling, Asking
  <2>3. Acts(c) /\ ~Lists(c)
    BY <2>2, ActsOrLists DEF Acts
  <2> QED
    BY <2>2, <2>3, SingleOne
<1>8. CASE call.name # "other" /\ call.decodes /\ call.name = "todo"
  <2>1. PICK x, y : x = [do |-> "todos", call |-> call] /\ y = SendStep(Header("todos", call.id))
    OBVIOUS
  <2>2. x \in [do : {"queue", "todos"}, call : Called]
    BY <2>1
  <2>3. x \in Steps /\ x.do = "todos"
    BY <2>1, <2>2 DEF Steps, Calm
  <2>4. Silent(<<x>>)
    BY <2>3, SilentStep
  <2>5. Silent(<<y>>)
    BY <2>1, <1>1, FrameSilent
  <2>6. Silent(<<x>> \o <<y>>)
    BY <2>4, <2>5, SilentJoin
  <2>7. ToolScript(call) = <<x, y, c>>
    BY <1>6, <1>8, <2>1 DEF ToolScript
  <2>8. <<x, y, c>> = (<<x>> \o <<y>>) \o <<c>>
    BY TripleJoins
  <2>9. PICK u : u = <<x>> \o <<y>>
    OBVIOUS
  <2>10. Single(u \o <<c>>) /\ Acting(u \o <<c>>) = Acting(u) \cup Acting(<<c>>) /\ Listing(u \o <<c>>) = Listing(u) \cup Listing(<<c>>)
    BY <2>6, <2>9, <1>7, <1>8, SingleJoin DEF Silent
  <2> QED
    BY <2>6, <2>7, <2>8, <2>9, <2>10, <1>7, <1>8 DEF Silent
<1>9. CASE call.name # "other" /\ call.decodes /\ call.name # "todo"
  <2>1. ToolScript(call) = <<c>>
    BY <1>6, <1>9 DEF ToolScript
  <2> QED
    BY <2>1, <1>7, <1>9
<1> QED
  BY <1>4, <1>5, <1>8, <1>9

LEMMA WithCardPays ==
    ASSUME NEW call \in Called, call.name # "other", NEW card \in Nat \ {0}
    PROVE  Pays(WithCard(call, card), card)
<1>1. CASE call.name \in {"read", "todo"}
  <2>1. Pays(Settle(card, "read"), card)
    BY DrawPays DEF Settled
  <2> QED
    BY <1>1, <2>1 DEF WithCard
<1>2. CASE call.name \notin {"read", "todo"}
  <2>1. call \in Risky
    BY <1>2 DEF Called, Risky, Names
  <2>2. PICK x : x = [do |-> "plan", call |-> call, card |-> card]
    OBVIOUS
  <2>3. x \in [do : {"plan"}, call : Risky, card : Nat]
    BY <2>1, <2>2
  <2>4. x \in Steps /\ x.do = "plan" /\ x.card = card
    BY <2>2, <2>3 DEF Steps, Tooling, Asking
  <2>5. Settles(x) /\ CardOf(x) = card
    BY <2>4 DEF Settles, CardOf
  <2>6. Pays(<<x>>, card)
    BY <2>4, <2>5, PaysStep
  <2> QED
    BY <1>2, <2>2, <2>6 DEF WithCard
<1> QED
  BY <1>1, <1>2

LEMMA ArmedPays ==
    ASSUME NEW name \in {"write", "shell"}, NEW card \in Nat
    PROVE  Pays(<<[do |-> name, card |-> card]>>, card)
<1>1. PICK x : x = [do |-> name, card |-> card]
  OBVIOUS
<1>2. x \in Armed
  BY <1>1 DEF Armed
<1>3. x \in Steps /\ x.do \in {"write", "shell"} /\ x.card = card
  BY <1>1, <1>2 DEF Steps, Tooling
<1>4. Settles(x) /\ CardOf(x) = card
  BY <1>3 DEF Settles, CardOf
<1> QED
  BY <1>1, <1>3, <1>4, PaysStep

\* The reader and the wait for a command settle its card.
LEMMA ShellOwes ==
    ASSUME NEW what \in {"scan", "wait"}
    PROVE  LET t == <<Do(what)>> IN
           Do(what) \in Steps /\ Do(what).do = what /\ Single(t) /\ Listing(t) = {} /\ Debts(t) = {shell.card} /\ Debts(t)' = {shell'.card}
<1>1. PICK x : x = Do(what)
  OBVIOUS
<1>2. x \in Steps /\ x.do = what
  BY <1>1 DEF Do, Steps, Calm, Saying
<1>3. Acts(x) /\ ~Lists(x) /\ Settles(x) /\ CardOf(x) = shell.card /\ CardOf(x)' = shell'.card
  BY <1>2 DEF Acts, Lists, Settles, CardOf
<1>4. Single(<<x>>) /\ Acting(<<x>>) = {x} /\ Listing(<<x>>) = {}
  BY <1>2, <1>3, SingleOne
<1>5. Debts(<<x>>) = {shell.card}
  BY <1>3, <1>4 DEF Debts
<1>6. Debts(<<x>>)' = {shell'.card}
  BY <1>3, <1>4 DEF Debts
<1> QED
  BY <1>1, <1>2, <1>4, <1>5, <1>6

\* A response notes every card once.
LEMMA AnnounceSingle ==
    ASSUME NEW calls \in Seq(Called), NEW k \in Nat, Len(calls) = k,
           \A i \in 1..k : calls[i].id # 0,
           \A i, j \in 1..k : calls[i].id = calls[j].id => i = j,
           NEW s, s = AnnounceAll(calls)
    PROVE  Single(s) /\ Acting(s) = {} /\ Debts(s) = {} /\ Debts(s)' = {} /\ Listing(s) = {calls[i].id : i \in 1..k}
<1>1. s \in Seq(Calm) /\ s \in Seq(Steps)
  BY Announcing, SeqMonotonic DEF Steps
<1>2. DOMAIN s = 1..3 * k /\ 3 * k \in Nat /\ Len(s) = 3 * k
  <2>1. DOMAIN s = 1..3 * k /\ 3 * k \in Nat
    BY DEF AnnounceAll
  <2> QED
    BY <2>1, <1>1, LenProperties
<1>3. ASSUME NEW i \in 1..3 * k
      PROVE  \E q \in 1..k, r \in 1..3 : i = 3 * (q - 1) + r /\ s[i] = Announce(calls[q])[r]
  <2>1. s[i] = Announce(calls[((i - 1) \div 3) + 1])[((i - 1) % 3) + 1]
    BY <1>2 DEF AnnounceAll
  <2> QED
    BY <2>1, Thirds
<1>4. ASSUME NEW c PROVE /\ Announce(c)[1].do = "queue" /\ Announce(c)[3].do = "send"
                         /\ Announce(c)[2].do = "note" /\ Announce(c)[2].entry.id = c.id /\ Announce(c)[2].entry.marks = {}
  BY DEF Announce, NoteStep, SendStep, Entry
<1>5. ASSUME NEW i \in 1..3 * k, NEW q \in 1..k, NEW r \in 1..3, s[i] = Announce(calls[q])[r]
      PROVE  /\ ~Acts(s[i])
             /\ Lists(s[i]) <=> r = 2
             /\ r = 2 => s[i].entry.id = calls[q].id /\ s[i].entry.marks = {}
  <2>1. PICK c : c = calls[q]
    OBVIOUS
  <2>2. PICK t : t = Announce(c)
    OBVIOUS
  <2>3. s[i] = t[r]
    BY <1>5, <2>1, <2>2
  <2>4. t[1].do = "queue" /\ t[3].do = "send" /\ t[2].do = "note" /\ t[2].entry.id = c.id /\ t[2].entry.marks = {} /\ c.id # 0
    BY <1>4, <2>1, <2>2
  <2>5. CASE r = 1
    BY <2>3, <2>4, <2>5 DEF Acts, Settles, Lists
  <2>6. CASE r = 3
    BY <2>3, <2>4, <2>6 DEF Acts, Settles, Lists
  <2>7. CASE r = 2
    BY <2>1, <2>3, <2>4, <2>7 DEF Acts, Settles, Lists
  <2> QED
    BY <2>5, <2>6, <2>7
<1>6. ASSUME NEW i \in ListSteps(s)
      PROVE  \E q \in 1..k : i = 3 * (q - 1) + 2 /\ s[i].entry.id = calls[q].id /\ s[i].entry.marks = {}
  <2>1. i \in 1..3 * k /\ Lists(s[i])
    BY <1>2 DEF ListSteps
  <2>2. PICK q \in 1..k, r \in 1..3 : i = 3 * (q - 1) + r /\ s[i] = Announce(calls[q])[r]
    BY <2>1, <1>3
  <2>3. (Lists(s[i]) <=> r = 2) /\ (r = 2 => s[i].entry.id = calls[q].id /\ s[i].entry.marks = {})
    BY <2>1, <2>2, <1>5
  <2> QED
    BY <2>1, <2>2, <2>3
<1>7. ActSteps(s) = {} /\ Acting(s) = {}
  <2>1. ASSUME NEW i \in 1..3 * k PROVE ~Acts(s[i])
    <3>1. PICK q \in 1..k, r \in 1..3 : i = 3 * (q - 1) + r /\ s[i] = Announce(calls[q])[r]
      BY <1>3
    <3> QED
      BY <3>1, <1>5
  <2> QED
    BY <2>1, <1>2 DEF ActSteps, Acting
<1>8. ASSUME NEW i \in ListSteps(s), NEW j \in ListSteps(s), s[i].entry.id = s[j].entry.id PROVE i = j
  <2>1. PICK p \in 1..k : i = 3 * (p - 1) + 2 /\ s[i].entry.id = calls[p].id
    BY <1>6
  <2>2. PICK q \in 1..k : j = 3 * (q - 1) + 2 /\ s[j].entry.id = calls[q].id
    BY <1>6
  <2>3. p = q
    BY <2>1, <2>2, <1>8
  <2> QED
    BY <2>1, <2>2, <2>3
<1>9. ASSUME NEW q \in 1..k PROVE calls[q].id \in Listing(s)
  <2>1. PICK i \in 1..3 * k : i = 3 * (q - 1) + 2
    OBVIOUS
  <2>2. PICK p \in 1..k, r \in 1..3 : i = 3 * (p - 1) + r /\ s[i] = Announce(calls[p])[r]
    BY <1>3
  <2>3. p = q /\ r = 2
    BY <2>1, <2>2
  <2>4. Lists(s[i]) /\ s[i].entry.id = calls[q].id
    BY <2>2, <2>3, <1>5
  <2>5. i \in ListSteps(s)
    BY <2>4, <1>2 DEF ListSteps
  <2> QED
    BY <2>4, <2>5 DEF Listing
<1>10. ASSUME NEW i \in ListSteps(s) PROVE s[i].entry.id \in {calls[q].id : q \in 1..k}
  BY <1>6
<1>11. Listing(s) = {calls[q].id : q \in 1..k}
  BY <1>9, <1>10 DEF Listing
<1>12. Single(s)
  BY <1>1, <1>6, <1>7, <1>8 DEF Single
<1>13. Debts(s) = {} /\ Debts(s)' = {}
  BY <1>7 DEF Debts
<1> QED
  BY <1>7, <1>11, <1>12, <1>13

LEMMA OneActs ==
    ASSUME Inv, Alone, NEW n \in Asks, at[n] = "tools", NEW b \in Asks \cup Modes, b # n
    PROVE  Acting(script[b]) = {} /\ Listing(script[b]) = {} /\ Debts(script[b]) = {}
<1>1. Active(n)
  BY DEF Active, Holding
<1>2. b \in Asks => at[b] # "tools"
  BY <1>1, OnlyOneRuns
<1>3. Acting(script[b]) = {} /\ Listing(script[b]) = {}
  BY <1>2 DEF Alone
<1>4. PICK s : s = script[b]
  OBVIOUS
<1>5. Acting(s) = {} /\ Debts(s) = {} /\ Debts(s)' = {}
  BY <1>3, <1>4 DEF Debts
<1> QED
  BY <1>3, <1>4, <1>5

\* What does not depend on how the scripts go on.
LEMMA SettleKept ==
    ASSUME SettleInv, UNCHANGED <<made, claims>>,
           entries' \in Seq(Noted), Len(entries') = Len(entries),
           \A i \in 1..Len(entries) : entries'[i].id = entries[i].id /\ entries'[i].marks \cap Settled = entries[i].marks \cap Settled,
           Unclaimed', Alone',
           \A n \in Asks : Listing(script'[n]) = Listing(script[n]) /\ Owing(n)' = Owing(n)
    PROVE  SettleInv'
<1>1. \A k : (Stands(k)' <=> Stands(k)) /\ (Took(k)' <=> Took(k)) /\ (Owed(k)' <=> Owed(k))
  <2>1. \A k : Stands(k)' <=> Stands(k)
    BY DEF Stands
  <2>2. \A k : Took(k)' <=> Took(k)
    BY DEF Took
  <2>3. \A k : Owed(k)' <=> Owed(k)
    BY DEF Owed
  <2> QED
    BY <2>1, <2>2, <2>3
<1>2. \A n \in Asks : Numbers(n)' = Numbers(n)
  BY DEF Numbers
<1>3. Listed'
  <2>1. \A i, j \in 1..Len(entries') : entries'[i].id # 0 /\ entries'[i].id = entries'[j].id => i = j
    BY DEF SettleInv, Listed
  <2>2. \A i \in 1..Len(entries') : entries'[i].id # 0 => \E n \in Asks : entries'[i].id \in Numbers(n)'
    BY <1>2 DEF SettleInv, Listed
  <2>3. \A n \in Asks : \A k \in Listing(script'[n]) : k \in Numbers(n)' /\ ~Stands(k)'
    BY <1>1, <1>2 DEF SettleInv, Listed
  <2>4. \A n \in Asks : \A k \in Numbers(n)' : k \in Listing(script'[n]) \/ Stands(k)'
    BY <1>1, <1>2 DEF SettleInv, Listed
  <2> QED
    BY <2>1, <2>2, <2>3, <2>4 DEF Listed
<1>4. Taken'
  <2>1. \A c \in claims' : Stands(c.card)' /\ \E n \in Asks : c.card \in Numbers(n)' /\ c.call \in Numbers(n)'
    BY <1>1, <1>2 DEF SettleInv, Taken
  <2>2. \A c, d \in claims' : c.card = d.card => c = d
    BY DEF SettleInv, Taken
  <2> QED
    BY <2>1, <2>2 DEF Taken
<1>5. Marked'
  <2>1. ASSUME NEW i \in 1..Len(entries'), entries'[i].id # 0
        PROVE  /\ (\E c \in claims' : c.card = entries'[i].id) =>
                     (\E n \in Asks : entries'[i].id \in Owing(n)') \/ entries'[i].marks \cap Settled # {}
               /\ entries'[i].marks \cap Settled # {} =>
                     (\E c \in claims' : c.card = entries'[i].id) /\ ~\E n \in Asks : entries'[i].id \in Owing(n)'
               /\ \E m \in Settled : entries'[i].marks \cap Settled \subseteq {m}
    <3>1. PICK k : k = entries[i].id
      OBVIOUS
    <3>2. k # 0 /\ entries'[i].id = k /\ entries'[i].marks \cap Settled = entries[i].marks \cap Settled /\ i \in 1..Len(entries)
      BY <3>1, <2>1
    <3>3. /\ Took(k) => Owed(k) \/ entries[i].marks \cap Settled # {}
          /\ entries[i].marks \cap Settled # {} => Took(k) /\ ~Owed(k)
          /\ \E m \in Settled : entries[i].marks \cap Settled \subseteq {m}
      BY <3>1, <3>2 DEF SettleInv, Marked
    <3>4. (Took(k) <=> \E c \in claims' : c.card = k) /\ (Owed(k) <=> \E n \in Asks : k \in Owing(n)')
      BY DEF Took, Owed
    <3> QED
      BY <3>2, <3>3, <3>4
  <2>2. \A n \in Asks : \A k \in Owing(n)' : Took(k)' /\ k \in Numbers(n)'
    BY <1>1, <1>2 DEF SettleInv, Marked
  <2> QED
    BY <2>1, <2>2 DEF Marked, Took, Owed
<1> QED
  BY <1>3, <1>4, <1>5 DEF SettleInv

\* A goroutine takes the first step of its script and has t to do before the rest.
LEMMA Deals ==
    ASSUME Inv, Alone, NEW a \in Asks \cup Modes, script[a] # <<>>, NEW x, x = Head(script[a]),
           NEW t, Single(t), Listing(t) = {}, Silent(t) \/ Acts(x), Then(a, t), UNCHANGED at
    PROVE  /\ Alone' /\ \A b \in Asks \cup Modes : b # a => script'[b] = script[b]
           /\ Acts(x) => /\ a \in Asks /\ at[a] = "tools" /\ Acting(script[a]) = {x} /\ Listing(script[a]) = {}
                         /\ Acting(script'[a]) = Acting(t) /\ Listing(script'[a]) = {}
           /\ ~Acts(x) => Acting(script'[a]) = Acting(script[a])
           /\ ~Lists(x) => Listing(script'[a]) = Listing(script[a])
           /\ Lists(x) => /\ a \in Asks /\ at[a] = "tools" /\ x.entry.marks = {} /\ x.entry.id \notin Listing(script'[a])
                          /\ Listing(script[a]) = Listing(script'[a]) \cup {x.entry.id}
<1>1. PICK s, u : s = script[a] /\ u = Tail(s)
  OBVIOUS
<1>2. Single(s) /\ s # <<>> /\ x = Head(s)
  BY <1>1 DEF Alone
<1>3. script \in [Asks \cup Modes -> Seq(Steps)]
  BY DEF Inv, Types
<1>4. script'[a] = t \o u /\ \A b \in Asks \cup Modes : b # a => script'[b] = script[b]
  <2>1. script' = [script EXCEPT ![a] = t \o Tail(script[a])]
    BY DEF Then
  <2> QED
    BY <2>1, <1>1, <1>3
<1>5. /\ Single(u)
      /\ ~Lists(x) => Listing(u) = Listing(s)
      /\ ~Acts(x) => Acting(u) = Acting(s)
      /\ Acts(x) => Acting(s) = {x} /\ Listing(s) = {} /\ Silent(u)
      /\ Lists(x) => /\ x.entry.marks = {} /\ Listing(s) = Listing(u) \cup {x.entry.id} /\ x.entry.id \notin Listing(u)
                     /\ Acting(s) = {}
  BY <1>1, <1>2, SingleTail
<1>6. Single(t \o u) /\ Acting(t \o u) = Acting(t) \cup Acting(u) /\ Listing(t \o u) = Listing(t) \cup Listing(u)
  BY <1>5, SingleJoin
<1>7. (~Acts(x) => Acting(t \o u) = Acting(s)) /\ (Acts(x) => Acting(t \o u) = Acting(t) /\ Listing(t \o u) = {})
  BY <1>5, <1>6 DEF Silent
<1>8. (~Lists(x) => Listing(t \o u) = Listing(s)) /\ (Lists(x) => Listing(t \o u) = Listing(u))
  BY <1>5, <1>6
<1>9. Acting(s) # {} \/ Listing(s) # {} => a \in Asks /\ at[a] = "tools"
  BY <1>1 DEF Alone
<1>10. Acting(t \o u) # {} \/ Listing(t \o u) # {} => Acting(s) # {} \/ Listing(s) # {}
  <2>1. CASE Acts(x)
    BY <2>1, <1>5
  <2>2. CASE ~Acts(x)
    BY <2>2, <1>5, <1>7, <1>8
  <2> QED
    BY <2>1, <2>2
<1>11. ASSUME NEW b \in Asks \cup Modes
       PROVE  Single(script'[b]) /\ (Acting(script'[b]) # {} \/ Listing(script'[b]) # {} => b \in Asks /\ at'[b] = "tools")
  <2>1. CASE b = a
    BY <2>1, <1>4, <1>6, <1>9, <1>10
  <2>2. CASE b # a
    BY <2>2, <1>4 DEF Alone
  <2> QED
    BY <2>1, <2>2
<1>12. Alone'
  BY <1>11 DEF Alone
<1>13. Acts(x) => a \in Asks /\ at[a] = "tools"
  BY <1>5, <1>9
<1>14. Lists(x) => a \in Asks /\ at[a] = "tools"
  BY <1>5, <1>9
<1>15. Lists(x) => Listing(t \o u) = Listing(u)
  BY <1>8
<1> QED
  BY <1>1, <1>4, <1>5, <1>7, <1>8, <1>12, <1>13, <1>14, <1>15

\* It does nothing with cards.
LEMMA KeepsDeal ==
    ASSUME Inv, SettleInv, NEW a \in Asks \cup Modes, script[a] # <<>>, NEW x, x = Head(script[a]), ~Acts(x), ~Lists(x),
           NEW t, Silent(t), Then(a, t), UNCHANGED at, shell'.card = shell.card
    PROVE  Alone' /\ \A n \in Asks : Listing(script'[n]) = Listing(script[n]) /\ Owing(n)' = Owing(n)
<1>1. /\ Alone' /\ \A b \in Asks \cup Modes : b # a => script'[b] = script[b]
      /\ Acting(script'[a]) = Acting(script[a]) /\ Listing(script'[a]) = Listing(script[a])
  BY Deals, SilentDebt DEF SettleInv
<1>2. \A b \in Asks \cup Modes : Acting(script'[b]) = Acting(script[b]) /\ Listing(script'[b]) = Listing(script[b])
  BY <1>1
<1>3. \A y : CardOf(y)' = CardOf(y)
  BY DEF CardOf
<1>4. \A n \in Asks : Owing(n)' = Owing(n)
  BY <1>2, <1>3 DEF Owing, Debts
<1> QED
  BY <1>1, <1>2, <1>4

\* It goes on with the card it has to settle.
LEMMA PayDeal ==
    ASSUME Inv, SettleInv, NEW a \in Asks \cup Modes, script[a] # <<>>, NEW x, x = Head(script[a]), Settles(x), ~Lists(x),
           NEW t, Single(t), Listing(t) = {}, Debts(t)' = {CardOf(x)}, Then(a, t), UNCHANGED at
    PROVE  Alone' /\ \A n \in Asks : Listing(script'[n]) = Listing(script[n]) /\ Owing(n)' = Owing(n)
<1>1. /\ Alone' /\ \A b \in Asks \cup Modes : b # a => script'[b] = script[b]
      /\ a \in Asks /\ at[a] = "tools" /\ Acting(script[a]) = {x} /\ Listing(script[a]) = {}
      /\ Acting(script'[a]) = Acting(t) /\ Listing(script'[a]) = {}
  BY Deals DEF SettleInv, Acts
<1>2. Owing(a) = {CardOf(x)}
  BY <1>1 DEF Owing, Debts
<1>3. Owing(a)' = Debts(t)'
  BY <1>1 DEF Owing, Debts
<1>4. ASSUME NEW n \in Asks, n # a PROVE Owing(n)' = Owing(n) /\ Listing(script'[n]) = Listing(script[n])
  <2>1. Acting(script[n]) = {} /\ script'[n] = script[n]
    BY <1>1, <1>4, OneActs DEF SettleInv
  <2>2. Acting(script'[n]) = {}
    BY <2>1
  <2> QED
    BY <2>1, <2>2 DEF Owing, Debts
<1> QED
  BY <1>1, <1>2, <1>3, <1>4

\* The card of a step that settles one.
LEMMA Owes ==
    ASSUME Inv, SettleInv, NEW a \in Asks \cup Modes, script[a] # <<>>, NEW x, x = Head(script[a]), Settles(x)
    PROVE  /\ a \in Asks /\ at[a] = "tools" /\ CardOf(x) \in Nat \ {0} /\ CardOf(x) \in Numbers(a) /\ Took(CardOf(x))
           /\ Owing(a) = {CardOf(x)} /\ ~Lists(x) /\ Listing(script[a]) = {}
<1>1. Acts(x) /\ ~Lists(x)
  BY ActsOrLists DEF Acts
<1>2. Single(script[a])
  BY DEF SettleInv, Alone
<1>3. Acting(script[a]) = {x} /\ Listing(script[a]) = {}
  BY <1>1, <1>2, SingleTail
<1>4. a \in Asks /\ at[a] = "tools"
  BY <1>3 DEF SettleInv, Alone
<1>5. Owing(a) = {CardOf(x)}
  BY <1>3 DEF Owing, Debts
<1>6. Took(CardOf(x)) /\ CardOf(x) \in Numbers(a)
  BY <1>4, <1>5 DEF SettleInv, Marked
<1>7. Base(a) \in Nat /\ made[a] \in Nat
  BY <1>4, Bases, Calls
<1> QED
  BY <1>1, <1>3, <1>4, <1>5, <1>6, <1>7 DEF Numbers

LEMMA EntriesKept ==
    ASSUME entries \in Seq(Noted), UNCHANGED entries
    PROVE  /\ entries' \in Seq(Noted) /\ Len(entries') = Len(entries)
           /\ \A i \in 1..Len(entries) : entries'[i].id = entries[i].id /\ entries'[i].marks \cap Settled = entries[i].marks \cap Settled
OBVIOUS

LEMMA UnclaimedKept ==
    ASSUME Unclaimed, UNCHANGED claims,
           \A m \in Names : \A i \in 1..Len(pending'[m]) : \E j \in 1..Len(pending[m]) : pending'[m][i] = pending[m][j]
    PROVE  Unclaimed'
<1>1. ASSUME NEW m \in Names, NEW i \in 1..Len(pending'[m]) PROVE ~\E c \in claims' : c.card = pending'[m][i]
  <2>1. PICK j \in 1..Len(pending[m]) : pending'[m][i] = pending[m][j]
    OBVIOUS
  <2>2. ~Took(pending[m][j])
    BY DEF Unclaimed
  <2> QED
    BY <2>1, <2>2 DEF Took
<1>2. ASSUME NEW l \in Names, NEW m \in Names, NEW i \in 1..Len(pending'[l]), NEW j \in 1..Len(pending'[m]),
             pending'[l][i] = pending'[m][j]
      PROVE  l = m
  <2>1. PICK p \in 1..Len(pending[l]) : pending'[l][i] = pending[l][p]
    OBVIOUS
  <2>2. PICK q \in 1..Len(pending[m]) : pending'[m][j] = pending[m][q]
    OBVIOUS
  <2> QED
    BY <2>1, <2>2, <1>2 DEF Unclaimed
<1> QED
  BY <1>1, <1>2 DEF Unclaimed, Took

LEMMA SettleWork ==
    ASSUME Inv, SettleInv, UNCHANGED <<made, claims, entries, pending>>, Alone',
           \A n \in Asks : Listing(script'[n]) = Listing(script[n]) /\ Owing(n)' = Owing(n)
    PROVE  SettleInv'
<1>1. Unclaimed'
  BY UnclaimedKept DEF SettleInv
<1> QED
  BY <1>1, SettleKept, EntriesKept DEF SettleInv

\* The steps that have nothing to do with cards.
LEMMA SaysSettle == ASSUME Inv, SettleInv, NEW a \in Asks \cup Modes, Send(a) \/ SetTodos(a) \/ Meter(a) PROVE SettleInv'
<1>1. PICK what \in {"send", "todos", "meter"} : Doing(a, what)
  BY DEF Send, SetTodos, Meter
<1>2. script[a] # <<>> /\ Head(script[a]).do = what
  BY <1>1 DEF Doing
<1>3. ~Acts(Head(script[a])) /\ ~Lists(Head(script[a]))
  BY <1>2 DEF Acts, Settles, Lists
<1>4. turns \in Nat
  BY DEF Inv, Types
<1>5. UNCHANGED <<made, claims, entries, pending, at, shell>>
  BY DEF Send, SetTodos, Meter, own, core, cmd
<1>6. \E t \in {<<>>, <<SendStep(Header("meter", turns + 1))>>} : Then(a, t)
  BY DEF Send, SetTodos, Meter
<1>7. PICK t : Silent(t) /\ Then(a, t)
  <2>1. turns + 1 \in Nat
    BY <1>4
  <2>2. Silent(<<SendStep(Header("meter", turns + 1))>>)
    BY <2>1, FrameSilent
  <2> QED
    BY <2>2, <1>6, NoneSilent
<1>8. Alone' /\ \A n \in Asks : Listing(script'[n]) = Listing(script[n]) /\ Owing(n)' = Owing(n)
  BY <1>2, <1>3, <1>5, <1>7, KeepsDeal
<1> QED
  BY <1>5, <1>8, SettleWork

LEMMA GoIdleSettle == ASSUME Inv, SettleInv, NEW a \in Asks \cup Modes, GoIdle(a) PROVE SettleInv'
<1>1. script[a] # <<>> /\ Head(script[a]).do = "idle"
  BY DEF GoIdle, Doing
<1>2. ~Acts(Head(script[a])) /\ ~Lists(Head(script[a]))
  BY <1>1 DEF Acts, Settles, Lists
<1>3. UNCHANGED <<made, claims, entries, at, shell>> /\ pending' = [n \in Names |-> <<>>] /\ Then(a, <<>>)
  BY DEF GoIdle, core, cmd
<1>4. Alone' /\ \A n \in Asks : Listing(script'[n]) = Listing(script[n]) /\ Owing(n)' = Owing(n)
  BY <1>1, <1>2, <1>3, NoneSilent, KeepsDeal
<1>5. \A m \in Names : Len(pending'[m]) = 0
  BY <1>3
<1>6. Unclaimed'
  BY <1>3, <1>5, UnclaimedKept DEF SettleInv
<1> QED
  BY <1>3, <1>4, <1>6, SettleKept, EntriesKept DEF SettleInv

LEMMA PlansSettle == ASSUME Inv, SettleInv, NEW a \in Asks \cup Modes, CheckPlan(a) \/ Write(a) PROVE SettleInv'
<1>1. PICK what \in {"plan", "write"} : Doing(a, what)
  BY DEF CheckPlan, Write
<1>2. PICK x : x = Head(script[a])
  OBVIOUS
<1>3. script[a] # <<>> /\ x \in Steps /\ Now(a) = x /\ x.do = what
  BY <1>1, <1>2, Doings
<1>4. PICK k : k = x.card
  OBVIOUS
<1>5. Settles(x) /\ CardOf(x) = k
  BY <1>3, <1>4 DEF Settles, CardOf
<1>6. k \in Nat \ {0} /\ ~Lists(x)
  BY <1>2, <1>3, <1>5, Owes
<1>7. UNCHANGED <<made, claims, entries, pending, at>>
  BY DEF CheckPlan, Write, own, core
<1>8. x.do = "plan" => x.call \in Risky /\ x.call.name \in {"write", "shell"}
  BY <1>3, Fields DEF Risky
<1>9. PICK t : Then(a, t) /\ Pays(t, k)
  <2>1. CASE CheckPlan(a)
    <3>1. x.do = "plan"
      BY <2>1, <1>2 DEF CheckPlan, Doing
    <3>2. Then(a, Fail(k)) \/ Then(a, <<[do |-> x.call.name, card |-> k]>>)
      BY <2>1, <1>3, <1>4 DEF CheckPlan
    <3>3. Pays(<<[do |-> x.call.name, card |-> k]>>, k)
      BY <3>1, <1>6, <1>8, ArmedPays
    <3> QED
      BY <3>2, <3>3, <1>6, DrawPays
  <2>2. CASE Write(a)
    <3>1. Then(a, Fail(k)) \/ Then(a, ShowDiff(k))
      BY <2>2, <1>3, <1>4 DEF Write
    <3> QED
      BY <3>1, <1>6, DrawPays
  <2> QED
    BY <2>1, <2>2
<1>10. Single(t) /\ Listing(t) = {} /\ Debts(t)' = {CardOf(x)}
  BY <1>5, <1>9, PaysDebt
<1>11. Alone' /\ \A n \in Asks : Listing(script'[n]) = Listing(script[n]) /\ Owing(n)' = Owing(n)
  BY <1>2, <1>3, <1>5, <1>6, <1>7, <1>9, <1>10, PayDeal
<1> QED
  BY <1>7, <1>11, SettleWork

LEMMA ShellSettle ==
    ASSUME Inv, SettleInv, NEW a \in Asks \cup Modes, StartShell(a) \/ ShellRead(a) \/ ShellLongLine(a) \/ ShellDone(a)
    PROVE  SettleInv'
<1>1. PICK what \in {"shell", "scan", "wait"} : Doing(a, what)
  BY DEF StartShell, ShellRead, ShellLongLine, ShellDone
<1>2. PICK x : x = Head(script[a])
  OBVIOUS
<1>3. script[a] # <<>> /\ x \in Steps /\ Now(a) = x /\ x.do = what
  BY <1>1, <1>2, Doings
<1>4. PICK k : k = CardOf(x)
  OBVIOUS
<1>5. Settles(x)
  BY <1>3 DEF Settles
<1>6. k \in Nat \ {0} /\ ~Lists(x)
  BY <1>2, <1>3, <1>4, <1>5, Owes
<1>7. UNCHANGED <<made, claims, entries, pending, at>>
  BY DEF StartShell, ShellRead, ShellLongLine, ShellDone, own, core
<1>8. PICK t : Then(a, t) /\ Single(t) /\ Listing(t) = {} /\ Debts(t)' = {k}
  <2>1. CASE StartShell(a)
    <3>1. x.do = "shell"
      BY <2>1, <1>2 DEF StartShell, Doing
    <3>2. x.card = k
      BY <3>1, <1>4 DEF CardOf
    <3>3. Then(a, Fail(k)) \/ \E c \in {"none", "pipe", "quiet"} :
            shell' = [Silence EXCEPT !.card = k, !.leader = TRUE, !.child = c, !.done = a \in cancelled] /\ Then(a, <<Do("scan")>>)
      BY <2>1, <3>2, <1>3 DEF StartShell
    <3>4. CASE Then(a, Fail(k))
      BY <3>4, <1>6, DrawPays, PaysDebt
    <3>5. ASSUME NEW c, shell' = [Silence EXCEPT !.card = k, !.leader = TRUE, !.child = c, !.done = a \in cancelled]
          PROVE  shell'.card = k
      BY <3>5 DEF Silence
    <3>6. CASE Then(a, <<Do("scan")>>) /\ shell'.card = k
      BY <3>6, ShellOwes
    <3> QED
      BY <3>3, <3>4, <3>5, <3>6
  <2>2. CASE ShellRead(a) \/ ShellLongLine(a)
    <3>1. x.do = "scan" /\ Then(a, <<Do("wait")>>) /\ shell' = shell
      BY <2>2, <1>2 DEF ShellRead, ShellLongLine, Doing, cmd
    <3>2. shell'.card = k
      BY <3>1, <1>4 DEF CardOf
    <3> QED
      BY <3>1, <3>2, ShellOwes
  <2>3. CASE ShellDone(a)
    <3>1. x.do = "wait"
      BY <2>3, <1>2 DEF ShellDone, Doing
    <3>2. shell.card = k
      BY <3>1, <1>4 DEF CardOf
    <3>3. PICK kind \in {"write", "deny"} : Then(a, FinishShell(k, kind))
      BY <2>3, <3>2 DEF ShellDone
    <3>4. Pays(FinishShell(k, kind), k)
      BY <1>6, DrawPays
    <3> QED
      BY <3>3, <3>4, PaysDebt
  <2> QED
    BY <2>1, <2>2, <2>3
<1>9. Alone' /\ \A n \in Asks : Listing(script'[n]) = Listing(script[n]) /\ Owing(n)' = Owing(n)
  BY <1>2, <1>3, <1>4, <1>5, <1>6, <1>7, <1>8, PayDeal
<1> QED
  BY <1>7, <1>9, SettleWork

LEMMA ShellLineSettle == ASSUME Inv, SettleInv, NEW a \in Asks, ShellLine(a) PROVE SettleInv'
<1>1. PICK t \in {<<>>, <<SendStep(Patch(shell.card, "out"))>>} : script' = [script EXCEPT ![a] = t \o @]
  BY DEF ShellLine
<1>2. shell \in ShellStates /\ shell.card \in Nat /\ script \in [Asks \cup Modes -> Seq(Steps)]
  BY DEF Inv, Types, ShellStates
<1>3. Silent(t)
  BY <1>1, <1>2, NoneSilent, PatchSends DEF Marks
<1>4. UNCHANGED <<made, claims, entries, pending, at>> /\ shell'.card = shell.card
  <2>1. shell' = [shell EXCEPT !.lines = 1]
    BY DEF ShellLine
  <2>2. shell'.card = shell.card
    BY <2>1, <1>2 DEF ShellStates
  <2> QED
    BY <2>2 DEF ShellLine, own, core
<1>5. script'[a] = t \o script[a] /\ \A b \in Asks \cup Modes : b # a => script'[b] = script[b]
  BY <1>1, <1>2
<1>6. Single(script[a])
  BY DEF SettleInv, Alone
<1>7. /\ Single(t \o script[a]) /\ Acting(t \o script[a]) = Acting(t) \cup Acting(script[a])
      /\ Listing(t \o script[a]) = Listing(t) \cup Listing(script[a])
  BY <1>3, <1>6, SingleJoin DEF Silent
<1>8. Single(script'[a]) /\ Acting(script'[a]) = Acting(script[a]) /\ Listing(script'[a]) = Listing(script[a])
  BY <1>3, <1>5, <1>7 DEF Silent
<1>9. \A b \in Asks \cup Modes : Single(script'[b]) /\ Acting(script'[b]) = Acting(script[b]) /\ Listing(script'[b]) = Listing(script[b])
  BY <1>5, <1>8 DEF SettleInv, Alone
<1>10. Alone'
  BY <1>4, <1>9 DEF SettleInv, Alone
<1>11. \A y : CardOf(y)' = CardOf(y)
  BY <1>4 DEF CardOf
<1>12. \A n \in Asks : Owing(n)' = Owing(n)
  BY <1>9, <1>11 DEF Owing, Debts
<1> QED
  BY <1>4, <1>9, <1>10, <1>12, SettleWork

\* A goroutine that has done its script gets another, which settles no card.
LEMMA SettleMove ==
    ASSUME Inv, SettleInv, NEW a \in Asks \cup Modes, Acting(script[a]) = {}, Listing(script[a]) = {},
           NEW r, Single(r), Listing(r) = {}, Debts(r)' = {}, Acting(r) = {} \/ (a \in Asks /\ at'[a] = "tools"),
           script' = [script EXCEPT ![a] = r], \A b \in Asks : b # a => at'[b] = at[b],
           UNCHANGED <<made, claims, entries, pending>>, shell'.card = shell.card
    PROVE  SettleInv'
<1>1. script \in [Asks \cup Modes -> Seq(Steps)]
  BY DEF Inv, Types
<1>2. script'[a] = r /\ \A b \in Asks \cup Modes : b # a => script'[b] = script[b]
  BY <1>1
<1>3. Acting(script[a]) = {} /\ Listing(script[a]) = {} /\ Debts(script[a]) = {}
  BY DEF Debts
<1>4. ASSUME NEW b \in Asks \cup Modes
      PROVE  Single(script'[b]) /\ (Acting(script'[b]) # {} \/ Listing(script'[b]) # {} => b \in Asks /\ at'[b] = "tools")
  <2>1. CASE b = a
    BY <2>1, <1>2
  <2>2. CASE b # a
    BY <2>2, <1>2 DEF SettleInv, Alone
  <2> QED
    BY <2>1, <2>2
<1>5. Alone'
  BY <1>4 DEF Alone
<1>6. \A n \in Asks : Listing(script'[n]) = Listing(script[n])
  BY <1>2, <1>3
<1>7. \A y : CardOf(y)' = CardOf(y)
  BY DEF CardOf
<1>8. ASSUME NEW n \in Asks PROVE Owing(n)' = Owing(n)
  <2>1. CASE n = a
    <3>1. Owing(n)' = Debts(r)'
      BY <2>1, <1>2 DEF Owing, Debts
    <3> QED
      BY <2>1, <3>1, <1>3 DEF Owing
  <2>2. CASE n # a
    BY <2>2, <1>2, <1>7 DEF Owing, Debts
  <2> QED
    BY <2>1, <2>2
<1> QED
  BY <1>5, <1>6, <1>8, SettleWork

LEMMA AsksMove ==
    ASSUME Inv, SettleInv, NEW n \in Asks,
           Ask(n) \/ Prompt(n) \/ Register(n) \/ ToolsDone(n) \/ Final(n) \/ Leave(n) \/ SendFails(n)
    PROVE  SettleInv'
<1>1. script \in [Asks \cup Modes -> Seq(Steps)] /\ at \in [Asks -> Places]
  BY DEF Inv, Types
<1>2. \E l : at' = [at EXCEPT ![n] = l]
  BY DEF Ask, Prompt, Register, ToolsDone, Final, Leave, SendFails, Goes
<1>3. \A b \in Asks : b # n => at'[b] = at[b]
  BY <1>1, <1>2
<1>4. UNCHANGED <<made, claims, entries, pending, shell>>
  BY DEF Ask, Prompt, Register, ToolsDone, Final, Leave, SendFails, own, cmd
<1>5. Acting(script[n]) = {} /\ Listing(script[n]) = {} /\ (script[n] = <<>> \/ Ask(n))
  <2>1. CASE Ask(n)
    <3>1. at[n] # "tools"
      BY <2>1 DEF Ask
    <3> QED
      BY <3>1, <2>1 DEF SettleInv, Alone
  <2>2. CASE script[n] = <<>>
    BY <2>2, NoneSilent, SilentDebt
  <2> QED
    BY <2>1, <2>2 DEF Prompt, Register, ToolsDone, Final, Leave, SendFails, At
<1>6. PICK r : Silent(r) /\ script' = [script EXCEPT ![n] = r]
  <2>1. script' = script /\ ~Ask(n) => script' = [script EXCEPT ![n] = <<>>]
    BY <1>1, <1>5
  <2>2. \/ (script' = script /\ ~Ask(n)) \/ script' = [script EXCEPT ![n] = Failed]
        \/ script' = [script EXCEPT ![n] = Finish] \/ script' = [script EXCEPT ![n] = Tell("agent")]
        \/ script' = [script EXCEPT ![n] = Tell("user") \o <<StopButton>>]
    <3>1. Ask(n) => script' = [script EXCEPT ![n] = Tell("user") \o <<StopButton>>]
      BY DEF Ask
    <3>2. ~Ask(n) => \/ script' = script \/ script' = [script EXCEPT ![n] = Failed]
                     \/ script' = [script EXCEPT ![n] = Finish] \/ script' = [script EXCEPT ![n] = Tell("agent")]
      BY DEF Prompt, Register, ToolsDone, Final, Leave, SendFails
    <3> QED
      BY <3>1, <3>2
  <2> QED
    BY <2>1, <2>2, NoneSilent, EndSilent
<1>7. Single(r) /\ Listing(r) = {} /\ Debts(r)' = {} /\ Acting(r) = {}
  BY <1>6, SilentDebt
<1> QED
  BY <1>3, <1>4, <1>5, <1>6, <1>7, SettleMove

LEMMA RunToolSettle == ASSUME Inv, SettleInv, NEW n \in Asks, RunTool(n) PROVE SettleInv'
<1>1. /\ at[n] = "tools" /\ script[n] = <<>> /\ work # <<>> /\ script' = [script EXCEPT ![n] = ToolScript(Head(work))]
      /\ UNCHANGED <<at, made, claims, entries, pending, shell>>
  BY DEF RunTool, At, own, cmd
<1>2. work \in Seq(Called) /\ Head(work) \in Called
  <2>1. work \in Seq(Called)
    BY DEF Inv, Types
  <2> QED
    BY <2>1, <1>1, HeadTailProperties
<1>3. PICK call \in Called : call = Head(work)
  BY <1>2
<1>4. PICK r : r = ToolScript(call)
  OBVIOUS
<1>5. Debts(r)' = {}
  <2>1. Debts(ToolScript(call))' = {}
    BY ToolSingle
  <2> QED
    BY <2>1, <1>4
<1>6. Single(r) /\ Listing(r) = {}
  BY <1>4, ToolSingle
<1>7. Acting(script[n]) = {} /\ Listing(script[n]) = {}
  BY <1>1, NoneSilent, SilentDebt
<1> QED
  BY <1>1, <1>3, <1>4, <1>5, <1>6, <1>7, SettleMove

LEMMA SetModeSettle == ASSUME Inv, SettleInv, NEW h \in Modes, NEW m \in {"plan", "act"}, SetMode(h, m) PROVE SettleInv'
<1>1. PICK r : r = <<SendStep(Header("mode", m)), Do("returned")>>
  OBVIOUS
<1>2. Silent(r)
  BY <1>1, EndSilent
<1>3. /\ script[h] = <<>> /\ script' = [script EXCEPT ![h] = r] /\ UNCHANGED <<at, made, claims, entries, pending, shell>>
  BY <1>1 DEF SetMode, core, cmd
<1>4. Single(r) /\ Listing(r) = {} /\ Debts(r)' = {} /\ Acting(r) = {}
  BY <1>2, SilentDebt
<1>5. Acting(script[h]) = {} /\ Listing(script[h]) = {}
  BY <1>3, NoneSilent, SilentDebt
<1> QED
  BY <1>3, <1>4, <1>5, SettleMove

LEMMA OutsideSettle ==
    ASSUME Inv, SettleInv,
           \/ AskBusy \/ Interrupt \/ InterruptTurn \/ ShellDeadline \/ ShellKill \/ LeaderExits \/ ChildExits
           \/ (\E t \in Tabs : LoadPage(t) \/ Subscribe(t) \/ Show(t))
           \/ UNCHANGED vars
    PROVE  SettleInv'
<1>1. UNCHANGED <<script, at, made, claims, entries, pending>>
  BY DEF AskBusy, Interrupt, InterruptTurn, ShellDeadline, ShellKill, LeaderExits, ChildExits, LoadPage, Subscribe, Show,
         own, core, vars
<1>2. shell'.card = shell.card
  <2>1. shell \in ShellStates
    BY DEF Inv, Types
  <2>2. /\ [shell EXCEPT !.done = TRUE].card = shell.card /\ [shell EXCEPT !.leader = FALSE].card = shell.card
        /\ [shell EXCEPT !.child = "none"].card = shell.card
    BY <2>1 DEF ShellStates
  <2>3. \/ shell' = shell \/ shell' = [shell EXCEPT !.done = TRUE] \/ shell' = [shell EXCEPT !.leader = FALSE]
        \/ shell' = [shell EXCEPT !.child = "none"]
    BY DEF AskBusy, Interrupt, InterruptTurn, ShellDeadline, ShellKill, LeaderExits, ChildExits, LoadPage, Subscribe, Show, cmd, vars
  <2> QED
    BY <2>2, <2>3
<1>3. Alone'
  BY <1>1 DEF SettleInv, Alone
<1>4. \A y : CardOf(y)' = CardOf(y)
  BY <1>2 DEF CardOf
<1>5. \A n \in Asks : Owing(n)' = Owing(n)
  BY <1>1, <1>4 DEF Owing, Debts
<1>6. \A n \in Asks : Listing(script'[n]) = Listing(script[n])
  BY <1>1
<1> QED
  BY <1>1, <1>3, <1>5, <1>6, SettleWork

LEMMA InitSettle == Init => SettleInv
<1> SUFFICES ASSUME Init PROVE SettleInv
  OBVIOUS
<1>1. /\ entries = <<>> /\ Len(entries) = 0 /\ entries \in Seq(Noted) /\ claims = {} /\ \A n \in Asks : made[n] = 0
      /\ \A m \in Names : Len(pending[m]) = 0
  BY DEF Init
<1>2. \A a \in Asks \cup Modes : script[a] = <<>>
  BY DEF Init
<1>3. \A a \in Asks \cup Modes : Single(script[a]) /\ Acting(script[a]) = {} /\ Listing(script[a]) = {} /\ Debts(script[a]) = {}
  BY <1>2, NoneSilent, SilentDebt
<1>4. ASSUME NEW n \in Asks PROVE Numbers(n) = {}
  <2>1. Numbers(n) = Base(n) + 1..Base(n) + 0 /\ Base(n) \in Nat
    BY <1>1, Bases DEF Numbers
  <2> QED
    BY <2>1
<1>5. Alone
  BY <1>3 DEF Alone
<1>6. Listed
  BY <1>1, <1>3, <1>4 DEF Listed
<1>7. Taken /\ Unclaimed
  BY <1>1 DEF Taken, Unclaimed
<1>8. Marked
  BY <1>1, <1>3 DEF Marked, Owing
<1> QED
  BY <1>1, <1>5, <1>6, <1>7, <1>8 DEF SettleInv

LEMMA NumbersOf ==
    ASSUME Inv, CardInv, NEW n \in Asks
    PROVE  /\ Numbers(n) \subseteq Turn(n) /\ Base(n) \in Nat /\ made[n] \in Nat /\ MaxCalls \in Nat
           /\ \A k \in Numbers(n) : k \in Nat \ {0}
           /\ \A m \in Asks : \A k \in Numbers(n) : k \in Numbers(m) => m = n
<1>1. Base(n) \in Nat /\ made[n] \in Nat /\ MaxCalls \in Nat /\ made[n] <= MaxCalls
  BY Bases, Calls DEF CardInv, Counted
<1>2. Numbers(n) \subseteq Turn(n)
  BY <1>1 DEF Numbers, Turn
<1>3. \A k \in Numbers(n) : k \in Nat \ {0}
  BY <1>1 DEF Numbers
<1>4. ASSUME NEW m \in Asks, NEW k \in Numbers(n), k \in Numbers(m) PROVE m = n
  <2>1. Base(m) \in Nat /\ made[m] \in Nat /\ made[m] <= MaxCalls
    BY Bases, Calls DEF CardInv, Counted
  <2>2. k \in Turn(m) /\ k \in Turn(n)
    BY <1>1, <1>2, <1>4, <2>1 DEF Numbers, Turn
  <2> QED
    BY <2>2, TurnsApart
<1> QED
  BY <1>1, <1>2, <1>3, <1>4

LEMMA NoteSettle == ASSUME Inv, CardInv, SettleInv, NEW a \in Asks \cup Modes, Note(a) PROVE SettleInv'
<1>1. PICK x : x = Head(script[a])
  OBVIOUS
<1>2. script[a] # <<>> /\ x \in Steps /\ Now(a) = x /\ x.do = "note"
  BY <1>1, Doings DEF Note
<1>3. PICK e \in Noted : e = x.entry
  BY <1>2, Contents
<1>4. entries' = Append(entries, e) /\ Then(a, <<>>) /\ UNCHANGED <<at, made, claims, pending, shell>>
  BY <1>2, <1>3 DEF Note, core, cmd
<1>5. entries \in Seq(Noted) /\ e.id \in Nat
  BY DEF SettleInv, Noted
<1>6. PICK l \in Nat : l = Len(entries)
  BY <1>5, LenProperties
<1>7. /\ entries' \in Seq(Noted) /\ Len(entries') = l + 1 /\ entries'[l + 1] = e
      /\ \A i \in 1..l : entries'[i] = entries[i]
  BY <1>4, <1>5, <1>6, AppendProperties
<1>8. \A i \in 1..Len(entries') : i \in 1..l \/ i = l + 1
  BY <1>6, <1>7
<1>9. \A k : Stands(k)' <=> Stands(k) \/ k = e.id
  <2>1. \A i \in 1..l : i \in 1..Len(entries')
    BY <1>6, <1>7
  <2>2. l + 1 \in 1..Len(entries')
    BY <1>6, <1>7
  <2>3. ASSUME NEW k PROVE (\E i \in 1..Len(entries') : entries'[i].id = k) <=> Stands(k) \/ k = e.id
    <3>1. Stands(k) => \E i \in 1..Len(entries') : entries'[i].id = k
      BY <2>1, <1>6, <1>7 DEF Stands
    <3>2. k = e.id => \E i \in 1..Len(entries') : entries'[i].id = k
      BY <2>2, <1>7
    <3>3. (\E i \in 1..Len(entries') : entries'[i].id = k) => Stands(k) \/ k = e.id
      BY <1>6, <1>7, <1>8 DEF Stands
    <3> QED
      BY <3>1, <3>2, <3>3
  <2> QED
    BY <2>3 DEF Stands
<1>10. ~Acts(x)
  BY <1>2 DEF Acts, Settles
<1>11. /\ Alone' /\ \A b \in Asks \cup Modes : b # a => script'[b] = script[b]
       /\ Acting(script'[a]) = Acting(script[a])
       /\ ~Lists(x) => Listing(script'[a]) = Listing(script[a])
       /\ Lists(x) => /\ a \in Asks /\ at[a] = "tools" /\ e.marks = {} /\ e.id \notin Listing(script'[a])
                      /\ Listing(script[a]) = Listing(script'[a]) \cup {e.id}
  BY <1>1, <1>2, <1>3, <1>4, <1>10, NoneSilent, SilentDebt, Deals DEF SettleInv
<1>12. \A y : CardOf(y)' = CardOf(y)
  BY <1>4 DEF CardOf
<1>13. \A n \in Asks : Owing(n)' = Owing(n)
  BY <1>11, <1>12 DEF Owing, Debts
<1>14. Lists(x) <=> e.id # 0
  BY <1>2, <1>3 DEF Lists
<1>15. \A n \in Asks : Numbers(n)' = Numbers(n)
  BY <1>4 DEF Numbers
<1>16. ASSUME e.id # 0
       PROVE  /\ a \in Asks /\ e.id \in Numbers(a) /\ ~Stands(e.id) /\ ~Took(e.id) /\ ~Owed(e.id) /\ e.marks = {}
              /\ \A n \in Asks : n # a => Listing(script[n]) = {}
  <2>1. a \in Asks /\ at[a] = "tools" /\ e.id \in Listing(script[a]) /\ e.marks = {}
    BY <1>11, <1>14, <1>16
  <2>2. e.id \in Numbers(a) /\ ~Stands(e.id)
    BY <2>1 DEF SettleInv, Listed
  <2>3. ~Took(e.id)
    BY <2>2 DEF SettleInv, Taken, Took
  <2>4. ~Owed(e.id)
    BY <2>3 DEF SettleInv, Marked, Owed
  <2>5. \A n \in Asks : n # a => Listing(script[n]) = {}
    BY <2>1, OneActs DEF SettleInv
  <2> QED
    BY <2>1, <2>2, <2>3, <2>4, <2>5
<1>17. Listed'
  <2>1. ASSUME NEW i \in 1..Len(entries'), NEW j \in 1..Len(entries'), entries'[i].id # 0, entries'[i].id = entries'[j].id
        PROVE  i = j
    <3>1. CASE i \in 1..l /\ j \in 1..l
      BY <3>1, <2>1, <1>6, <1>7 DEF SettleInv, Listed
    <3>2. CASE i = l + 1 /\ j \in 1..l
      BY <3>2, <2>1, <1>6, <1>7, <1>16 DEF Stands
    <3>3. CASE j = l + 1 /\ i \in 1..l
      BY <3>3, <2>1, <1>6, <1>7, <1>16 DEF Stands
    <3> QED
      BY <3>1, <3>2, <3>3, <1>8
  <2>2. ASSUME NEW i \in 1..Len(entries'), entries'[i].id # 0 PROVE \E n \in Asks : entries'[i].id \in Numbers(n)'
    <3>1. CASE i \in 1..l
      BY <3>1, <2>2, <1>6, <1>7, <1>15 DEF SettleInv, Listed
    <3>2. CASE i = l + 1
      BY <3>2, <2>2, <1>7, <1>15, <1>16
    <3> QED
      BY <3>1, <3>2, <1>8
  <2>3. ASSUME NEW n \in Asks, NEW k \in Listing(script'[n]) PROVE k \in Numbers(n)' /\ ~Stands(k)'
    <3>1. k \in Listing(script[n])
      BY <2>3, <1>11, <1>14
    <3>2. k \in Numbers(n) /\ ~Stands(k)
      BY <3>1 DEF SettleInv, Listed
    <3>3. k # 0
      BY <3>2, NumbersOf
    <3>4. k # e.id
      <4>1. SUFFICES ASSUME k = e.id PROVE FALSE
        OBVIOUS
      <4>2. n = a
        BY <3>1, <3>3, <4>1, <1>16
      <4> QED
        BY <4>1, <4>2, <2>3, <3>3, <1>11, <1>14
    <3> QED
      BY <3>2, <3>4, <1>9, <1>15
  <2>4. ASSUME NEW n \in Asks, NEW k \in Numbers(n)' PROVE k \in Listing(script'[n]) \/ Stands(k)'
    <3>1. k \in Listing(script[n]) \/ Stands(k)
      BY <1>15 DEF SettleInv, Listed
    <3>2. k \in Listing(script[n]) => k \in Listing(script'[n]) \/ k = e.id
      BY <1>11, <1>14
    <3> QED
      BY <3>1, <3>2, <1>9
  <2> QED
    BY <2>1, <2>2, <2>3, <2>4 DEF Listed
<1>18. Taken'
  <2>1. \A c \in claims' : Stands(c.card)' /\ \E n \in Asks : c.card \in Numbers(n)' /\ c.call \in Numbers(n)'
    BY <1>4, <1>9, <1>15 DEF SettleInv, Taken
  <2> QED
    BY <2>1, <1>4 DEF SettleInv, Taken
<1>19. Unclaimed'
  BY <1>4, UnclaimedKept DEF SettleInv
<1>20. Marked'
  <2>1. ASSUME NEW i \in 1..Len(entries'), entries'[i].id # 0
        PROVE  /\ (\E c \in claims' : c.card = entries'[i].id) =>
                     (\E n \in Asks : entries'[i].id \in Owing(n)') \/ entries'[i].marks \cap Settled # {}
               /\ entries'[i].marks \cap Settled # {} =>
                     (\E c \in claims' : c.card = entries'[i].id) /\ ~\E n \in Asks : entries'[i].id \in Owing(n)'
               /\ \E m \in Settled : entries'[i].marks \cap Settled \subseteq {m}
    <3>1. PICK k, s : k = entries'[i].id /\ s = entries'[i].marks
      OBVIOUS
    <3>2. (Took(k) <=> \E c \in claims' : c.card = k) /\ (Owed(k) <=> \E n \in Asks : k \in Owing(n)')
      BY <1>4, <1>13 DEF Took, Owed
    <3>3. /\ Took(k) => Owed(k) \/ s \cap Settled # {}
          /\ s \cap Settled # {} => Took(k) /\ ~Owed(k)
          /\ \E m \in Settled : s \cap Settled \subseteq {m}
      <4>1. CASE i \in 1..l
        BY <4>1, <3>1, <2>1, <1>6, <1>7 DEF SettleInv, Marked
      <4>2. CASE i = l + 1
        <5>1. k = e.id /\ s = {} /\ ~Took(k)
          BY <4>2, <3>1, <2>1, <1>7, <1>16
        <5>2. "read" \in Settled
          BY DEF Settled
        <5> QED
          BY <5>1, <5>2
      <4> QED
        BY <4>1, <4>2, <1>8
    <3> QED
      BY <3>1, <3>2, <3>3
  <2>2. \A n \in Asks : \A k \in Owing(n)' : Took(k)' /\ k \in Numbers(n)'
    BY <1>4, <1>13, <1>15 DEF SettleInv, Marked, Took
  <2> QED
    BY <2>1, <2>2 DEF Marked, Took, Owed
<1> QED
  BY <1>7, <1>11, <1>17, <1>18, <1>19, <1>20 DEF SettleInv

LEMMA UpdateCardSettle == ASSUME Inv, SettleInv, NEW a \in Asks \cup Modes, UpdateCard(a) PROVE SettleInv'
<1>1. PICK x : x = Head(script[a])
  OBVIOUS
<1>2. script[a] # <<>> /\ x \in Steps /\ Now(a) = x /\ x.do = "set"
  BY <1>1, Doings DEF UpdateCard
<1>3. PICK id \in Nat, mark \in Marks : id = x.id /\ mark = x.mark
  BY <1>2, Contents
<1>4. entries' = Patched(entries, id, mark) /\ Then(a, <<>>) /\ UNCHANGED <<at, made, claims, pending, shell>>
  BY <1>2, <1>3 DEF UpdateCard, core, cmd
<1>5. /\ entries \in Seq(Noted) /\ entries' \in Seq(Noted) /\ Len(entries') = Len(entries)
      /\ \A i \in 1..Len(entries) : /\ entries'[i].id = entries[i].id
                                    /\ entries'[i].marks = IF entries[i].id = id THEN entries[i].marks \cup {mark} ELSE entries[i].marks
  <2>1. entries \in Seq(Noted)
    BY DEF SettleInv
  <2>2. PICK x2 : x2 = Patched(entries, id, mark)
    OBVIOUS
  <2>3. IsPatch(x2, entries, id, mark)
    BY <2>1, <2>2, Patching
  <2>4. entries' = x2
    BY <2>2, <1>4
  <2>5. /\ x2 \in Seq(Noted) /\ Len(x2) = Len(entries)
        /\ \A i \in 1..Len(entries) : /\ x2[i].id = entries[i].id
                                      /\ x2[i].marks = IF entries[i].id = id THEN entries[i].marks \cup {mark} ELSE entries[i].marks
    BY <2>3 DEF IsPatch
  <2> QED
    BY <2>1, <2>4, <2>5
<1>6. ~Lists(x)
  BY <1>2 DEF Lists
<1>7. Unclaimed'
  BY <1>4, UnclaimedKept DEF SettleInv
<1>8. CASE mark \notin Settled
  <2>1. ~Acts(x)
    BY <1>2, <1>3, <1>8 DEF Acts, Settles
  <2>2. Alone' /\ \A n \in Asks : Listing(script'[n]) = Listing(script[n]) /\ Owing(n)' = Owing(n)
    BY <1>1, <1>2, <1>4, <1>6, <2>1, NoneSilent, KeepsDeal
  <2>3. \A i \in 1..Len(entries) : entries'[i].marks \cap Settled = entries[i].marks \cap Settled
    BY <1>5, <1>8
  <2> QED
    BY <1>4, <1>5, <1>7, <2>2, <2>3, SettleKept
<1>9. CASE mark \in Settled
  <2>1. Settles(x) /\ CardOf(x) = id /\ Acts(x)
    BY <1>2, <1>3, <1>9 DEF Settles, CardOf, Acts
  <2>2. a \in Asks /\ at[a] = "tools" /\ id \in Numbers(a) /\ Took(id) /\ Owing(a) = {id}
    BY <1>1, <1>2, <2>1, Owes
  <2>3. /\ Alone' /\ \A b \in Asks \cup Modes : b # a => script'[b] = script[b]
        /\ Listing(script[a]) = {} /\ Acting(script'[a]) = {} /\ Listing(script'[a]) = {}
    BY <1>1, <1>2, <1>4, <2>1, NoneSilent, SilentDebt, Deals DEF SettleInv
  <2>4. Owing(a)' = {}
    BY <2>3 DEF Owing, Debts
  <2>5. ASSUME NEW n \in Asks, n # a PROVE Owing(n) = {} /\ Owing(n)' = {}
    <3>1. Acting(script[n]) = {} /\ script'[n] = script[n]
      BY <2>2, <2>3, <2>5, OneActs DEF SettleInv
    <3>2. Acting(script'[n]) = {}
      BY <3>1
    <3> QED
      BY <3>1, <3>2 DEF Owing, Debts
  <2>6. (\A n \in Asks : Owing(n)' = {}) /\ \A k : Owed(k) <=> k = id
    BY <2>2, <2>4, <2>5 DEF Owed
  <2>7. \A k : Stands(k)' <=> Stands(k)
    BY <1>5 DEF Stands
  <2>8. \A n \in Asks : Numbers(n)' = Numbers(n)
    BY <1>4 DEF Numbers
  <2>9. Listed'
    <3>1. \A n \in Asks : Listing(script'[n]) = Listing(script[n])
      BY <2>3
    <3>2. \A i, j \in 1..Len(entries') : entries'[i].id # 0 /\ entries'[i].id = entries'[j].id => i = j
      BY <1>5 DEF SettleInv, Listed
    <3>3. \A i \in 1..Len(entries') : entries'[i].id # 0 => \E n \in Asks : entries'[i].id \in Numbers(n)'
      <4>1. ASSUME NEW i \in 1..Len(entries'), entries'[i].id # 0 PROVE \E n \in Asks : entries'[i].id \in Numbers(n)'
        <5>1. i \in 1..Len(entries) /\ entries'[i].id = entries[i].id /\ entries[i].id # 0
          BY <4>1, <1>5
        <5>2. PICK n \in Asks : entries[i].id \in Numbers(n)
          BY <5>1 DEF SettleInv, Listed
        <5> QED
          BY <5>1, <5>2, <2>8
      <4> QED
        BY <4>1
    <3>4. \A n \in Asks : \A k \in Listing(script'[n]) : k \in Numbers(n)' /\ ~Stands(k)'
      BY <3>1, <2>7, <2>8 DEF SettleInv, Listed
    <3>5. \A n \in Asks : \A k \in Numbers(n)' : k \in Listing(script'[n]) \/ Stands(k)'
      BY <3>1, <2>7, <2>8 DEF SettleInv, Listed
    <3> QED
      BY <3>2, <3>3, <3>4, <3>5 DEF Listed
  <2>10. Taken'
    <3>1. \A c \in claims' : Stands(c.card)' /\ \E n \in Asks : c.card \in Numbers(n)' /\ c.call \in Numbers(n)'
      BY <1>4, <2>7, <2>8 DEF SettleInv, Taken
    <3> QED
      BY <3>1, <1>4 DEF SettleInv, Taken
  <2>11. Marked'
    <3>1. ASSUME NEW i \in 1..Len(entries'), entries'[i].id # 0
          PROVE  /\ (\E c \in claims' : c.card = entries'[i].id) => entries'[i].marks \cap Settled # {}
                 /\ entries'[i].marks \cap Settled # {} => \E c \in claims' : c.card = entries'[i].id
                 /\ \E m \in Settled : entries'[i].marks \cap Settled \subseteq {m}
      <4>1. PICK k : k = entries'[i].id
        OBVIOUS
      <4>2. i \in 1..Len(entries) /\ k = entries[i].id /\ k # 0 /\ (Took(k) <=> \E c \in claims' : c.card = k)
        BY <4>1, <3>1, <1>4, <1>5 DEF Took
      <4>3. /\ Took(k) => Owed(k) \/ entries[i].marks \cap Settled # {}
            /\ entries[i].marks \cap Settled # {} => Took(k) /\ ~Owed(k)
            /\ \E m \in Settled : entries[i].marks \cap Settled \subseteq {m}
        BY <4>2 DEF SettleInv, Marked
      <4>4. CASE k = id
        <5>1. entries[i].marks \cap Settled = {} /\ Took(k)
          BY <4>3, <4>4, <2>2, <2>6
        <5>2. entries'[i].marks = entries[i].marks \cup {mark}
          BY <4>2, <4>4, <1>5
        <5>3. entries'[i].marks \cap Settled = {mark}
          BY <5>1, <5>2, <1>9
        <5> QED
          BY <5>1, <5>3, <4>1, <4>2, <1>9
      <4>5. CASE k # id
        <5>1. entries'[i].marks = entries[i].marks /\ ~Owed(k)
          BY <4>2, <4>5, <1>5, <2>6
        <5> QED
          BY <5>1, <4>1, <4>2, <4>3
      <4> QED
        BY <4>4, <4>5
    <3> QED
      BY <3>1, <2>6 DEF Marked, Took, Owed
  <2> QED
    BY <1>5, <1>7, <2>3, <2>9, <2>10, <2>11 DEF SettleInv
<1> QED
  BY <1>8, <1>9

LEMMA QueueCardSettle == ASSUME Inv, CardInv, SettleInv, NEW a \in Asks \cup Modes, QueueCard(a) PROVE SettleInv'
<1>1. PICK x, y : x = Head(script[a]) /\ y = x.call
  OBVIOUS
<1>2. script[a] # <<>> /\ x \in Steps /\ Now(a) = x /\ x.do = "queue"
  BY <1>1, Doings DEF QueueCard
<1>3. y \in Called /\ y.id \in Nat /\ y.name \in Names
  <2>1. y \in Called
    BY <1>1, <1>2, Fields
  <2> QED
    BY <2>1 DEF Called
<1>4. ~Acts(x) /\ ~Lists(x)
  BY <1>2 DEF Acts, Settles, Lists
<1>5. pending' = [pending EXCEPT ![y.name] = Append(@, y.id)] /\ Then(a, <<>>) /\ UNCHANGED <<at, made, claims, entries, shell>>
  BY <1>1, <1>2 DEF QueueCard, core, cmd
<1>6. Alone' /\ \A n \in Asks : Listing(script'[n]) = Listing(script[n]) /\ Owing(n)' = Owing(n)
  BY <1>1, <1>2, <1>4, <1>5, NoneSilent, KeepsDeal
<1>7. pending \in [Names -> Seq(Nat)]
  BY DEF Inv, Types
<1>8. PICK l \in Nat : l = Len(pending[y.name])
  <2>1. pending[y.name] \in Seq(Nat)
    BY <1>3, <1>7
  <2> QED
    BY <2>1, LenProperties
<1>9. ASSUME NEW m \in Names, NEW i \in 1..Len(pending'[m])
      PROVE  \/ i \in 1..Len(pending[m]) /\ pending'[m][i] = pending[m][i]
             \/ m = y.name /\ pending'[m][i] = y.id
  <2>1. CASE m # y.name
    <3>1. pending'[m] = pending[m]
      BY <2>1, <1>5, <1>7
    <3> QED
      BY <3>1
  <2>2. CASE m = y.name
    <3>1. pending[m] \in Seq(Nat) /\ pending'[m] = Append(pending[m], y.id) /\ Len(pending[m]) = l
      BY <2>2, <1>3, <1>5, <1>7, <1>8
    <3>2. /\ Len(pending'[m]) = l + 1 /\ pending'[m][l + 1] = y.id
          /\ \A j \in 1..l : pending'[m][j] = pending[m][j]
      BY <3>1, <1>3, AppendProperties
    <3>3. i \in 1..l \/ i = l + 1
      BY <3>2
    <3> QED
      BY <2>2, <3>1, <3>2, <3>3
  <2> QED
    BY <2>1, <2>2
\* Whose card it is, and that nobody has it.
<1>10. y \in Queued(script[a])
  <2>1. script[a] \in Seq(Steps)
    BY DEF Inv, Types
  <2>2. Queued(script[a]) = Queued(Tail(script[a])) \cup {Head(script[a]).call}
    BY <2>1, <1>1, <1>2, Shorter
  <2> QED
    BY <2>2, <1>1
<1>11. a \in Asks /\ at[a] = "tools" /\ Active(a)
  BY <1>10 DEF CardInv, Announced, Active, Holding
<1>12. \A m \in Names : \A i \in 1..Len(pending[m]) : pending[m][i] < y.id
  BY <1>10, <1>11 DEF CardInv, Announced
<1>13. PICK j \in 1..Len(work) : work[j] = y
  BY <1>10, <1>11 DEF CardInv, Announced
<1>14. /\ made[a] \in Nat /\ Len(work) \in Nat /\ LastRun(a) \in Int /\ Base(a) \in Nat /\ Len(work) <= made[a]
       /\ work[j].id = LastRun(a) + j /\ LastRun(a) = Base(a) + made[a] - Len(work)
  BY <1>11, Calls, Bases DEF CardInv, Counted, LastRun
<1>15. y.id \in Numbers(a) /\ LastRun(a) < y.id
  BY <1>13, <1>14 DEF Numbers
<1>16. ~Took(y.id)
  <2>1. SUFFICES ASSUME NEW c \in claims, c.card = y.id PROVE FALSE
    BY DEF Took
  <2>2. PICK n \in Asks : c.card \in Numbers(n) /\ c.call \in Numbers(n)
    BY DEF SettleInv, Taken
  <2>3. n = a
    BY <2>1, <2>2, <1>11, <1>15, NumbersOf
  <2>4. c.call \in Turn(a) /\ c.card # 0 /\ c.call \in Nat /\ c.card \in Nat
    BY <2>2, <2>3, <1>11, NumbersOf
  <2>5. Ran(a, c.call)
    BY <2>4, <1>11 DEF CardInv, Claimed
  <2>6. c.call <= LastRun(a)
    BY <2>5, <1>14 DEF Ran
  <2>7. c.card <= c.call
    BY <2>4 DEF CardInv, CardIsOwn
  <2> QED
    BY <2>1, <2>4, <2>6, <2>7, <1>14, <1>15
<1>17. Unclaimed'
  <2>1. ASSUME NEW m \in Names, NEW i \in 1..Len(pending'[m]) PROVE ~\E c \in claims' : c.card = pending'[m][i]
    <3>1. CASE i \in 1..Len(pending[m]) /\ pending'[m][i] = pending[m][i]
      <4>1. ~Took(pending[m][i])
        BY <3>1 DEF SettleInv, Unclaimed
      <4> QED
        BY <3>1, <4>1, <1>5 DEF Took
    <3>2. CASE pending'[m][i] = y.id
      BY <3>2, <1>5, <1>16 DEF Took
    <3> QED
      BY <3>1, <3>2, <1>9
  <2>2. ASSUME NEW n \in Names, NEW m \in Names, NEW i \in 1..Len(pending'[n]), NEW k \in 1..Len(pending'[m]),
               pending'[n][i] = pending'[m][k]
        PROVE  n = m
    <3>1. \A p \in Names : \A q \in 1..Len(pending[p]) : pending[p][q] \in Nat /\ pending[p][q] # y.id
      <4>1. ASSUME NEW p \in Names, NEW q \in 1..Len(pending[p]) PROVE pending[p][q] \in Nat
        BY <1>7, ElementOfSeq
      <4> QED
        BY <4>1, <1>3, <1>12
    <3>2. CASE i \in 1..Len(pending[n]) /\ pending'[n][i] = pending[n][i] /\ k \in 1..Len(pending[m]) /\ pending'[m][k] = pending[m][k]
      BY <3>2, <2>2 DEF SettleInv, Unclaimed
    <3>3. CASE i \in 1..Len(pending[n]) /\ pending'[n][i] = pending[n][i] /\ pending'[m][k] = y.id
      BY <3>1, <3>3, <2>2
    <3>4. CASE k \in 1..Len(pending[m]) /\ pending'[m][k] = pending[m][k] /\ pending'[n][i] = y.id
      BY <3>1, <3>4, <2>2
    <3> QED
      BY <3>2, <3>3, <3>4, <1>9
  <2> QED
    BY <2>1, <2>2 DEF Unclaimed, Took
<1>18. entries \in Seq(Noted)
  BY DEF SettleInv
<1> QED
  BY <1>5, <1>6, <1>17, <1>18, SettleKept, EntriesKept

\* The call that runs takes a card of its turn that waited for it, and no other may.
LEMMA Draws ==
    ASSUME Inv, CardInv, SettleInv, NEW a \in Asks \cup Modes, ClaimCard(a), NEW y, y = Head(script[a]), NEW x, x = y.call,
           NEW card, card = IF pending[x.name] = <<>> THEN 0 ELSE Head(pending[x.name])
    PROVE  /\ script[a] # <<>> /\ y \in Steps /\ y.do = "claim" /\ x \in Called /\ x.name \in Names \ {"other"}
           /\ a \in Asks /\ at[a] = "tools" /\ x.id \in Numbers(a) /\ card \in Numbers(a) /\ card \in Nat \ {0}
           /\ ~Took(card)
           /\ Then(a, WithCard(x, card)) /\ claims' = claims \cup {[call |-> x.id, card |-> card]}
           /\ UNCHANGED <<at, made, entries, shell>>
           /\ \A m \in Names : \A i \in 1..Len(pending'[m]) :
                 \E k \in 1..Len(pending[m]) : pending'[m][i] = pending[m][k] /\ pending[m][k] # card
<1>1. script[a] # <<>> /\ y \in Steps /\ Now(a) = y /\ y.do = "claim"
  BY Doings DEF ClaimCard
<1>2. x \in Called /\ x.id \in Nat /\ x.name \in Names /\ x.name # "other"
  <2>1. x \in Called /\ x.name # "other"
    BY <1>1, Fields
  <2> QED
    BY <2>1 DEF Called
<1>3. script \in [Asks \cup Modes -> Seq(Steps)] /\ pending \in [Names -> Seq(Nat)]
  BY DEF Inv, Types
<1>4. /\ pending' = [pending EXCEPT ![x.name] = IF @ = <<>> THEN @ ELSE Tail(@)] /\ Then(a, WithCard(x, card))
      /\ claims' = claims \cup {[call |-> x.id, card |-> card]}
      /\ UNCHANGED <<at, made, entries, shell>>
  BY <1>1 DEF ClaimCard, core, cmd
<1>5. Acts(y) /\ Single(script[a])
  BY <1>1 DEF Acts, SettleInv, Alone
<1>6. Acting(script[a]) = {y}
  BY <1>1, <1>5, SingleTail
<1>7. a \in Asks /\ at[a] = "tools" /\ Active(a)
  BY <1>6 DEF SettleInv, Alone, Active, Holding
<1>8. x.id = LastRun(a) /\ Waits(x)
  <2>1. script[a] \in Seq(Steps) /\ Orderly(script[a])
    BY <1>3 DEF CardInv, Announced
  <2>2. Claiming(script[a]) = {x}
    BY <2>1, <1>1, Shorter
  <2>3. x \in Claiming(script[a])
    BY <2>2
  <2> QED
    BY <2>3, <1>7 DEF CardInv, Announced
<1>9. ASSUME NEW m \in Names
      PROVE  /\ Len(pending[m]) \in Nat /\ pending[m] \in Seq(Nat)
             /\ \A i \in 1..Len(pending[m]) : pending[m][i] \in Numbers(a)
             /\ \A i, j \in 1..Len(pending[m]) : i < j => pending[m][i] < pending[m][j]
  <2>1. pending[m] \in Seq(Nat)
    BY <1>3
  <2> QED
    BY <2>1, <1>7, LenProperties DEF CardInv, Stacked, Numbers
<1>10. PICK j \in 1..Len(pending[x.name]) : pending[x.name][j] = x.id
  BY <1>2, <1>8 DEF Waits
<1>11. /\ pending[x.name] # <<>> /\ 1 \in 1..Len(pending[x.name]) /\ card = pending[x.name][1]
       /\ pending'[x.name] = Tail(pending[x.name]) /\ Len(pending'[x.name]) = Len(pending[x.name]) - 1
       /\ \A i \in 1..Len(pending'[x.name]) : pending'[x.name][i] = pending[x.name][i + 1]
       /\ \A m \in Names : m # x.name => pending'[m] = pending[m]
  <2>1. pending[x.name] \in Seq(Nat) /\ pending[x.name] # <<>>
    BY <1>2, <1>3, <1>10, EmptySeq
  <2>2. pending'[x.name] = Tail(pending[x.name]) /\ \A m \in Names : m # x.name => pending'[m] = pending[m]
    BY <2>1, <1>2, <1>3, <1>4
  <2>3. PICK q : q = pending[x.name]
    OBVIOUS
  <2>4. /\ Len(q) \in Nat /\ 1 \in 1..Len(q) /\ Head(q) = q[1] /\ Len(Tail(q)) = Len(q) - 1
        /\ \A i \in 1..Len(Tail(q)) : Tail(q)[i] = q[i + 1]
    <3>1. q \in Seq(Nat) /\ q # <<>> /\ Len(q) \in Nat /\ j \in 1..Len(q)
      BY <2>1, <2>3, <1>2, <1>9, <1>10
    <3>2. 1 \in 1..Len(q)
      BY <3>1
    <3> QED
      BY <3>1, <3>2, HeadTailProperties
  <2> QED
    BY <2>1, <2>2, <2>3, <2>4
<1>12. x.id \in Numbers(a) /\ card \in Numbers(a)
  BY <1>2, <1>9, <1>10, <1>11
<1>13. card \in Nat \ {0}
  BY <1>7, <1>12, NumbersOf
<1>14. ~Took(card)
  BY <1>2, <1>11 DEF SettleInv, Unclaimed
<1>15. ASSUME NEW m \in Names, NEW i \in 1..Len(pending'[m])
       PROVE  \E k \in 1..Len(pending[m]) : pending'[m][i] = pending[m][k] /\ pending[m][k] # card
  <2>1. CASE m # x.name
    <3>1. pending'[m] = pending[m] /\ i \in 1..Len(pending[m])
      BY <2>1, <1>11
    <3>2. pending[m][i] # card
      BY <3>1, <2>1, <1>2, <1>11 DEF SettleInv, Unclaimed
    <3> QED
      BY <3>1, <3>2
  <2>2. CASE m = x.name
    <3>1. i + 1 \in 1..Len(pending[m]) /\ 1 < i + 1 /\ pending'[m][i] = pending[m][i + 1]
      BY <2>2, <1>9, <1>11
    <3>2. pending[m][1] < pending[m][i + 1]
      BY <3>1, <2>2, <1>9, <1>11
    <3>3. pending[m][1] \in Nat /\ pending[m][i + 1] \in Nat
      BY <3>1, <2>2, <1>9, <1>11, ElementOfSeq
    <3>4. pending[m][i + 1] # card
      BY <3>2, <3>3, <2>2, <1>11
    <3> QED
      BY <3>1, <3>4
  <2> QED
    BY <2>1, <2>2
<1> QED
  BY <1>1, <1>2, <1>4, <1>7, <1>12, <1>13, <1>14, <1>15

LEMMA ClaimCardSettle == ASSUME Inv, CardInv, SettleInv, NEW a \in Asks \cup Modes, ClaimCard(a) PROVE SettleInv'
<1>1. PICK y : y = Head(script[a])
  OBVIOUS
<1>2. PICK x : x = y.call
  OBVIOUS
<1>3. PICK card : card = IF pending[x.name] = <<>> THEN 0 ELSE Head(pending[x.name])
  OBVIOUS
<1>4. /\ script[a] # <<>> /\ y \in Steps /\ y.do = "claim" /\ x \in Called /\ x.name \in Names \ {"other"}
      /\ a \in Asks /\ at[a] = "tools" /\ x.id \in Numbers(a) /\ card \in Numbers(a) /\ card \in Nat \ {0}
      /\ ~Took(card)
      /\ Then(a, WithCard(x, card)) /\ claims' = claims \cup {[call |-> x.id, card |-> card]}
      /\ UNCHANGED <<at, made, entries, shell>>
      /\ \A m \in Names : \A i \in 1..Len(pending'[m]) :
            \E k \in 1..Len(pending[m]) : pending'[m][i] = pending[m][k] /\ pending[m][k] # card
  BY <1>1, <1>2, <1>3, Draws
<1>5. PICK t : t = WithCard(x, card)
  OBVIOUS
<1>6. Debts(t)' = {card} /\ Single(t) /\ Listing(t) = {}
  <2>1. Pays(t, card)
    BY <1>4, <1>5, WithCardPays
  <2> QED
    BY <2>1, PaysDebt
<1>7. Acts(y) /\ ~Settles(y)
  BY <1>4 DEF Acts, Settles
<1>8. /\ Alone' /\ \A b \in Asks \cup Modes : b # a => script'[b] = script[b]
      /\ Acting(script[a]) = {y} /\ Listing(script[a]) = {}
      /\ Acting(script'[a]) = Acting(t) /\ Listing(script'[a]) = {}
  BY <1>1, <1>4, <1>5, <1>6, <1>7, Deals DEF SettleInv
<1>9. Owing(a) = {} /\ Owing(a)' = {card}
  <2>1. Owing(a) = {}
    BY <1>7, <1>8 DEF Owing, Debts
  <2>2. Owing(a)' = Debts(t)'
    BY <1>8 DEF Owing, Debts
  <2> QED
    BY <2>1, <2>2, <1>6
<1>10. ASSUME NEW n \in Asks, n # a PROVE Owing(n) = {} /\ Owing(n)' = {} /\ Listing(script'[n]) = Listing(script[n])
  <2>1. Acting(script[n]) = {} /\ script'[n] = script[n]
    BY <1>4, <1>8, <1>10, OneActs DEF SettleInv
  <2>2. Acting(script'[n]) = {}
    BY <2>1
  <2> QED
    BY <2>1, <2>2 DEF Owing, Debts
<1>11. Stands(card)
  BY <1>4, <1>8 DEF SettleInv, Listed
<1>12. \A k : (Stands(k)' <=> Stands(k)) /\ (Took(k)' <=> Took(k) \/ k = card) /\ (Owed(k)' <=> k = card) /\ ~Owed(k)
  <2>1. \A k : Stands(k)' <=> Stands(k)
    BY <1>4 DEF Stands
  <2>2. ASSUME NEW k PROVE (\E c \in claims' : c.card = k) <=> Took(k) \/ k = card
    <3>1. PICK d : d = [call |-> x.id, card |-> card]
      OBVIOUS
    <3>2. d.card = card /\ claims' = claims \cup {d}
      BY <3>1, <1>4
    <3> QED
      BY <3>2 DEF Took
  <2>3. ASSUME NEW k PROVE (\E n \in Asks : k \in Owing(n)') <=> k = card
    BY <1>4, <1>9, <1>10
  <2>4. \A k : ~Owed(k)
    BY <1>9, <1>10 DEF Owed
  <2> QED
    BY <2>1, <2>2, <2>3, <2>4 DEF Took, Owed
<1>13. \A n \in Asks : Numbers(n)' = Numbers(n)
  BY <1>4 DEF Numbers
<1>14. Listed'
  <2>1. \A n \in Asks : Listing(script'[n]) = Listing(script[n])
    BY <1>8, <1>10
  <2>2. \A i, j \in 1..Len(entries') : entries'[i].id # 0 /\ entries'[i].id = entries'[j].id => i = j
    BY <1>4 DEF SettleInv, Listed
  <2>3. \A i \in 1..Len(entries') : entries'[i].id # 0 => \E n \in Asks : entries'[i].id \in Numbers(n)'
    BY <1>4, <1>13 DEF SettleInv, Listed
  <2>4. \A n \in Asks : \A k \in Listing(script'[n]) : k \in Numbers(n)' /\ ~Stands(k)'
    BY <2>1, <1>12, <1>13 DEF SettleInv, Listed
  <2>5. \A n \in Asks : \A k \in Numbers(n)' : k \in Listing(script'[n]) \/ Stands(k)'
    BY <2>1, <1>12, <1>13 DEF SettleInv, Listed
  <2> QED
    BY <2>2, <2>3, <2>4, <2>5 DEF Listed
<1>15. Taken'
  <2>1. PICK d : d = [call |-> x.id, card |-> card]
    OBVIOUS
  <2>2. d.card = card /\ d.call = x.id /\ claims' = claims \cup {d}
    BY <2>1, <1>4
  <2>3. ASSUME NEW c \in claims' PROVE Stands(c.card)' /\ \E n \in Asks : c.card \in Numbers(n)' /\ c.call \in Numbers(n)'
    <3>1. CASE c \in claims
      BY <3>1, <1>12, <1>13 DEF SettleInv, Taken
    <3>2. CASE c = d
      <4>1. Stands(card)' /\ card \in Numbers(a)' /\ x.id \in Numbers(a)'
        BY <1>4, <1>11, <1>12, <1>13
      <4> QED
        BY <3>2, <4>1, <2>2, <1>4
    <3> QED
      BY <3>1, <3>2, <2>2
  <2>4. ASSUME NEW c \in claims', NEW e \in claims', c.card = e.card PROVE c = e
    <3>1. \A f \in claims : f.card # card
      BY <1>4 DEF Took
    <3> QED
      BY <3>1, <2>2, <2>4 DEF SettleInv, Taken
  <2> QED
    BY <2>3, <2>4 DEF Taken
<1>16. Unclaimed'
  <2>1. ASSUME NEW m \in Names, NEW i \in 1..Len(pending'[m]) PROVE ~\E c \in claims' : c.card = pending'[m][i]
    <3>1. PICK k \in 1..Len(pending[m]) : pending'[m][i] = pending[m][k] /\ pending[m][k] # card
      BY <1>4
    <3>2. PICK q : q = pending[m][k]
      OBVIOUS
    <3>3. ~Took(q) /\ q # card
      BY <3>1, <3>2 DEF SettleInv, Unclaimed
    <3>4. ~\E c \in claims' : c.card = q
      BY <3>3, <1>12 DEF Took
    <3> QED
      BY <3>1, <3>2, <3>4
  <2>2. ASSUME NEW n \in Names, NEW m \in Names, NEW i \in 1..Len(pending'[n]), NEW k \in 1..Len(pending'[m]),
               pending'[n][i] = pending'[m][k]
        PROVE  n = m
    <3>1. PICK p \in 1..Len(pending[n]) : pending'[n][i] = pending[n][p]
      BY <1>4
    <3>2. PICK q \in 1..Len(pending[m]) : pending'[m][k] = pending[m][q]
      BY <1>4
    <3> QED
      BY <3>1, <3>2, <2>2 DEF SettleInv, Unclaimed
  <2> QED
    BY <2>1, <2>2 DEF Unclaimed, Took
<1>17. Marked'
  <2>1. ASSUME NEW i \in 1..Len(entries), entries[i].id # 0
        PROVE  /\ Took(entries[i].id) \/ entries[i].id = card => entries[i].id = card \/ entries[i].marks \cap Settled # {}
               /\ entries[i].marks \cap Settled # {} => Took(entries[i].id) /\ entries[i].id # card
               /\ \E m \in Settled : entries[i].marks \cap Settled \subseteq {m}
    BY <2>1, <1>4, <1>12 DEF SettleInv, Marked
  <2>2. ASSUME NEW i \in 1..Len(entries'), entries'[i].id # 0
        PROVE  /\ (\E c \in claims' : c.card = entries'[i].id) =>
                     (\E n \in Asks : entries'[i].id \in Owing(n)') \/ entries'[i].marks \cap Settled # {}
               /\ entries'[i].marks \cap Settled # {} =>
                     (\E c \in claims' : c.card = entries'[i].id) /\ ~\E n \in Asks : entries'[i].id \in Owing(n)'
               /\ \E m \in Settled : entries'[i].marks \cap Settled \subseteq {m}
    <3>1. PICK k : k = entries[i].id
      OBVIOUS
    <3>2. k = entries'[i].id /\ entries'[i] = entries[i] /\ i \in 1..Len(entries)
      BY <3>1, <1>4
    <3>3. ((\E c \in claims' : c.card = k) <=> Took(k) \/ k = card) /\ ((\E n \in Asks : k \in Owing(n)') <=> k = card)
      BY <1>12 DEF Took, Owed
    <3> QED
      BY <3>1, <3>2, <3>3, <2>1, <2>2
  <2>3. ASSUME NEW n \in Asks, NEW k \in Owing(n)' PROVE (\E c \in claims' : c.card = k) /\ k \in Numbers(n)'
    <3>1. n = a /\ k = card
      BY <2>3, <1>9, <1>10
    <3>2. \E c \in claims' : c.card = k
      BY <3>1, <1>12 DEF Took
    <3> QED
      BY <3>1, <3>2, <1>4, <1>13
  <2> QED
    BY <2>2, <2>3 DEF Marked, Took, Owed
<1>18. entries' \in Seq(Noted)
  BY <1>4 DEF SettleInv
<1> QED
  BY <1>8, <1>14, <1>15, <1>16, <1>17, <1>18 DEF SettleInv

LEMMA ResponseSettle == ASSUME Inv, CardInv, SettleInv, NEW n \in Asks, Response(n) PROVE SettleInv'
<1>0. Inv'
  BY ResponseInv
<1>1. PICK kinds \in BoundedSeq(CallKinds, MaxCalls) :
         /\ made[n] + Len(kinds) <= MaxCalls
         /\ work' = [i \in DOMAIN kinds |-> Call(n, made[n] + i, kinds[i])]
         /\ made' = [made EXCEPT ![n] = @ + Len([i \in DOMAIN kinds |-> Call(n, made[n] + i, kinds[i])])]
         /\ script' = [script EXCEPT ![n] = AnnounceAll([i \in DOMAIN kinds |-> Call(n, made[n] + i, kinds[i])])]
  BY DEF Response
<1>2. PICK calls : calls = [i \in DOMAIN kinds |-> Call(n, made[n] + i, kinds[i])] /\ calls = work'
  BY <1>1
<1>3. /\ at[n] = "sending" /\ script[n] = <<>> /\ Active(n) /\ at' = [at EXCEPT ![n] = "tools"]
      /\ UNCHANGED <<pending, claims, entries, shell>> /\ at \in [Asks -> Places] /\ script \in [Asks \cup Modes -> Seq(Steps)]
      /\ made \in [Asks -> Nat]
  BY DEF Response, At, Goes, own, cmd, Active, Holding, Inv, Types
<1>4. PICK k \in Nat : kinds \in [1..k -> CallKinds]
  <2>1. MaxCalls \in Nat
    BY ConsoleAssumption
  <2>2. kinds \in UNION {[1..j -> CallKinds] : j \in 0..MaxCalls}
    BY DEF BoundedSeq, SeqOf
  <2> QED
    BY <2>1, <2>2
<1>5. calls = [i \in 1..k |-> Call(n, made[n] + i, kinds[i])] /\ calls \in Seq(Called) /\ Len(calls) = k /\ Len(kinds) = k
  <2>1. calls = [i \in 1..k |-> Call(n, made[n] + i, kinds[i])] /\ Len(kinds) = k
    BY <1>2, <1>4
  <2>2. calls \in Seq(Called)
    BY <1>0, <1>2 DEF Inv, Types
  <2> QED
    BY <2>1, <2>2, LenProperties
<1>6. made[n] \in Nat /\ Base(n) \in Nat /\ MaxCalls \in Nat /\ made[n] + k <= MaxCalls
  BY <1>1, <1>3, <1>5, Bases
<1>7. made' = [made EXCEPT ![n] = made[n] + k] /\ script' = [script EXCEPT ![n] = AnnounceAll(calls)]
  BY <1>1, <1>2, <1>5
<1>8. /\ made'[n] = made[n] + k /\ (\A m \in Asks : m # n => made'[m] = made[m])
      /\ script'[n] = AnnounceAll(calls) /\ (\A b \in Asks \cup Modes : b # n => script'[b] = script[b])
      /\ at'[n] = "tools" /\ (\A m \in Asks : m # n => at'[m] = at[m])
  BY <1>3, <1>7
<1>9. ASSUME NEW i \in 1..k PROVE calls[i].id = Base(n) + made[n] + i
  <2>1. calls[i].id = (n - 1) * MaxCalls + (made[n] + i)
    BY <1>5 DEF Call
  <2> QED
    BY <2>1, <1>6 DEF Base
\* The new numbers follow those of the turn.
<1>10. PICK fresh : fresh = Base(n) + made[n] + 1..Base(n) + made[n] + k
  OBVIOUS
<1>11. /\ Single(script'[n]) /\ Acting(script'[n]) = {}
       /\ Listing(script'[n]) = fresh
  <2>1. PICK s : s = AnnounceAll(calls)
    OBVIOUS
  <2>2. (\A i \in 1..k : calls[i].id # 0) /\ \A i, j \in 1..k : calls[i].id = calls[j].id => i = j
    BY <1>6, <1>9
  <2>3. Single(s) /\ Acting(s) = {} /\ Listing(s) = {calls[i].id : i \in 1..k}
    BY <2>1, <2>2, <1>5, AnnounceSingle
  <2>4. {calls[i].id : i \in 1..k} = fresh
    <3>1. \A i \in 1..k : calls[i].id \in fresh
      BY <1>6, <1>9, <1>10
    <3>2. ASSUME NEW q \in fresh PROVE \E i \in 1..k : calls[i].id = q
      <4>1. PICK i \in 1..k : q = Base(n) + made[n] + i
        <5>1. q - (Base(n) + made[n]) \in 1..k /\ q = Base(n) + made[n] + (q - (Base(n) + made[n]))
          BY <1>6, <1>10
        <5> QED
          BY <5>1
      <4> QED
        BY <4>1, <1>9
    <3> QED
      BY <3>1, <3>2
  <2> QED
    BY <2>1, <2>3, <2>4, <1>8
<1>12. Numbers(n)' = Numbers(n) \cup fresh /\ \A m \in Asks : m # n => Numbers(m)' = Numbers(m)
  <2>1. Numbers(n)' = Base(n) + 1..Base(n) + (made[n] + k)
    BY <1>8 DEF Numbers, Base
  <2> QED
    BY <2>1, <1>6, <1>8, <1>10 DEF Numbers, Base
<1>13. \A q \in fresh : ~Stands(q)
  <2>1. SUFFICES ASSUME NEW q \in fresh, NEW i \in 1..Len(entries), entries[i].id = q PROVE FALSE
    BY DEF Stands
  <2>2. q # 0 /\ q \notin Numbers(n) /\ q \in Turn(n)
    BY <1>6, <1>10 DEF Numbers, Turn
  <2>3. PICK m \in Asks : q \in Numbers(m)
    BY <2>1, <2>2 DEF SettleInv, Listed
  <2>4. q \in Turn(m)
    BY <2>3, NumbersOf
  <2>5. m = n
    BY <2>2, <2>4, TurnsApart
  <2> QED
    BY <2>2, <2>3, <2>5
<1>14. \A b \in Asks \cup Modes : Acting(script[b]) = {} /\ Listing(script[b]) = {}
  <2>1. \A m \in Asks : at[m] # "tools"
    BY <1>3, OnlyOneRuns
  <2> QED
    BY <2>1 DEF SettleInv, Alone
<1>15. \A m \in Asks : Owing(m) = {} /\ Owing(m)' = {}
  <2>1. \A m \in Asks : Acting(script[m]) = {} /\ Acting(script'[m]) = {}
    BY <1>8, <1>11, <1>14
  <2> QED
    BY <2>1 DEF Owing, Debts
<1>16. Alone'
  <2>1. ASSUME NEW b \in Asks \cup Modes
        PROVE  Single(script'[b]) /\ (Acting(script'[b]) # {} \/ Listing(script'[b]) # {} => b \in Asks /\ at'[b] = "tools")
    <3>1. CASE b = n
      BY <3>1, <1>8, <1>11
    <3>2. CASE b # n
      BY <3>2, <1>8, <1>14 DEF SettleInv, Alone
    <3> QED
      BY <3>1, <3>2
  <2> QED
    BY <2>1 DEF Alone
<1>17. \A q : (Stands(q)' <=> Stands(q)) /\ (Took(q)' <=> Took(q)) /\ (Owed(q)' <=> Owed(q))
  <2>1. \A q : Stands(q)' <=> Stands(q)
    BY <1>3 DEF Stands
  <2>2. \A q : Took(q)' <=> Took(q)
    BY <1>3 DEF Took
  <2>3. \A q : Owed(q)' <=> Owed(q)
    BY <1>15 DEF Owed
  <2> QED
    BY <2>1, <2>2, <2>3
<1>18. Listed'
  <2>1. \A i, j \in 1..Len(entries') : entries'[i].id # 0 /\ entries'[i].id = entries'[j].id => i = j
    BY <1>3 DEF SettleInv, Listed
  <2>2. ASSUME NEW i \in 1..Len(entries'), entries'[i].id # 0 PROVE \E m \in Asks : entries'[i].id \in Numbers(m)'
    <3>1. PICK q : q = entries[i].id
      OBVIOUS
    <3>2. PICK m \in Asks : q \in Numbers(m)
      BY <3>1, <2>2, <1>3 DEF SettleInv, Listed
    <3>3. q \in Numbers(m)'
      BY <3>2, <1>12
    <3> QED
      BY <3>1, <3>3, <1>3
  <2>3. ASSUME NEW m \in Asks, NEW q \in Listing(script'[m]) PROVE q \in Numbers(m)' /\ ~Stands(q)'
    <3>1. m = n /\ q \in fresh
      BY <2>3, <1>8, <1>11, <1>14
    <3> QED
      BY <3>1, <1>12, <1>13, <1>17
  <2>4. ASSUME NEW m \in Asks, NEW q \in Numbers(m)' PROVE q \in Listing(script'[m]) \/ Stands(q)'
    <3>1. CASE m = n /\ q \in fresh
      BY <3>1, <1>11
    <3>2. CASE q \in Numbers(m)
      BY <3>2, <1>14, <1>17 DEF SettleInv, Listed
    <3> QED
      BY <3>1, <3>2, <2>4, <1>12
  <2> QED
    BY <2>1, <2>2, <2>3, <2>4 DEF Listed
<1>19. Taken'
  <2>1. ASSUME NEW c \in claims' PROVE Stands(c.card)' /\ \E m \in Asks : c.card \in Numbers(m)' /\ c.call \in Numbers(m)'
    <3>1. PICK m \in Asks : c.card \in Numbers(m) /\ c.call \in Numbers(m)
      BY <1>3 DEF SettleInv, Taken
    <3>2. c.card \in Numbers(m)' /\ c.call \in Numbers(m)'
      BY <3>1, <1>12
    <3>3. Stands(c.card)
      BY <1>3 DEF SettleInv, Taken
    <3> QED
      BY <3>2, <3>3, <1>17
  <2>2. \A c, d \in claims' : c.card = d.card => c = d
    BY <1>3 DEF SettleInv, Taken
  <2> QED
    BY <2>1, <2>2 DEF Taken
<1>20. Unclaimed'
  BY <1>3, UnclaimedKept DEF SettleInv
<1>21. Marked'
  <2>1. ASSUME NEW i \in 1..Len(entries'), entries'[i].id # 0
        PROVE  /\ (\E c \in claims' : c.card = entries'[i].id) => entries'[i].marks \cap Settled # {}
               /\ entries'[i].marks \cap Settled # {} => \E c \in claims' : c.card = entries'[i].id
               /\ \E m \in Settled : entries'[i].marks \cap Settled \subseteq {m}
    <3>1. i \in 1..Len(entries) /\ entries'[i] = entries[i] /\ entries[i].id # 0
      BY <2>1, <1>3
    <3>2. ~Owed(entries[i].id)
      BY <1>15 DEF Owed
    <3>3. /\ Took(entries[i].id) => entries[i].marks \cap Settled # {}
          /\ entries[i].marks \cap Settled # {} => Took(entries[i].id)
          /\ \E m \in Settled : entries[i].marks \cap Settled \subseteq {m}
      BY <3>1, <3>2 DEF SettleInv, Marked
    <3> QED
      BY <3>1, <3>3, <1>3 DEF Took
  <2> QED
    BY <2>1, <1>15 DEF Marked, Took, Owed
<1>22. entries' \in Seq(Noted)
  BY <1>3 DEF SettleInv
<1> QED
  BY <1>16, <1>18, <1>19, <1>20, <1>21, <1>22 DEF SettleInv

LEMMA NextSettle == Inv /\ CardInv /\ SettleInv /\ [Next]_vars => SettleInv'
<1> SUFFICES ASSUME Inv, CardInv, SettleInv, [Next]_vars PROVE SettleInv'
  OBVIOUS
<1>1. ASSUME NEW a \in Asks \cup Modes, ScriptSteps(a) PROVE SettleInv'
  BY <1>1, SaysSettle, NoteSettle, UpdateCardSettle, QueueCardSettle, ClaimCardSettle, GoIdleSettle, PlansSettle, ShellSettle DEF ScriptSteps
<1>2. ASSUME NEW n \in Asks, PromptSteps(n) \/ Ask(n) \/ Response(n) \/ Final(n) \/ SendFails(n) \/ ShellLine(n) \/ ShellLongLine(n)
      PROVE  SettleInv'
  BY <1>2, AsksMove, RunToolSettle, ResponseSettle, ShellLineSettle, ShellSettle DEF PromptSteps
<1>3. ASSUME NEW h \in Modes, NEW m \in {"plan", "act"}, SetMode(h, m) PROVE SettleInv'
  BY <1>3, SetModeSettle
<1>4. ASSUME \/ AskBusy \/ Interrupt \/ InterruptTurn \/ ShellDeadline \/ ShellKill \/ LeaderExits \/ ChildExits
             \/ \E t \in Tabs : LoadPage(t) \/ Subscribe(t) \/ Show(t)
             \/ UNCHANGED vars
      PROVE  SettleInv'
  BY <1>4, OutsideSettle
<1> QED
  BY <1>1, <1>2, <1>3, <1>4 DEF Next

\* Two sets joined one to one have the same size.
LEMMA SameSize ==
    ASSUME NEW S, NEW T, IsFiniteSet(S), NEW f \in [S -> T],
           \A x, y \in S : f[x] = f[y] => x = y, \A t \in T : \E x \in S : f[x] = t
    PROVE  IsFiniteSet(T) /\ Cardinality(T) = Cardinality(S)
<1>1. f \in Bijection(S, T)
  BY DEF Bijection, Injection, IsInjective, Surjection
<1>2. ExistsBijection(S, T)
  BY <1>1 DEF ExistsBijection
<1> QED
  BY <1>2, FS_Bijection

\* The cards and calls of a turn.
LEMMA OfTurn ==
    ASSUME Inv, CardInv, NEW n \in Asks, NEW k, \E m \in Asks : k \in Numbers(m)
    PROVE  (k \in Cards /\ k # 0 /\ TurnOf(k) = n - 1) <=> k \in Numbers(n)
<1>1. PICK m \in Asks : k \in Numbers(m)
  OBVIOUS
<1>2. k \in Turn(m)
  BY <1>1, NumbersOf
<1>3. TurnOf(k) = m - 1 /\ k \in Cards /\ k # 0
  BY <1>2, Turns, Bases
<1>4. m - 1 = n - 1 <=> m = n
  BY DEF Asks
<1>5. k \in Numbers(n) => m = n
  BY <1>1, NumbersOf
<1> QED
  BY <1>1, <1>3, <1>4, <1>5

\* What the property counts: the numbers of a turn, its cards that are left open and
\* those that are settled, and its calls that ran.
Ids(n) == {id \in Cards : id # 0 /\ TurnOf(id) = n - 1}
Open(n) == {i \in DOMAIN entries : entries[i].id \in Ids(n) /\ entries[i].marks \cap Settled = {}}
Shut(n) == {i \in DOMAIN entries : entries[i].id \in Ids(n) /\ Cardinality(entries[i].marks \cap Settled) = 1}
CallsRun(n) == {c \in claims : c.call \in Ids(n)}

LEMMA QuietSettles ==
    ASSUME Inv, CardInv, SettleInv, NEW n \in Asks, Quiet(n)
    PROVE  Cardinality(Shut(n)) = Cardinality(CallsRun(n)) /\ Cardinality(Open(n)) = made[n] - Cardinality(CallsRun(n))
<1>0. PICK ids, open, shut, ran : ids = Ids(n) /\ open = Open(n) /\ shut = Shut(n) /\ ran = CallsRun(n)
  OBVIOUS
<1>1. entries \in Seq(Noted) /\ DOMAIN entries = 1..Len(entries) /\ Len(entries) \in Nat
  <2>1. entries \in Seq(Noted)
    BY DEF SettleInv
  <2> QED
    BY <2>1, LenProperties
<1>2. Acting(script[n]) = {} /\ Listing(script[n]) = {}
  <2>1. script[n] \in Seq(Steps) /\ \A i \in 1..Len(script[n]) : script[n][i].do = "send"
    <3>1. script[n] \in Seq(Steps)
      BY DEF Inv, Types
    <3> QED
      BY <3>1, LenProperties DEF Quiet
  <2>2. ActSteps(script[n]) = {} /\ ListSteps(script[n]) = {}
    BY <2>1 DEF ActSteps, ListSteps, Acts, Lists, Settles
  <2> QED
    BY <2>2 DEF Acting, Listing
<1>3. Owing(n) = {}
  BY <1>2 DEF Owing, Debts
<1>4. ASSUME NEW k \in Numbers(n) PROVE Stands(k) /\ ~Owed(k) /\ k # 0
  <2>1. Stands(k) /\ k # 0
    BY <1>2, NumbersOf DEF SettleInv, Listed
  <2>2. ASSUME NEW m \in Asks, k \in Owing(m) PROVE FALSE
    <3>1. k \in Numbers(m)
      BY <2>2 DEF SettleInv, Marked
    <3>2. m = n
      BY <3>1, NumbersOf
    <3> QED
      BY <3>2, <2>2, <1>3
  <2> QED
    BY <2>1, <2>2 DEF Owed
<1>5. ASSUME NEW i \in DOMAIN entries PROVE entries[i].id \in ids <=> entries[i].id \in Numbers(n)
  <2>1. CASE entries[i].id = 0
    BY <2>1, <1>0, <1>4 DEF Ids
  <2>2. CASE entries[i].id # 0
    <3>1. \E m \in Asks : entries[i].id \in Numbers(m)
      BY <2>2, <1>1 DEF SettleInv, Listed
    <3> QED
      BY <3>1, <1>0, OfTurn DEF Ids
  <2> QED
    BY <2>1, <2>2
<1>6. ASSUME NEW c \in claims PROVE (c.call \in ids <=> c.call \in Numbers(n)) /\ (c.call \in Numbers(n) <=> c.card \in Numbers(n))
  <2>1. PICK m \in Asks : c.card \in Numbers(m) /\ c.call \in Numbers(m)
    BY DEF SettleInv, Taken
  <2>2. c.call \in ids <=> c.call \in Numbers(n)
    BY <2>1, <1>0, OfTurn DEF Ids
  <2>3. (c.call \in Numbers(n) <=> m = n) /\ (c.card \in Numbers(n) <=> m = n)
    BY <2>1, NumbersOf
  <2> QED
    BY <2>2, <2>3
\* The entries of the turn are its cards, one for each number.
<1>7. PICK noted : noted = {i \in DOMAIN entries : entries[i].id \in Numbers(n)}
  OBVIOUS
<1>8. IsFiniteSet(noted) /\ Cardinality(noted) = made[n]
  <2>1. IsFiniteSet(1..Len(entries)) /\ noted \subseteq 1..Len(entries)
    BY <1>1, <1>7, FS_Interval
  <2>2. IsFiniteSet(noted)
    BY <2>1, FS_Subset
  <2>3. Cardinality(Numbers(n)) = made[n]
    <3>1. Base(n) \in Nat /\ made[n] \in Nat
      BY NumbersOf
    <3>2. PICK b, t \in Int : b = Base(n) + 1 /\ t = Base(n) + made[n]
      BY <3>1
    <3>3. Cardinality(b..t) = IF b > t THEN 0 ELSE t - b + 1
      BY FS_Interval
    <3>4. Cardinality(b..t) = made[n]
      BY <3>1, <3>2, <3>3
    <3> QED
      BY <3>2, <3>4 DEF Numbers
  <2>4. PICK f : f = [i \in noted |-> entries[i].id]
    OBVIOUS
  <2>5. f \in [noted -> Numbers(n)]
    BY <2>4, <1>7
  <2>6. ASSUME NEW i \in noted, NEW j \in noted, f[i] = f[j] PROVE i = j
    <3>1. i \in 1..Len(entries) /\ j \in 1..Len(entries) /\ entries[i].id = entries[j].id /\ entries[i].id # 0
      BY <2>4, <2>6, <1>1, <1>4, <1>7
    <3> QED
      BY <3>1 DEF SettleInv, Listed
  <2>7. ASSUME NEW k \in Numbers(n) PROVE \E i \in noted : f[i] = k
    <3>1. PICK i \in 1..Len(entries) : entries[i].id = k
      BY <1>4 DEF Stands
    <3> QED
      BY <3>1, <2>4, <1>1, <1>7
  <2> QED
    BY <2>2, <2>3, <2>5, <2>6, <2>7, SameSize
\* Those that are settled are those that were taken.
<1>9. ASSUME NEW i \in noted
      PROVE  /\ entries[i].marks \cap Settled # {} <=> Took(entries[i].id)
             /\ Cardinality(entries[i].marks \cap Settled) = 1 <=> entries[i].marks \cap Settled # {}
  <2>1. i \in 1..Len(entries) /\ entries[i].id # 0 /\ ~Owed(entries[i].id)
    BY <1>1, <1>4, <1>7
  <2>2. /\ Took(entries[i].id) => entries[i].marks \cap Settled # {}
        /\ entries[i].marks \cap Settled # {} => Took(entries[i].id)
        /\ \E m \in Settled : entries[i].marks \cap Settled \subseteq {m}
    BY <2>1 DEF SettleInv, Marked
  <2>3. PICK s : s = entries[i].marks \cap Settled
    OBVIOUS
  <2>4. s = {} \/ \E m : s = {m}
    BY <2>2, <2>3
  <2>5. Cardinality(s) = 1 <=> s # {}
    BY <2>4, FS_EmptySet, FS_Singleton
  <2> QED
    BY <2>2, <2>3, <2>5
<1>10. shut = {i \in noted : Took(entries[i].id)} /\ open = noted \ shut
  <2>1. \A i : i \in noted <=> i \in DOMAIN entries /\ entries[i].id \in ids
    BY <1>5, <1>7
  <2> QED
    BY <2>1, <1>0, <1>9 DEF Open, Shut
<1>11. IsFiniteSet(shut) /\ shut \subseteq noted
  BY <1>8, <1>10, FS_Subset
<1>12. Cardinality(ran) = Cardinality(shut)
  <2>1. PICK f : f = [i \in shut |-> CHOOSE c \in claims : c.card = entries[i].id]
    OBVIOUS
  <2>2. ASSUME NEW i \in shut PROVE f[i] \in claims /\ f[i].card = entries[i].id
    <3>1. \E c \in claims : c.card = entries[i].id
      BY <1>10 DEF Took
    <3> QED
      BY <3>1, <2>1
  <2>3. ASSUME NEW i \in shut PROVE f[i] \in ran
    <3>1. f[i].card \in Numbers(n)
      BY <2>2, <1>7, <1>11
    <3> QED
      BY <3>1, <2>2, <1>0, <1>6 DEF CallsRun
  <2>4. f \in [shut -> ran]
    BY <2>1, <2>3
  <2>5. ASSUME NEW i \in shut, NEW j \in shut, f[i] = f[j] PROVE i = j
    <3>1. i \in 1..Len(entries) /\ j \in 1..Len(entries) /\ entries[i].id = entries[j].id /\ entries[i].id # 0
      BY <2>2, <2>5, <1>1, <1>4, <1>7, <1>11
    <3> QED
      BY <3>1 DEF SettleInv, Listed
  <2>6. ASSUME NEW c \in ran PROVE \E i \in shut : f[i] = c
    <3>1. c \in claims /\ c.card \in Numbers(n)
      BY <1>0, <1>6 DEF CallsRun
    <3>2. PICK i \in 1..Len(entries) : entries[i].id = c.card
      BY <3>1, <1>4 DEF Stands
    <3>3. i \in noted /\ Took(entries[i].id)
      BY <3>1, <3>2, <1>1, <1>7 DEF Took
    <3>4. i \in shut
      BY <3>3, <1>10
    <3>5. f[i] \in claims /\ f[i].card = c.card
      BY <3>2, <3>4, <2>2
    <3> QED
      BY <3>1, <3>4, <3>5 DEF SettleInv, Taken
  <2>7. \A i, j \in shut : f[i] = f[j] => i = j
    BY <2>5
  <2>8. \A c \in ran : \E i \in shut : f[i] = c
    BY <2>6
  <2>9. PICK S, T : S = shut /\ T = ran
    OBVIOUS
  <2>10. IsFiniteSet(S) /\ f \in [S -> T] /\ (\A i, j \in S : f[i] = f[j] => i = j) /\ \A c \in T : \E i \in S : f[i] = c
    BY <2>4, <2>7, <2>8, <2>9, <1>11, Zenon
  <2>11. Cardinality(T) = Cardinality(S)
    BY <2>10, SameSize
  <2> QED
    BY <2>9, <2>11
<1>13. Cardinality(open) = Cardinality(noted) - Cardinality(shut)
  <2>1. noted \cap shut = shut
    BY <1>11
  <2>2. Cardinality(noted \ shut) = Cardinality(noted) - Cardinality(noted \cap shut)
    BY <1>8, FS_Difference
  <2>3. open = noted \ shut
    BY <1>10
  <2> QED
    BY <2>1, <2>2, <2>3, Zenon
<1> QED
  BY <1>0, <1>8, <1>12, <1>13

(* ------------------------------- theorems ------------------------------- *)

LEMMA ConsoleInvariant == Spec => []Inv
BY InitInv, NextInv, PTL DEF Spec

LEMMA CardInvariant == Spec => []CardInv
BY InitInv, NextInv, InitCards, NextCards, PTL DEF Spec

LEMMA SettleInvariant == Spec => []SettleInv
BY InitSettle, NextSettle, ConsoleInvariant, CardInvariant, PTL DEF Spec

LEMMA LiveInvariant == Spec => []LiveInv
<1>1. Spec => []Inv
  BY ConsoleInvariant
<1> QED
  BY <1>1, InitLive, NextLive, PTL DEF Spec

\* The console refuses a message while it is busy (Session.Ask), and what it lets
\* through core.Session never refuses: it is idle no sooner than the session is.
THEOREM EveryAskIsAdmitted == Spec => []AskIsAdmitted
<1>1. Inv => AskIsAdmitted
  BY DEF Inv
<1>2. QED
  BY <1>1, ConsoleInvariant, PTL

\* From the moment plan mode is set at most one write or command goes through, the
\* one that had asked before (Session.planning and the tools that call it).
THEOREM PlanModeRefuses == Spec => []PlanRefuses
<1>1. Inv => PlanRefuses
  BY DEF Inv, Planned, PlanRefuses
<1>2. QED
  BY <1>1, ConsoleInvariant, PTL

\* A tool that runs takes the oldest card of its name (Session.claimCard): a card of
\* its own turn, not queued for a later call, and another's than its own only if a
\* call before it in the turn left its card where it was.
THEOREM ToolsDrawOnTheirOwn == Spec => []CardIsOwn
<1>1. CardInv => CardIsOwn
  BY DEF CardInv
<1>2. QED
  BY <1>1, CardInvariant, PTL

\* When a prompt is over none of its cards is left running: each of its calls that ran
\* (Session.claimCard) settled one card and no two the same, by the step its tool ends
\* with (updateCard), and the cards left open are those of the calls that never asked.
THEOREM EveryCallSettlesACard == Spec => []EveryCardSettles
<1>1. Inv /\ CardInv /\ SettleInv => EveryCardSettles
  BY QuietSettles DEF EveryCardSettles, Ids, Open, Shut, CallsRun
<1> QED
  BY <1>1, ConsoleInvariant, CardInvariant, SettleInvariant, PTL

\* A tab that missed no frame (Hub.Send drops those that find its buffer full) and has
\* shown what it was sent shows what a reload would, while nothing is on its way:
\* what a method of Session records is sent next, by the goroutine that recorded it,
\* and no other records in between (agent.go); what a frame does to a page (Shown) is
\* what was done to the transcript, and a reload draws the transcript (Rendered).  Not
\* alike are the output of a running command, the look of a refused card and the cards
\* that say "busy": LiveMatchesReplay leaves them out.
THEOREM TabsShowTheTranscript == Spec => []LiveMatchesReplay
<1>1. Inv /\ LiveInv => LiveMatchesReplay
  <2> SUFFICES ASSUME Inv, LiveInv, NEW t \in Tabs, tabs[t].st = "open", tabs[t].queue = <<>>, ~Sending
               PROVE  /\ Common(tabs[t].cards) = Common(Rendered(entries))
                      /\ tabs[t].meter = turns /\ tabs[t].todos = todos
                      /\ crossed \/ tabs[t].mode = mode
    BY DEF LiveMatchesReplay
  <2>1. PICK p \in Pages : p = tabs[t] /\ Follows(p)
    BY DEF LiveInv, Paged
  <2>2. Len(p.queue) = 0
    BY <2>1
  <2>3. Fits(Bare(p))
    BY <2>1, <2>2 DEF Follows
  <2>4. \A a \in Asks \cup Modes : ~Doing(a, "send")
    BY DEF Sending, Inv, Types
  <2>5. \A n \in Asks : ~Untold(n)
    BY <2>4 DEF Untold, Tells, Doing
  <2>6. crossed \in BOOLEAN
    BY DEF LiveInv, Paged
  <2>7. Same(Bare(p)) /\ (crossed \/ Bare(p).mode = mode)
    BY <2>3, <2>4, <2>5, <2>6 DEF Fits
  <2>8. Bare(p).cards = p.cards /\ Bare(p).meter = p.meter /\ Bare(p).todos = p.todos /\ Bare(p).mode = p.mode
    BY Bared
  <2>9. Common(Rendered(entries)) = Common(entries)
    BY Renders DEF LiveInv, Paged
  <2> QED
    BY <2>1, <2>7, <2>8, <2>9 DEF Same
<1> QED
  BY <1>1, ConsoleInvariant, LiveInvariant, PTL
=============================================================================
