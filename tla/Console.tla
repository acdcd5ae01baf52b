------------------------------- MODULE Console -------------------------------
(***************************************************************************)
(* One session of the web console (examples/webharness): the HTTP handlers, *)
(* the goroutine of each prompt with the tools it runs, the hub and the     *)
(* browser tabs.                                                            *)
(*                                                                         *)
(* What a goroutine still has to do is its script: critical sections of     *)
(* s.mu (note, set, claim, ...) and sends to the hub, one at a time.  The   *)
(* backend is external/anthropic: a prompt's tools run one after the other  *)
(* on its goroutine, after the tool calls of a response were announced.     *)
(***************************************************************************)
EXTENDS Naturals, Sequences, FiniteSets, SequencesExt, Functions

CONSTANTS MaxAsks,      \* bound on the messages sent to the agent
          CallKinds,    \* the tool calls a model makes: [name, decodes]; one that does
                        \* not decode, or cannot list the files, leaves its card alone
          MaxCalls,     \* bound on the tool calls of one prompt
          MaxTotal,     \* bound on the tool calls of all prompts
          MaxModes,     \* bound on the mode changes
          MaxStops,     \* bound on the uses of Stop
          WatchedCalls, \* bound on the tool calls of all prompts in a session that has tabs
          StopsWatched, \* bound: whether Stop is used in a session that has tabs or mode changes
          Tabs,         \* the browser tabs
          Capacity      \* the frames a tab may lag behind; 256 in the code

ASSUME ConsoleAssumption ==
    /\ MaxAsks \in Nat /\ MaxCalls \in Nat /\ MaxTotal \in Nat /\ WatchedCalls \in Nat /\ MaxModes \in Nat
    /\ MaxStops \in Nat /\ Capacity \in Nat
    /\ StopsWatched \in BOOLEAN
    /\ CallKinds \subseteq [name : {"read", "todo", "write", "shell", "other"}, decodes : BOOLEAN]

Asks == 1..MaxAsks
Modes == MaxAsks + 1..MaxAsks + MaxModes        \* the handlers that change the mode
Cards == 0..MaxAsks * MaxCalls                  \* 0: no card
Names == {"read", "todo", "write", "shell", "other"}

VARIABLES
    mode, busy, todos, turns, pending, entries,   \* the fields of Session
    killCmd,            \* killCmd: the shell it would kill is the one that runs
    script,             \* what each goroutine still has to do
    at,                 \* where the goroutine of each prompt is
    inFlight,           \* core.Session: a prompt is in flight
    registered,         \* anthropic: the prompt whose cancel is c.cancel; 0: none
    cancelled,          \* prompts whose context is done
    work, made,         \* tool calls not run yet; how many were made, by prompt
    shell,              \* the command that runs
    orphans,            \* history: children left by commands that were killed
    stops, stopping,    \* uses of Stop; the handler is between its two halves
    tabs,               \* the tabs: their page and the frames on the way
    claims,             \* history: the call that ran and the card it took
    slipped,            \* history: writes since the mode was set last
    crossed             \* history: two mode changes were on their way at once

core == <<at, inFlight, registered, cancelled, work, made>>
own == <<mode, busy, todos, turns, pending, entries, killCmd>>
cmd == <<shell, orphans, stops, stopping>>
vars == <<own, script, core, cmd, tabs, claims, slipped, crossed>>

Silence == [card |-> 0, leader |-> FALSE, child |-> "none", done |-> FALSE, lines |-> 0]
\* A page; busy: its stream also holds cards that say the agent is busy.
NoPage == [st |-> "none", cards |-> <<>>, busy |-> FALSE, meter |-> 0, todos |-> 0, mode |-> "act", queue |-> <<>>]
Lost == [NoPage EXCEPT !.st = "lost"]       \* a tab that missed a frame; it is not followed further

Init ==
    /\ mode = "act" /\ busy = FALSE /\ todos = 0 /\ turns = 0
    /\ pending = [n \in Names |-> <<>>] /\ entries = <<>> /\ killCmd = FALSE
    /\ script = [a \in Asks \cup Modes |-> <<>>]
    /\ at = [n \in Asks |-> "free"] /\ inFlight = FALSE /\ registered = 0 /\ cancelled = {}
    /\ work = <<>> /\ made = [n \in Asks |-> 0]
    /\ shell = Silence /\ orphans = 0 /\ stops = 0 /\ stopping = FALSE
    /\ tabs = [t \in Tabs |-> NoPage]
    /\ claims = {} /\ slipped = 0 /\ crossed = FALSE

(* ------------------------------ the scripts ----------------------------- *)

\* An entry is a card or a message: which call made it, and what was added to it.
\* "read", "write" and "deny" are how it was settled: they are on its tick, and
\* "refused" is the look of a refused call on the card itself.
Entry(kind, id) == [kind |-> kind, id |-> id, marks |-> {}]
Do(what) == [do |-> what]
NoteStep(kind, id) == [do |-> "note", entry |-> Entry(kind, id)]
SendStep(frame) == [do |-> "send", frame |-> frame]
SetStep(id, mark) == [do |-> "set", id |-> id, mark |-> mark]
Fragment(kind, id) == [to |-> "stream", entry |-> Entry(kind, id)]
Patch(id, mark) == [to |-> "card", id |-> id, mark |-> mark]
Header(field, value) == [to |-> field, value |-> value]

Tell(kind) == <<NoteStep(kind, 0), SendStep(Fragment(kind, 0))>>
Put(id, mark) == <<SetStep(id, mark), SendStep(Patch(id, mark))>>
StopButton == SendStep(Header("stop", 0))

\* The events of a response: the card is queued for its tool, noted and sent.  (Its
\* tick on the rail is sent the same way and not modelled on its own.)
Announce(call) ==
    <<[do |-> "queue", call |-> call], NoteStep("tool", call.id), SendStep(Fragment("tool", call.id))>>
AnnounceAll(calls) ==
    [i \in 1..3 * Len(calls) |-> Announce(calls[((i - 1) \div 3) + 1])[((i - 1) % 3) + 1]]

\* settleCard: only the tick is sent again, the card on the page stays as it is.
Settle(card, kind) == IF card = 0 THEN <<>> ELSE Put(card, kind)
ShowDiff(card) == IF card = 0 THEN <<>> ELSE Put(card, "diff") \o Settle(card, "write")

\* Broken: a tool that fails leaves its card as it is.
FailQuietly(card) == IF card = 0 THEN <<>> ELSE Put(card, "note")
Fail(card) == IF card = 0 THEN <<>> ELSE Put(card, "note") \o Settle(card, "deny")
FinishShell(card, kind) ==
    IF card = 0 THEN <<>> ELSE <<SetStep(card, "out"), SetStep(card, "exit"), SendStep(Patch(card, "exit"))>> \o Settle(card, kind)

Idle == <<Do("idle"), StopButton>>
Finish == <<Do("meter")>> \o Idle

Failed == Tell("error") \o Idle
ToolScript(call) ==
    CASE call.name = "other" -> Tell("deny")     \* not one of the console's tools
      [] call.name # "other" /\ ~call.decodes -> <<>>
      [] call.name = "todo" /\ call.decodes -> <<[do |-> "todos", call |-> call], SendStep(Header("todos", call.id)), [do |-> "claim", call |-> call]>>
      [] OTHER -> <<[do |-> "claim", call |-> call]>>

(* ---------------------------- steps of a script ------------------------- *)

Doing(a, what) == script[a] # <<>> /\ Head(script[a]).do = what
Now(a) == Head(script[a])
Then(a, steps) == script' = [script EXCEPT ![a] = steps \o Tail(@)]

\* Broken: a frame that finds a tab's buffer full takes the place of the oldest.
PushOver(frame) ==
    tabs' = [t \in Tabs |->
        CASE tabs[t].st = "open" /\ Len(tabs[t].queue) < Capacity -> [tabs[t] EXCEPT !.queue = Append(@, frame)]
          [] tabs[t].st = "open" /\ Len(tabs[t].queue) >= Capacity -> [tabs[t] EXCEPT !.queue = Append(Tail(@), frame)]
          [] tabs[t].st = "loaded" -> Lost
          [] OTHER -> tabs[t]]

\* Send: to every tab that follows the session, unless its buffer is full.
Push(frame) ==
    tabs' = [t \in Tabs |->
        CASE tabs[t].st = "open" /\ Len(tabs[t].queue) < Capacity -> [tabs[t] EXCEPT !.queue = Append(@, frame)]
          [] tabs[t].st = "open" /\ Len(tabs[t].queue) >= Capacity -> Lost
          [] tabs[t].st = "loaded" -> Lost
          [] OTHER -> tabs[t]]

Send(a) ==
    /\ Doing(a, "send")
    /\ Push(Now(a).frame) /\ Then(a, <<>>)
    /\ UNCHANGED <<own, core, cmd, claims, slipped, crossed>>

Note(a) ==
    /\ Doing(a, "note")
    /\ entries' = Append(entries, Now(a).entry) /\ Then(a, <<>>)
    /\ UNCHANGED <<mode, busy, todos, turns, pending, killCmd, core, cmd, tabs, claims, slipped, crossed>>

\* updateCard: the card of that id, if it was noted.
Patched(cards, id, mark) ==
    [i \in DOMAIN cards |-> IF cards[i].id = id THEN [cards[i] EXCEPT !.marks = @ \cup {mark}] ELSE cards[i]]
UpdateCard(a) ==
    /\ Doing(a, "set")
    /\ entries' = Patched(entries, Now(a).id, Now(a).mark)
    /\ Then(a, <<>>)
    /\ UNCHANGED <<mode, busy, todos, turns, pending, killCmd, core, cmd, tabs, claims, slipped, crossed>>

QueueCard(a) ==
    /\ Doing(a, "queue")
    /\ pending' = [pending EXCEPT ![Now(a).call.name] = Append(@, Now(a).call.id)] /\ Then(a, <<>>)
    /\ UNCHANGED <<mode, busy, todos, turns, entries, killCmd, core, cmd, tabs, claims, slipped, crossed>>

\* What a tool does with the card it claimed.
WithCard(call, card) ==
    IF call.name \in {"read", "todo"} THEN Settle(card, "read") ELSE <<[do |-> "plan", call |-> call, card |-> card]>>

ClaimCard(a) ==
    /\ Doing(a, "claim")
    /\ LET call == Now(a).call  q == pending[call.name]  card == IF q = <<>> THEN 0 ELSE Head(q) IN
       /\ pending' = [pending EXCEPT ![call.name] = IF @ = <<>> THEN @ ELSE Tail(@)]
       /\ claims' = claims \cup {[call |-> call.id, card |-> card]}
       /\ Then(a, WithCard(call, card))
    /\ UNCHANGED <<mode, busy, todos, turns, entries, killCmd, core, cmd, tabs, slipped, crossed>>

SetTodos(a) ==
    /\ Doing(a, "todos")
    /\ todos' = Now(a).call.id /\ Then(a, <<>>)
    /\ UNCHANGED <<mode, busy, turns, pending, entries, killCmd, core, cmd, tabs, claims, slipped, crossed>>

\* finish: the meter first, idle after it was sent.
Meter(a) ==
    /\ Doing(a, "meter")
    /\ turns' = turns + 1 /\ Then(a, <<SendStep(Header("meter", turns + 1))>>)
    /\ UNCHANGED <<mode, busy, todos, pending, entries, killCmd, core, cmd, tabs, claims, slipped, crossed>>

\* Broken: the cards nobody claimed are kept for the next turn.
GoIdleKeeping(a) ==
    /\ Doing(a, "idle")
    /\ busy' = FALSE /\ Then(a, <<>>)
    /\ UNCHANGED <<mode, todos, turns, pending, entries, killCmd, core, cmd, tabs, claims, slipped, crossed>>

GoIdle(a) ==
    /\ Doing(a, "idle")
    /\ busy' = FALSE /\ pending' = [n \in Names |-> <<>>] /\ Then(a, <<>>)
    /\ UNCHANGED <<mode, todos, turns, entries, killCmd, core, cmd, tabs, claims, slipped, crossed>>

\* Broken: plan mode is not asked for.
WriteUnchecked(a) ==
    /\ Doing(a, "plan")
    /\ LET call == Now(a).call  card == Now(a).card IN
       \/ Then(a, <<[do |-> call.name, card |-> card]>>)
       \/ call.name = "shell" /\ Then(a, Fail(card))
    /\ UNCHANGED <<own, core, cmd, tabs, claims, slipped, crossed>>

\* A write or a command asks for the mode once, before it does anything.  (A shell
\* with an empty command fails before that.)
CheckPlan(a) ==
    /\ Doing(a, "plan")
    /\ LET call == Now(a).call  card == Now(a).card IN
       \/ Then(a, IF mode = "plan" THEN Fail(card) ELSE <<[do |-> call.name, card |-> card]>>)
       \/ call.name = "shell" /\ Then(a, Fail(card))
    /\ UNCHANGED <<own, core, cmd, tabs, claims, slipped, crossed>>

\* write_file and edit_file, past their check: the path or the text is refused, the
\* file cannot be written, or the file is changed.
Write(a) ==
    /\ Doing(a, "write")
    /\ \/ Then(a, Fail(Now(a).card)) /\ UNCHANGED slipped
       \/ Then(a, ShowDiff(Now(a).card)) /\ slipped' = slipped + 1
    /\ UNCHANGED <<own, core, cmd, tabs, claims, crossed>>

(* ------------------------------- the shell ------------------------------ *)

\* The command starts, with a child or without; a child may have closed the pipe.
StartShell(a) ==
    /\ Doing(a, "shell")
    /\ \/ Then(a, Fail(Now(a).card)) /\ UNCHANGED <<shell, killCmd, slipped>>
       \/ \E c \in {"none", "pipe", "quiet"} :
             /\ shell' = [Silence EXCEPT !.card = Now(a).card, !.leader = TRUE, !.child = c, !.done = a \in cancelled]
             /\ killCmd' = TRUE /\ slipped' = slipped + 1
             /\ Then(a, <<Do("scan")>>)
    /\ UNCHANGED <<mode, busy, todos, turns, pending, entries, core, orphans, stops, stopping, tabs, claims, crossed>>

\* A line of output: sent to the tabs, and kept until the command is done.
ShellLine(a) ==
    /\ Doing(a, "scan") /\ (shell.leader \/ shell.child = "pipe") /\ shell.lines = 0
    /\ shell' = [shell EXCEPT !.lines = 1]
    /\ script' = [script EXCEPT ![a] = (IF shell.card = 0 THEN <<>> ELSE <<SendStep(Patch(shell.card, "out"))>>) \o @]
    /\ UNCHANGED <<own, core, orphans, stops, stopping, tabs, claims, slipped, crossed>>

\* The reader stops at the end of the pipe, or at a line of more than 1 MiB; then
\* it waits for the command, not for its children.
ShellRead(a) ==
    /\ Doing(a, "scan") /\ ~shell.leader /\ shell.child # "pipe"
    /\ Then(a, <<Do("wait")>>)
    /\ UNCHANGED <<own, core, cmd, tabs, claims, slipped, crossed>>
ShellLongLine(a) ==
    /\ Doing(a, "scan") /\ (shell.leader \/ shell.child = "pipe")
    /\ Then(a, <<Do("wait")>>)
    /\ UNCHANGED <<own, core, cmd, tabs, claims, slipped, crossed>>

ShellDone(a) ==
    /\ Doing(a, "wait") /\ ~shell.leader
    /\ \E kind \in IF shell.done THEN {"deny"} ELSE {"write", "deny"} : Then(a, FinishShell(shell.card, kind))
    /\ orphans' = IF shell.done /\ shell.child # "none" THEN orphans + 1 ELSE orphans
    /\ shell' = Silence /\ killCmd' = FALSE
    /\ UNCHANGED <<mode, busy, todos, turns, pending, entries, core, stops, stopping, tabs, claims, slipped, crossed>>

\* The deadline passes; a context that is done kills the command, and only it: its
\* group is not signalled.
ShellDeadline ==
    /\ shell.leader /\ ~shell.done
    /\ shell' = [shell EXCEPT !.done = TRUE]
    /\ UNCHANGED <<own, script, core, orphans, stops, stopping, tabs, claims, slipped, crossed>>
ShellKill ==
    /\ shell.leader /\ shell.done
    /\ shell' = [shell EXCEPT !.leader = FALSE]
    /\ UNCHANGED <<own, script, core, orphans, stops, stopping, tabs, claims, slipped, crossed>>
LeaderExits ==
    /\ shell.leader
    /\ shell' = [shell EXCEPT !.leader = FALSE]
    /\ UNCHANGED <<own, script, core, orphans, stops, stopping, tabs, claims, slipped, crossed>>
ChildExits ==
    /\ shell.child # "none"
    /\ shell' = [shell EXCEPT !.child = "none"]
    /\ UNCHANGED <<own, script, core, orphans, stops, stopping, tabs, claims, slipped, crossed>>

(* ------------------------------- a prompt ------------------------------- *)

At(n, l) == at[n] = l /\ script[n] = <<>>
Goes(n, l) == at' = [at EXCEPT ![n] = l]

\* Ask: the gate; the handler notes the message, and starts the goroutine.
Ask(n) ==
    /\ at[n] = "free" /\ (\A m \in 1..n - 1 : at[m] # "free") /\ ~busy
    /\ busy' = TRUE /\ Goes(n, "asked")
    /\ script' = [script EXCEPT ![n] = Tell("user") \o <<StopButton>>]
    /\ UNCHANGED <<mode, todos, turns, pending, entries, killCmd, inFlight, registered, cancelled, work, made, cmd, tabs, claims, slipped, crossed>>
\* A message while a turn runs: a card that says so, told to every tab and not noted.
AskBusy ==
    /\ busy /\ \E t \in Tabs : tabs[t].st = "open" /\ Header("busy", 0) \notin ToSet(tabs[t].queue)
    /\ Push(Header("busy", 0))
    /\ UNCHANGED <<own, script, core, cmd, claims, slipped, crossed>>

\* core.Session.Prompt refuses a second prompt; the backend's cancel is there a
\* moment later.
Prompt(n) ==
    /\ At(n, "asked")
    /\ IF inFlight THEN Goes(n, "refused") /\ script' = [script EXCEPT ![n] = Failed] /\ UNCHANGED inFlight
                   ELSE Goes(n, "begun") /\ inFlight' = TRUE /\ UNCHANGED script
    /\ UNCHANGED <<own, registered, cancelled, work, made, cmd, tabs, claims, slipped, crossed>>
Register(n) ==
    /\ At(n, "begun")
    /\ registered' = n /\ Goes(n, "sending")
    /\ UNCHANGED <<own, script, inFlight, cancelled, work, made, cmd, tabs, claims, slipped, crossed>>

Made == FoldFunction(+, 0, made)
Watched == \E t \in Tabs : tabs[t].st # "none"
ModeKept == \A h \in Modes : script[h] = <<>>
Call(n, k, kind) == [id |-> (n - 1) * MaxCalls + k, name |-> kind.name, decodes |-> kind.decodes]

\* A response: its tool calls are told before the first tool runs.  (A text beside
\* them is noted and sent before them in the same way, and left out.)
Response(n) ==
    /\ At(n, "sending")
    /\ \E kinds \in BoundedSeq(CallKinds, MaxCalls) \ {<<>>} :
          LET calls == [i \in DOMAIN kinds |-> Call(n, made[n] + i, kinds[i])] IN
          /\ made[n] + Len(kinds) <= MaxCalls /\ Made + Len(kinds) <= (IF Watched THEN WatchedCalls ELSE MaxTotal)
          /\ work' = calls /\ made' = [made EXCEPT ![n] = @ + Len(calls)]
          /\ script' = [script EXCEPT ![n] = AnnounceAll(calls)]
    /\ Goes(n, "tools")
    /\ UNCHANGED <<own, inFlight, registered, cancelled, cmd, tabs, claims, slipped, crossed>>

\* The tools run whatever became of the context.
RunTool(n) ==
    /\ At(n, "tools") /\ work # <<>>
    /\ work' = Tail(work) /\ script' = [script EXCEPT ![n] = ToolScript(Head(work))]
    /\ UNCHANGED <<own, at, inFlight, registered, cancelled, made, cmd, tabs, claims, slipped, crossed>>
ToolsDone(n) ==
    /\ At(n, "tools") /\ work = <<>>
    /\ Goes(n, "sending")
    /\ UNCHANGED <<own, script, inFlight, registered, cancelled, work, made, cmd, tabs, claims, slipped, crossed>>

\* The last response: its text is told, then core.Session takes the next prompt and
\* only then tells of the turn.
Final(n) ==
    /\ At(n, "sending")
    /\ Goes(n, "leaving") /\ script' = [script EXCEPT ![n] = Tell("agent")]
    /\ UNCHANGED <<own, inFlight, registered, cancelled, work, made, cmd, tabs, claims, slipped, crossed>>

LeaveSlowly(n) ==   \* broken: the turn is told before the session takes another
    \/ At(n, "leaving") /\ Goes(n, "telling") /\ script' = [script EXCEPT ![n] = Finish]
       /\ UNCHANGED <<own, inFlight, registered, cancelled, work, made, cmd, tabs, claims, slipped, crossed>>
    \/ At(n, "telling") /\ Goes(n, "left") /\ inFlight' = FALSE
       /\ UNCHANGED <<own, script, registered, cancelled, work, made, cmd, tabs, claims, slipped, crossed>>
Leave(n) ==
    /\ At(n, "leaving")
    /\ Goes(n, "left") /\ inFlight' = FALSE
    /\ script' = [script EXCEPT ![n] = Finish]
    /\ UNCHANGED <<own, registered, cancelled, work, made, cmd, tabs, claims, slipped, crossed>>

\* The request fails, or its context is done.
SendFails(n) ==
    /\ At(n, "sending")
    /\ Goes(n, "left") /\ inFlight' = FALSE
    /\ script' = [script EXCEPT ![n] = Failed]
    /\ UNCHANGED <<own, registered, cancelled, work, made, cmd, tabs, claims, slipped, crossed>>

(* ------------------------------ other handlers -------------------------- *)

\* Interrupt: the command that runs is killed, then the backend's turn cancelled.
Interrupt ==
    /\ stops < MaxStops /\ ~stopping
    /\ StopsWatched \/ (~Watched /\ ModeKept)
    /\ stops' = stops + 1 /\ stopping' = TRUE
    /\ shell' = IF killCmd THEN [shell EXCEPT !.done = TRUE] ELSE shell
    /\ UNCHANGED <<own, script, core, orphans, tabs, claims, slipped, crossed>>
\* Broken: a command's context is not made from its prompt's.
InterruptTurnOnly ==
    /\ stopping
    /\ stopping' = FALSE
    /\ cancelled' = cancelled \cup ({registered} \ {0})
    /\ UNCHANGED <<own, script, at, inFlight, registered, work, made, shell, orphans, stops, tabs, claims, slipped, crossed>>

InterruptTurn ==
    /\ stopping
    /\ stopping' = FALSE
    /\ cancelled' = cancelled \cup ({registered} \ {0})
    /\ shell' = IF killCmd THEN [shell EXCEPT !.done = TRUE] ELSE shell
    /\ UNCHANGED <<own, script, at, inFlight, registered, work, made, orphans, stops, tabs, claims, slipped, crossed>>

SetMode(h, m) ==
    /\ script[h] = <<>> /\ (StopsWatched \/ stops = 0)
    /\ mode' = m /\ slipped' = 0
    /\ crossed' = (crossed \/ \E g \in Modes : Doing(g, "send"))
    /\ script' = [script EXCEPT ![h] = <<SendStep(Header("mode", m)), Do("returned")>>]
    /\ UNCHANGED <<busy, todos, turns, pending, entries, killCmd, core, cmd, tabs, claims>>

(* --------------------------------- tabs --------------------------------- *)

\* Something is recorded and its frame not sent yet.
Sending == \E a \in DOMAIN script : Doing(a, "send")

\* Replay: a card that was settled with "deny" is drawn as refused.
Rendered(cards) ==
    [i \in DOMAIN cards |-> IF "deny" \in cards[i].marks THEN [cards[i] EXCEPT !.marks = @ \cup {"refused"}] ELSE cards[i]]

\* The page is made from the transcript; then the tab asks for the frames.  (What
\* is being sent when the page is made may reach the tab twice or never: such a tab
\* is not followed either.)
LoadPage(t) ==
    /\ tabs[t].st = "none" /\ (StopsWatched \/ stops = 0) /\ Made <= WatchedCalls
    /\ tabs' = [tabs EXCEPT ![t] = IF Sending THEN Lost ELSE
                   [NoPage EXCEPT !.st = "loaded", !.cards = Rendered(entries), !.meter = turns, !.todos = todos, !.mode = mode]]
    /\ UNCHANGED <<own, script, core, cmd, claims, slipped, crossed>>
Subscribe(t) ==
    /\ tabs[t].st = "loaded"
    /\ tabs' = [tabs EXCEPT ![t].st = "open"]
    /\ UNCHANGED <<own, script, core, cmd, claims, slipped, crossed>>

\* A fragment goes at the end of the stream; a patch to the card of its id, or to its
\* tick.  (Where a busy card stands among the others is left out.)
Shown(page, f) ==
    CASE f.to = "stream" -> [page EXCEPT !.cards = Append(@, f.entry)]
      [] f.to = "card" -> [page EXCEPT !.cards = Patched(@, f.id, f.mark)]
      [] f.to = "busy" -> [page EXCEPT !.busy = TRUE]
      [] f.to = "meter" -> [page EXCEPT !.meter = f.value]
      [] f.to = "todos" -> [page EXCEPT !.todos = f.value]
      [] f.to = "mode" -> [page EXCEPT !.mode = f.value]
      [] OTHER -> page
Show(t) ==
    /\ tabs[t].st = "open" /\ tabs[t].queue # <<>>
    /\ tabs' = [tabs EXCEPT ![t] = [Shown(@, Head(@.queue)) EXCEPT !.queue = Tail(tabs[t].queue)]]
    /\ UNCHANGED <<own, script, core, cmd, claims, slipped, crossed>>

ScriptSteps(a) ==
    \/ Send(a) \/ Note(a) \/ UpdateCard(a) \/ QueueCard(a) \/ ClaimCard(a) \/ SetTodos(a) \/ Meter(a) \/ GoIdle(a)
    \/ CheckPlan(a) \/ Write(a) \/ StartShell(a) \/ ShellRead(a) \/ ShellDone(a)
PromptSteps(n) == Prompt(n) \/ Register(n) \/ RunTool(n) \/ ToolsDone(n) \/ Leave(n)

Next ==
    \/ \E a \in Asks \cup Modes : ScriptSteps(a)
    \/ \E n \in Asks : PromptSteps(n) \/ Ask(n) \/ Response(n) \/ Final(n) \/ SendFails(n) \/ ShellLine(n) \/ ShellLongLine(n)
    \/ AskBusy \/ Interrupt \/ InterruptTurn \/ ShellDeadline \/ ShellKill \/ LeaderExits \/ ChildExits
    \/ \E h \in Modes, m \in {"plan", "act"} : SetMode(h, m)
    \/ \E t \in Tabs : LoadPage(t) \/ Subscribe(t) \/ Show(t)

Spec == Init /\ [][Next]_vars

\* Goroutines run and a killed process dies; the endpoint, the command and its
\* children may never answer or exit, except that a request whose context is done
\* fails.  (A command's deadline is not waited for.)
FairSpec ==
    /\ Spec
    /\ \A a \in Asks \cup Modes : WF_vars(ScriptSteps(a))
    /\ \A n \in Asks : WF_vars(PromptSteps(n)) /\ WF_vars(n \in cancelled /\ SendFails(n))
    /\ WF_vars(ShellKill)

(* ------------------------------ properties ------------------------------ *)

\* A message that passes the busy gate is never refused as a second prompt: the
\* session takes a prompt again before the console says so.
AskIsAdmitted == \A n \in Asks : at[n] # "refused"

TurnOf(id) == (id - 1) \div MaxCalls

\* A tool draws on its own card, never on one of an earlier turn; it can only miss
\* it when a call before it in the same turn claimed no card at all (it could not be
\* decoded, and left its card in the queue).
CardIsOwn ==
    \A c \in claims :
        /\ c.card # 0 => TurnOf(c.card) = TurnOf(c.call) /\ c.card <= c.call
        /\ (c.card # c.call) => \E k \in Cards : k # 0 /\ TurnOf(k) = TurnOf(c.call) /\ k < c.call /\ \A d \in claims : d.call # k

Settled == {"read", "write", "deny"}
Quiet(n) == at[n] = "left" /\ \A i \in DOMAIN script[n] : script[n][i].do = "send"

\* When a turn is over no card is left running: every call that ran has settled
\* exactly one, and what is left over are as many as were refused or not decoded.
EveryCardSettles ==
    \A n \in Asks : Quiet(n) =>
        LET ids == {id \in Cards : id # 0 /\ TurnOf(id) = n - 1}
            open == {i \in DOMAIN entries : entries[i].id \in ids /\ entries[i].marks \cap Settled = {}}
            shut == {i \in DOMAIN entries : entries[i].id \in ids /\ Cardinality(entries[i].marks \cap Settled) = 1}
            ran == {c \in claims : c.call \in ids}
        IN Cardinality(shut) = Cardinality(ran) /\ Cardinality(open) = made[n] - Cardinality(ran)

\* "Edits are refused": from the moment plan mode is set one write or command may
\* still go through, the one that had asked before, and none after it.
PlanRefuses == mode = "plan" => slipped <= 1

\* What the live page and the replay draw alike.
Common(cards) == [i \in DOMAIN cards |-> [cards[i] EXCEPT !.marks = @ \ {"out", "refused"}]]

\* A tab that missed nothing shows what a reload would show, card by card and tick by
\* tick, with the same meter and tasks, and the mode that holds unless two changes of
\* it crossed.  "A reloaded page cannot drift from a live one" (view.go:689) holds
\* but for three things: the output of a command is on the pages that were open, and
\* not in the transcript until the command is done; a refused call looks refused
\* on a page that was loaded afterwards, and on the others only its tick does; and
\* the cards that say "busy" are gone when the page is loaded again.
LiveMatchesReplay ==
    \A t \in Tabs : tabs[t].st = "open" /\ tabs[t].queue = <<>> /\ ~Sending =>
        /\ Common(tabs[t].cards) = Common(Rendered(entries))
        /\ tabs[t].meter = turns /\ tabs[t].todos = todos
        /\ crossed \/ tabs[t].mode = mode

\* A command that was killed or has ended, and a child of it that holds its pipe.
HeldByChild(n) == Doing(n, "scan") /\ ~shell.leader /\ shell.child = "pipe"

\* Stop ends the turn: a prompt whose context was cancelled gives the session back,
\* whatever tool it was in, without waiting for the time a command is allowed, unless
\* a child of the command keeps the pipe open for ever.  ("Interrupt stops the turn,
\* and any command it left running", session.go:282, is true of the rest.)
StopEndsTurn ==
    \A n \in Asks : n \in cancelled ~> (at[n] = "left" /\ script[n] = <<>>) \/ []HeldByChild(n)

\* "A timeout takes the children with it rather than leaving a test runner behind"
\* (agent.go:338): no command that was killed leaves a child.
KillTakesChildren == orphans = 0
=============================================================================
