# pi-claude in TLA+

pi-claude lets a Go program hold a conversation with an agent. A host calls
`Open` on a backend, then `Prompt`, `Subscribe`, `Interrupt` and `Close` on the
session. Two backends do real work: one drives a `claude` process over its
stdin and stdout, the other runs the agent loop itself against the Anthropic
API. Two of the examples are programs of their own, each larger than the library: a proxy
that serves the Messages API from claude processes, and a web console for sessions
of an agent on a checkout. These modules model what is concurrent in all of
it (who may be inside what, which answer goes to which call, and what happens
when something is cancelled, closed, late or dead), and the pure functions whose
answers the concurrent part relies on.

## The system

| part | source | state | operations | properties that make it correct |
|---|---|---|---|---|
| session | `core/session.go`, `core/event.go` | `closed`, `inFlight`, `text`, `subs` under `s.mu` | Prompt, Subscribe, Close, Emit | one prompt at a time; each answered once, with its own text; none after Close |
| port | `core/port.go` | none | `Conversation.Prompt/Interrupt/Close`, `Runtime.Emit` | a backend that keeps to it cannot break the session |
| Claude conversation | `external/claudecode/conversation.go`, `readloop.go` | `closed`, `initDone`, `pending` under `c.mu`; a done channel per Prompt | Prompt, Interrupt, Close, the read loop | a result reaches the prompt it is for; cancelling stops that turn and no other; Prompt returns |
| requests of the process | `control.go`, `hooks.go`, `mcp.go` | none of their own | can_use_tool, mcp_message, hook_callback | every request the conversation knows is answered, once; one that does not parse or is of another kind is not (`control.go:30-32`, 34-53) |
| requests of the host | `controls.go`, `control.go` | `awaiting` under `c.mu` | request, control, onControlResponse | the reply reaches its own request; the table does not leak; request returns |
| transport | `internal/proto/proto.go` | `closed` under `p.mu`; two pipes, the frame channel, the context | Spawn, Write, Frames, Close, Wait, the two reader loops | FIFO both ways; no write after Close; Close ends; reaped after the last read |
| API backend | `external/anthropic` | `history`, `closed`, `cancel`, `ready` | Prompt (the agent loop), Interrupt, Close | every request can be sent; a cancelled prompt comes back |
| tools, hooks, schemas | `core/tool.go`, `core/hook.go`, `internal/jsonschema` | maps fixed at Open | DefineTool, lookups, the hook table, the schema of a Go type | what is offered to the model is what runs |
| message proxy | `examples/msgproxy-prototype/main.go` | `convs`, `all` and each conversation's `busy`, `parked`, `closed` under `s.mu`; a step and a result channel per conversation; session files | messages (a request), open, advance, collect, rekey, supersede, expire, shutdown, start | a reply is made from the history of the request that gets it; nobody waits for ever, while the process lives; no file is left behind |
| web console | `examples/webharness/main.go`, `session.go`, `agent.go`, `hub.go`, `store.go`, `changes.go` | the fields of a session under `s.mu`; the hub's tabs; branches and checkouts | Ask, SetMode, Interrupt, LoadPage, the tools, finish; start, changes, merge | a card settles once; plan mode refuses; a live page is the reloaded one; Stop ends the turn; work is not lost |
| its views | `diff.go`, `workspace.go`, `view.go` | none | the diff, the paths, the listing, the markup | a diff applies; a path stays inside |
| scripted backend, small examples | `external/scripted`, `examples/` | a list position | as the port | not modelled |

They interact as follows. A caller's goroutine enters `Session.Prompt`, passes
one critical section and calls the backend's `Prompt`. The Claude backend writes
a user message to the process and waits on a channel; the process's frames come
back through the transport's reader, a bounded channel and the read loop, which
emits events, asks the host for permissions, tools and hooks on its own goroutine,
and hands the result to whoever is in `c.pending`. No lock is held over a write,
a wait or a call of the host, with one exception: the transport's `p.mu` is held
over the write into the pipe.

The proxy is a host of many such sessions. Each HTTP request is a goroutine
that looks its history up among the conversations; the tools it gave the
process are handlers that park the process's read loop until the next request
brings the results. The console is a host of the API backend: the tools of a
prompt run on the prompt's goroutine and report over the hub to the tabs, while
other handlers change the mode or stop the turn.

What is hard here: a result frame does not say which prompt it answers; the
prompt may have been cancelled, and the interrupt that stops its turn travels in
the same pipe as the next prompt; Close, the context given to Open and the end of the
process all race with a prompt under way; listeners are called without the lock;
the pipes and the channels are bounded; one tool call of several may fail in the
middle of a round of the loop; a conversation of the proxy may be expired, superseded or taken
by a second request while a first one waits on it, and the server may be killed between the two halves
of all that; a tool of the console finds its card by its name only.
`PROJECT.json` lists these hazards one by one, each with its line and with the properties about it.

## The modules

| module | models | built on |
|---|---|---|
| `Port` | what crosses `core/port.go`: a call of the backend's Prompt, of its Close, and an Emit in progress | |
| `Session` | `core/session.go` with an arbitrary backend: the abstract specification of both backends | Port |
| `Duplex` | the contract of `proto.Transport`: a FIFO of lines each way | |
| `Transport` | `proto.go`, which implements Duplex | Duplex (instance) |
| `Cli` | the claude process (external), as the code relies on it | Duplex |
| `Conversation` | `external/claudecode` but for the host's own requests | Port, Cli |
| `ClaudeSession` | session, conversation, process and environment together | Session, Conversation |
| `ControlRequests` | the host's control requests over a Duplex | Duplex |
| `Anthropic` | `external/anthropic` under a session | Session |
| `Proxy` | the server of the message proxy: every handler and goroutine, its conversations and their processes, the session files, stopping, being killed and starting again | |
| `ProxyWire` | what the proxy makes of a request: the blocks it takes, the split into history and input, keys, answers, claims, the session file | |
| `Sse` | a streamed reply: what `collect` does with the events, the stream it sends, and a reader of that stream | ProxyWire |
| `Console` | one session of the web console: prompts with their tools, the shell, plan mode, Stop, the hub, the tabs | |
| `Worktrees` | its sessions with their branches and checkouts: start, work, merge, restart | |
| `Files` | its workspace: paths, listing, reading in pieces, the edit | |
| `Diff` | its line diff | |
| `Tools` | schemas and decoding, DefineTool, the registry, the hook table | |
| `SessionProofs`, `ClaudeProofs` (of ClaudeSession), `TransportProofs`, `ControlProofs` (of ControlRequests), `AnthropicProofs`, `ProxyProofs`, `ConsoleProofs`, `WorktreesProofs` | the proofs | the module each is named for |
| `Cases` | the inputs on which the functions of Sse, ProxyWire, Diff, Files and Tools are checked, and what each of them promises | Sse, Diff, Files, Tools (instances) |
| `MC...` | the state machines on small instances; `MCControlRequests` also takes the cases | |

Correspondence to the code. A critical section is one action, and so is each
thing a goroutine does without the lock that another can see.

*Library.* `pc`, `ppc`, `rpc`, `at` say where a goroutine is; `emit[g]` is the Emit goroutine
`g` is inside, and it does nothing else until that returns, which is how a slow
listener stalls the read loop. Early returns that change nothing (a second
Close, a Prompt refused because one is in flight) are not actions. Prompts are
numbered in the order they are accepted, and the turn the agent runs for prompt
*n* is turn *n*; the numbers are carried in messages so that the properties can
see who got what, and no guard of a handler reads one. Payloads are left out: a
frame is its kind and its turn.

*Proxy.* A request is a record whose `pc` is the line its handler has reached.
`conv[c]` is the conversation that request `c` opened, `loop[c]` its read
loop with the turn it is in, `run[r]` the goroutine `conv.run` that request `r` started, `steps` and `results`
are channels of capacity 1. A key is a hash of a history in the code and the
history here, so two histories never share one; what two texts can share is
checked in `ProxyWire`. Clients are modelled with the server because what a
client sends is what it was answered before: it appends the reply it read and
its next prompt or results. They may hang up, add or leave out a reminder and replay an older history.

*Console.* What a goroutine has still to do is its `script`, a sequence of
critical sections of `s.mu` and sends to the hub, of which one is taken at a
time; `at` is where a prompt's goroutine is in the loop of the API backend.
A tab is what `LoadPage` gave it and the frames on their way to it.

*Worktrees.* `op[r]` is the git command the handler of request *r* runs next: between two of them anything
may happen, and each may fail. `commits` and `dirty` are git (external): the
branches there are with the changes on them, and the checkouts there are with those that are not
committed. The user removes checkouts and branches, as the README of the example tells them to, and resolves conflicts.
A change is a file and the checkout it was made in; two sides that touched one file may conflict.
A restart forgets the sessions and `seq`, and nothing of git.

*Functions.* A text is a sequence of characters or lines of a tiny alphabet, of which one
stands for white space. `Cases` compares what the
code's function does with a definition that is not derived from it: a diff with
the texts it must lead to and the longest common subsequence over all subsets, a
stream with the message its reader puts together, a schema with what the decoder accepts, a
path with the walk along it.

Every module that models code also holds *broken* variants of its actions, each
marked as such: a mistake the code could have made. They are in no next-state
relation. Putting one in the place of the real action makes a property fail, and
`PROJECT.json` says which one; this is how we know that a property says something.
Variables marked *history* are read by properties and by no guard.

## The runs

Passing runs:

| run | instance | shows |
|---|---|---|
| `claude_cancel` | 1 caller, 2 prompts in a row, either of them cancelled at any point; one request of the process; Close; Open's context cancelled | which prompt gets which result (`MatchesUntilAbandoned`, `ResultUsedOnce`); an interrupt stops the turn it was meant for and no other (`NoFriendlyFire`, `AbandonedTurnStops`); Prompt returns, unless the process waits for an answer that is never written; refinement of `Session` |
| `claude_callers` | 2 callers, 1 listener, host interrupts, a process that exits, a line the reader refuses | a turn has all its text, and no text of it comes after its TurnEvent |
| `transport` | 2 writers, 2 closers, stdin of 1 line, stdout of 2, channel of 1, a process that may exit, cancellation, a line too long | refinement of `Duplex`; Close ends; stdin is not closed under a writer; the process is reaped after the last read |
| `control` | 2 requesters, 3 ticks, 1 request nobody waits for, a clock that moves between requests | replies go home, the table is clean, request returns |
| `control`, before the first request | every input of the sets in `Cases`, about 120 000, each taken in one step that ends the behaviour: the functions share the smallest run because they have no state | each function against what it promises |
| `anthropic` | 1 caller, 2 prompts, at most 2 round trips, 3 requests, 2 tool calls per response, images, cancellation, Interrupt, Close | the history can be sent; a cancelled prompt comes back; refinement of `Session` |
| `proxy` | 1 client, 3 requests, 2 tool calls, 1 reminder, 1 expiry, and one thing that goes wrong (a client that hangs up, a process that fails or exits, the server stopped, or killed and started again), of the three no more than two in one behaviour | replies match histories, nobody waits for ever unless the process exits in the middle of a turn, a conversation is closed under a request only when both had collected it, a session file belongs to a conversation that is open, being opened or being closed |
| `console` | 2 messages, 2 tool calls, 1 mode change, 1 Stop, 1 tab that may lag by 1 frame | messages are admitted, cards are settled by their own calls, plan mode refuses, the live page is the reloaded one but for what is listed below, Stop ends the turn unless a child of the command keeps its pipe |
| `worktrees` | 2 requests that start or merge sessions, 1 project, 1 file, numbers up to 2 drawn for worktrees, restarts | sessions are apart and start clean, no work is lost, and a merge that says so has put all of it into the main checkout |

Runs that end in a violation, each a disagreement of the code with what the
repository says of itself:

| run | what happens |
|---|---|
| `claude_stale` | After a cancelled prompt, the next one is given the abandoned turn's result; every later Turn is one behind. `claude_cancel` checks how far this goes: never before a prompt was given up, and no result is used twice. |
| `claude_exit` | The process exits by itself under a prompt. The read loop ends, and nothing wakes the Prompt. |
| `proxy_retry` | A client hangs up and sends its request again. The history leads to the conversation the first request still waits on; both wait for its steps, and each may take the other's. `proxy` has only clients that wait for the end of what they asked (`CanRetry` is FALSE), and shows that for them this cannot happen. |
| `shell_children` | The shell tool gives its command a process group, and kills the command alone: its children go on, and one that holds the pipe keeps the turn. |

The models also contain what no run checks, most of it because the repository does not
clearly promise otherwise:

- session: a listener may be called after it was removed (Emit copies the
  listeners first, `session.go:164`); the TurnEvent is emitted by Prompt's
  goroutine after `inFlight` is reset, so that the next turn's first event may
  reach a listener before it.
- Claude conversation: a request of the process that does not parse, or of a kind the conversation does not
  know, is never answered (`control.go:30-32`, 34-53), and a process that waits for the answer keeps the turn; `PromptReturns` excepts it.
  The check of `closed` and the write after it are one step of the model, where `controls.go:16-30` gives the lock back between
  them: a line written after Close is one the transport refuses. A Prompt that Close overtakes before its write fails with
  the transport's `ErrClosed`. Two control requests on one tick of the clock have one id,
  and one gets the other's reply; `control` shows that a clock that
  moves between requests (`FineClock`) is enough to rule that out.
- transport: a process that does not read lets the pipe fill; the blocked Write
  holds `p.mu`, and Close waits for it before it cancels the context that would
  kill the process. `transport` therefore assumes a process that reads.
- API backend: a tool that returns images ends the prompt with an error and
  leaves its call unanswered in the history of every later request;
  `SendableWithoutImages` says that this is the only way there. `Interrupt` reaches only the request
  in flight, so that the tools of a response already received still run.
- console: "a reloaded page cannot drift from a live one", says `view.go:689-690`, but it does: a page loaded while a command
  runs lacks its output so far; a refused card gets a tick on the pages that are open (`agent.go:248`) and looks refused as a whole on one
  that is loaded (`view.go:709-712`); the card that says "busy" is told to every tab and not noted (`session.go:261-262`); and of two
  mode changes that cross, the page may show the earlier. `LiveMatchesReplay` excepts these four and nothing else. A command that was killed may leave a child that
  holds its pipe; the tool reads on (`agent.go:359`), so the turn goes on as long as the child, where `session.go:282` says that Stop ends "any
  command it left running"; `StopEndsTurn` excepts it. A Stop before the prompt has
  registered its cancel function is lost.
- tools: the decoder matches the names of members without regard to case (`core/tool.go:85`), the schema does not: arguments with
  a member that differs from a field in case alone are allowed by the schema, and may be refused or end up in that field; `OfferedToolsRun` excepts them.
- files and checkouts: a path is resolved by its names alone, and the tools follow links (`agent.go:103`, 143, 176): a link that
  leads out of the workspace is listed and read, and written through, where `workspace.go:12-13` and 52-53 promise that nothing outside is
  touched; `FilesSafe` assumes that no link leads out. "exactly once" counts occurrences that do not overlap; a
  workspace that is itself called `build`, or another of the names that are skipped, lists nothing; a merge
  that fails leaves the main checkout in the middle of it; a session given the name of an earlier one goes on from
  its branch, if that is still there, and not from HEAD.
- checkouts: a merge goes into the first worktree git lists (`changes.go:122`; `GitMerge` takes `Main` whatever the
  project), so a session forked from a project that is itself a linked worktree is not merged "into the
  checkout it forked from", as the README of the example has it (lines 98-99). And what a session has committed, by its shell or in
  a merge that then met a conflict, is no change for the drawer any more (it asks for the diff to HEAD, `changes.go:25`): it says "Nothing to
  merge yet." of a branch that is not merged, where the comment at line 17 promises a comparison with the branch it forked off.
- proxy: a process that exits in the middle of a turn ends its read loop and wakes nobody, so its request waits for a step that does
  not come (`main.go:697`; run `claude_exit` has the cause). A session file is removed after the lock is given back, so for a moment it
  belongs to a conversation that no table has (`closing`). In the model a reply's key differs from every other's because it
  holds the request's number: two conversations that come to one key, where the later overwrites the entry and the earlier deletes it unchecked
  (`main.go:733-741`), are not covered. A process is taken to run the calls it announced. Blocks that hold only white space belong neither to a key nor to a
  session file, while a stream may carry white space in a block with other text.

### Bounds, and why they are enough

Two prompts are the least in which one overtakes another, and what can be wrong
between two of them is wrong between any two neighbours. Callers and listeners act alike; two callers
suffice for every race at the session's lock, since only one prompt is in
flight. One text per turn is enough to see text counted twice, lost or counted
for the wrong turn. A channel of capacity 1 with a pipe of 1 or 2 fills at once,
where the code's 128 frames only take longer; likewise the tab that may lag one
frame and the code's 256. `MaxLines` bounds the lines the host writes by itself;
`MaxTick` both the clock and the calls of each requester.

Three requests are the least in which a conversation is opened, continued and
found again, or opened twice and superseded; two calls the least in which one
of them is answered and one missing; one fault at any point meets every step of
all of it. `TwoAtMost` bounds how much of a reminder, an expiry and a fault comes together: any two of them meet. Two messages with two calls are the least in which a tool could draw
on a card of the turn before; `MaxTotal` bounds the calls of both prompts, `WatchedCalls` those
of a session that a tab watches. Stop and the tab are not
combined (`StopsWatched` is FALSE): Stop touches the cancel function and the shell's context, which no tab reads.

Two numbers drawn for worktrees, with restarts between, are the least for two sessions of one console and for one that
meets what an earlier console left. The user's checkouts and one file suffice for a conflict. `MaxSeq` bounds what is asked for, not `seq`.

Symmetry is used for the callers in `claude_callers` and the requests of `worktrees`, which have no liveness property. Deadlock is
checked for `worktrees` only, where it would be a request that cannot go on: elsewhere, when the prompts and requests are used up and everything is closed the system
has nothing left to do.

### Fairness

`HostFairness` in `ClaudeSession` and `Transport`: a goroutine that can run does.
Weak fairness per goroutine, as the Go scheduler gives it; for the acquisition of `p.mu`
strong fairness, because `sync.Mutex` hands the lock to a waiter that starves. That the host's callbacks return
(`HostReturns`) is assumed only where a property says so: a prompt that is cancelled or whose session closes returns, and its turn stops, even if the
host's code holds the read loop for ever.
Nobody is made to call Prompt, Close or Interrupt, to cancel, or, in
`Transport`, to take frames. `CliAttends` assumes of the process that it reads
its stdin and ends a turn it was told to stop; `CliEnds` that it ends every
turn. Only the second half of `PromptReturns` needs `CliEnds` and
`HostReturns`, and it says so. A killed process dies
(`cut` and weakly fair death). The endpoint of `Anthropic` may never answer; only
a request whose context is done ends. In `ControlRequests` the process replies to what it reads. In
`Console` the goroutines run, and a killed command dies; its children
need not, since nothing kills them (`agent.go:336-372`), and one that holds the pipe is the exception of `StopEndsTurn`; neither the endpoint nor a command need ever finish, and a command's deadline is not waited for,
so `StopEndsTurn` rests on what Stop does. `Proxy` is checked for safety: that a waiter is served is the
invariant `WaiterIsServed`, that somebody is there to send what it waits for, or the process has exited.

## The proofs

All proofs hold for any number of callers, listeners, writers, closers, prompts,
clients, requests, calls and sessions and any capacities; they assume only the named assumptions of the modules.
The type invariants were checked by TLC while they were being found; now that they are theorems no run repeats them.

`SessionProofs` proves the invariant `SessionInv`: the types, `OneInFlight`,
`AnswersAreCaused` and `CallsAreCaused` (the turn a call carries is no later
than the last prompt accepted), without which `AnswersAreCaused` is not inductive. From it follow
`SessionTypeCorrect`, `OnePromptInFlight` and `NoAnswerFromTheFuture`;
`ClosedForGood` needs only the step. These are promises of the abstract
specification, so no run repeats them: the runs check that the backends refine it.

`ClaudeProofs` proves `Inv`, which adds to `SessionInv`: `Bounded` (whatever is
in a pipe, in the process or in the read loop belongs to a prompt that was
accepted, which is what makes an answer *caused*), `InPrompt` (a caller is inside the
conversation only while the session's call runs), `Channels` (the done channel
of a prompt is empty until it is pending; one that waits is pending or answered) and
`PendingHasWaiter`. `Alone` is the lemma everything turns on: because one prompt is in flight, the
caller inside the conversation is there alone, so the single slot cannot be
overwritten by another. Besides the types this gives `SlotIsNeverStale`,
`SlotIsNeverLost`, the refinement `ClaudeIsASession` (the lemma `AllowedByPort`: each
backend step is one of the port or invisible), and its corollary that the session's theorem
carries over.

Its second half proves what a Claude session owes each prompt, from what lies in the pipes. The code keeps
no number that says which result answers which prompt: a result frame goes to whoever is in
the slot. What makes this right is the order of lines and frames, and `TurnInv`, on top of
`Inv`, says that order: messages are in stdin in the order of their prompts, and frames in stdout in
the order of their turns (`FramesInOrder`, `TurnsInOrder`); every turn has
one result, on its way or given to one prompt (`SentOnce`, `AnswersAreReplies`); a result that is yet to
come and is not the pending prompt's is one of a prompt that was given up, or came
after one (`Overdue`); and an interrupt is behind the message it was written for, with none after
it before it (`StopsInOrder`, `Sent`). Each part needs the others: without `Overdue` a result
that comes late could be anybody's, and it is not inductive unless the frames are in order. From it
follow `NoTurnServesTwo`, `OwnTurnUntilAbandoned` and `InterruptsStopTheirOwn`. `TextInv` follows
the text from the process to the listener while no prompt is given up: what was said of a turn is
added to the text, is about to be, or waits in the pipe (`Accounted`),
which gives `TurnTextIsComplete` and, with the order of events of one read loop, `TurnEventClosesTurn`.

`TransportProofs` proves `WriteInv` (types and capacities, that a writer in the pipe holds the
lock, that Close is past the lock only once `closed` is set) and `ReadInv` (the
reader ends only when it was cancelled, has refused a line, or a dead process has been read to its
end; reaping comes after). The refinement `TransportIsADuplex` maps the stdout pipe, the
frame in the reader's hand and the channel to the one FIFO of `Duplex`; `Flow` says
what each step does to it. `Conversation` and `Cli` are written over the operators of `Duplex`; that the code's
transport is such a duplex is what is proved here.

`ControlProofs` proves `Inv`: the types; `Serials` (a caller in request is in its first call or a later one); `EntryIsLive`; and, if the clock is fine, `Fine`. `EntryIsLive` holds whatever
the clock does, since a call takes its own entry away by its id on every way out. `ReplyIsOwn`
needs `FineClock`: then two calls in request have two ids (`Apart`), ids in the pipe or in the table have passed
(`Past`), so what is delivered to a channel is addressed to the call that owns it (`Addressed`,
`Delivered`). Without it two calls may draw the same id.

`AnthropicProofs` proves that the API backend is a session too (`AnthropicIsASession`), with
`SessionInv`, the types of the loop, a `Place` for each caller (what the counters of the loop are where that caller is) and
`HistoryInv`: the history is well formed, but while the tools of the last response run, when it
ends in that response and owes it the results collected so far (`Awaits`). A cancelled prompt, a denied or
failed call and the limit on round trips all pay that debt before the next request, which is what `HistoryIsSendable` says.
So both backends are proved to be sessions, and what is proved of every session is true of both.

`ConsoleProofs` proves `EveryAskIsAdmitted`, `PlanModeRefuses`, `ToolsDrawOnTheirOwn`, `EveryCallSettlesACard` and `TabsShowTheTranscript` for any number of
messages, calls, mode changes, stops and tabs. A message is `Active` from the gate until
its goroutine has done the `idle` of its script. `Scripts` says what a script may hold where its goroutine is: one idle, only
after the session was left; tools only in the place for tools; and a write or
command that was let through only at the head. Then at most one message is active, the console is busy while one is, and a prompt in
flight is that of an active one (`Gate`): so the session never refuses. `Planned` adds what was counted since plan mode was set to what is
still at the head of a script: together one. The lemma `Scripted` says this once for every change of a script; the actions are its uses.
`ToolsDrawOnTheirOwn` needs more, `CardInv`: the calls of a turn are numbered through in the order in which they run (`Counted`);
the cards that are queued are of this turn, the oldest first (`Stacked`, which is why `GoIdle` must drop what
nobody claimed); and every call that has not run has its card in the queue or in the script, exactly the call about to claim among those that were run
(`Announced`). So the first card of a name is never younger than the call that takes it. That it is the
call's own unless an earlier call missed its card is `LeftOver`: the card of a call that was run is in the queue only if some call of the turn never claimed
one, and that call stays without a claim (`Claimed` keeps the numbers of turns apart). `Longer` and `Shorter` say what it does to the cards of a
script to put plain steps before it or to take the first away, and `CardsWork` with them disposes of thirteen of the actions.
`EveryCallSettlesACard` is a count over a whole turn: as many cards settled as calls that ran, as many open as calls that did not. It is got from two
one-to-one maps, and `SettleInv`, on top of `Inv` and `CardInv`, says that they exist. A goroutine claims and settles one card
at a time, and none before the calls of its turn are noted (`Alone`, `Single`); every number of a turn is noted once, or the script will
note it (`Listed`, `Listing`); a card that is waiting was not taken, and none is taken twice or by a call of another turn (`Unclaimed`, `Taken`);
and a card that was taken is settled, or a script still owes it (`Owing`), by one mark only (`Marked`). At the end nothing is owed
(`QuietSettles`): the cards that were taken are those that are settled, one for each call that ran, and `SameSize` makes counts of that. No
tool comes away without a card: a queue is never empty when its call claims (from `CardInv`). TLC checked `SettleInv` first on the bounds of Console.cfg.
`TabsShowTheTranscript` rests on `LiveInv`. In a script whatever is recorded is followed at once by the frame
that tells of it, and no such frame comes without what it tells of (`Sound`); once its turn is over a goroutine has only to
reach idle (`Ends`); so, at most one message being active, at most one thing is recorded and not sent yet (`OneUntold`). A page
that is followed is then taken forward, frame by frame, through what is in its queue (`Follows`): what it comes to is the transcript, or would be after
the frame that somebody is about to send (`Fits`). The lemmas `Good` and `JoinSound` say that scripts are made and continued so,
`PushFollows` and `ShowLive` that the queue may grow at one end and be shown at the other, and `RecordsLive` that what is recorded and what
its frame does to a page are the same. The output of a command is what the frames tell and the transcript does not have yet, and the look of a refused card is what a
loaded page has and the frames do not tell: cards are compared without the two (`Common`), and `Alike` says that no frame tells two pages apart that differ in them alone. TLC checked `LiveInv` on the bounds of Console.cfg first.

`WorktreesProofs` proves `WorktreesTypeCorrect`, `WorktreesAreApart`, `WorktreesStartClean` and `WorkIsKept` for any
number of projects, requests, names, files and sessions. The invariant `Inv` adds to the types: `Grounded` (the branch of a checkout
exists); `Numbered`, the part that matters: a number drawn from nextID is in one place at a time, with the
request that drew it and then in the root of its session, so that no request on its way ever has the path of a session or of another request,
whatever git already has under that name; `Untouched`, which follows from it step by step (nobody works in a checkout whose session
is not open yet); and `Held`: a request that merges is about a session that is in the store, so no new branch can take the place of
its branch, and what the session had when Merge was pressed is first in its checkout or on its branch, then on its
branch, then in the project. `MergedIsIn` alone is not inductive: without `Held` the branch could have been deleted and
made anew under the same name between the commit and the merge. TLC checked `Inv` on the bounds of Worktrees.cfg first.

`ProxyProofs` proves `ProxyTypeCorrect` and `FilesHaveOwners` for any
clients, careful or not (`CanRetry` may be TRUE). A session file named by request *f*
has an owner because *f* is opening the conversation, or has opened it and it is in
`server.all`, or is being closed (`closing`) and will take the file along; what is not obvious is that nothing brings a request back to
where it would open again, and that a conversation does not leave `all` without
being closed, nor `closing` with its file there; what a killed server leaves is removed when the next one starts. The invariant
`Inv` has three parts: the types, with `TurnsOwned` (a turn that runs
belongs to a request that has a conversation) and what holds of a request by
its place; `Agree` (the table of keys leads to conversations that have that key, and only requests past
opening have one); and `FileInv` (who owns which file). `Onward` is the lemma about places: a request
that is past opening stays past it. The proof goes by *effects*: one lemma per
variable says what any step can do to one request (`ReqEffect`), one
conversation (`ConvEffect`), one turn (`TurnEffect`) or one channel
(`ChannelEffect`), and the parts of the invariant are proved from these and not from the actions again.

The other four theorems there are about careful clients, who do not send a request again while it is under way
(`~CanRetry`, as run Proxy has it): with the others `RetryIsRebuilt` fails, as
run ProxyRetry shows, and nothing here holds either. They rest on three invariants, one on top of the other.

- `CareInv`: all that clients ever replay are beginnings of one story, or fork (`Stories`); what a client goes on from ends
  in a reply (`Turning`), so it is known by its last reply (`OnePrior`); and no two requests that go on from one history are
  under way together (`Apart`, all that care is needed for). Hence who takes a conversation is its
  only holder until it lets go (`Sole`): the keys that lead to it all end in the reply its holder goes on from
  (`KeysAgree`), it is `Busy` as long, and once closed it has neither keys nor holder unless it was raced (`ShutOut`).
  With what a closed turn and its step say (`CloseInv`) this gives `NobodyElseCloses` and `OneWaits`.
- `PhaseInv`: where the read loop, the two channels and the goroutine of a conversation are, by what its holder is at.
  One goroutine is at work on it (`OneRun`), the one whose turn it is (`TurnRuns`); while nobody waits the loop is parked on a call that
  the results asked for will answer, or idle (`RestAt`); while one waits its step is there (`Stepped`, `Failing`), or the loop is on its
  way to it: parked with the results in the channel (`Given`), with a step to send (`Sending`), between two calls (`Running`),
  cancelled, or exited with its process (`Ongoing`). The parked loop is the hard part: it must be known that the results pushed name the call it is
  at, which is `Due`, carried through every call of the turn. This gives `WaitersAreServed`.
- `SeenInv`: what the process was given. While someone holds the conversation that is the history its client sent, or with the input once that was
  given to the process; while nobody does, it is what every key that leads to it replays (`Shown`); and the
  results in the channel are the input of who waits (`Owed`), who was not served before (`Served`). That all the keys of one reply replay
  the same is because only a reminder may be left out of an input (`Tidy`, `KeyReplays`). This gives `RepliesFitHistories`.

What is `Replayed` of a history is a function over its positions, and that it distributes over concatenation
(`ReplayedJoins`) is an induction: `Climb` says that a set of numbers with 0 and with the next of each it has, up to a bound, has
all of them, from the least element of what it lacks (`WFMin`, `NatLessThanWellFounded`), and `KeptExists` that the recursive function
is defined at all. Each of the three invariants was an invariant of a run on the bounds of Proxy.cfg before it was proved.

Only model-checked: all liveness (`PromptReturns`, `CloseCompletes`,
`AbandonedTurnStops`, `RequestReturns`, `CancelledReturns`,
`StopEndsTurn`), which the prover cannot do;
and the functions, most of which
recurse over their input (`Tools` with RECURSIVE operators).

## Not modelled

In the library: the contents of events, the parsing of frames (a result that does not parse is
dropped with an ErrorEvent and leaves its Prompt waiting), the formatting of
arguments, the decisions of policies, the JSON-RPC envelope of MCP messages. Host callbacks that
call back into the session, and would wait for the read loop they run on. The stderr
pipe beyond its end: `stderrLoop` may stop reading it, on which a process could block. A write that
fails half way. The scripted backend, a double for tests that plays a list on
the caller's goroutine and that `Session` admits. The width of integers in schemas.

In the examples: the markup of the views, what the drawer shows of a session's changes, HTTP framing, the price of a model, the list of projects (nothing
leaves it), an agent that changes branches in its own checkout, and the small sequential programs that only call the library.
