------------------------------- MODULE Proxy -------------------------------
(***************************************************************************)
(* The message proxy of examples/msgproxy-prototype/main.go: requests of    *)
(* an HTTP API, each a handler goroutine, that continue conversations kept  *)
(* in claude processes.  A history is a sequence of messages; its hash (see *)
(* ProxyWire) is taken to be the history itself.  A history is what the     *)
(* client replays, so the clients are modelled with the server.             *)
(***************************************************************************)
EXTENDS Naturals, Sequences, FiniteSets, Functions

CONSTANTS Clients,      \* programs that speak the API
          Topics,       \* first messages of a history
          Settings,     \* models and efforts a request can ask for
          MaxRequests,  \* bounds the requests
          MaxCalls,     \* bounds the tool calls
          MaxNotes,     \* bounds the reminders
          MaxFaults,    \* bounds what goes wrong: see Fault
          MaxExpiries,  \* bounds the rounds of expire that find something
          CanRetry      \* a client sends again while its request is under way

ASSUME ProxyAssumption ==
    /\ MaxRequests \in Nat \ {0} /\ MaxCalls \in Nat /\ MaxNotes \in Nat
    /\ MaxFaults \in Nat /\ MaxExpiries \in Nat
    /\ Topics \subseteq Nat
    /\ CanRetry \in BOOLEAN

VARIABLES convs,      \* server.convs: which conversation answered a history
          all,        \* server.all
          conv,       \* the conv records; a request opens at most one, and gives it its number
          loop,       \* each conversation's read loop and the turn it is in
          steps,      \* conv.steps, of capacity 1
          results,    \* conv.results, of capacity 1
          req,        \* the handler of each request
          run,        \* the goroutine conv.run a request started
          files,      \* session files on disk, named by the request that wrote them
          up,         \* the server runs
          sent, calls, notes, faults, expiries,
          hist,       \* what each client would replay
          asks,       \* the request each client waits for
          stale,      \* what expire has collected and not closed yet
          closing,    \* conversations closed whose file is about to be removed
          seen,       \* history: what each process has been given, and its replies
          serving,    \* history: the request that gave each process its last input
          raced       \* history: conversations closed while a request held them

clientVars == <<sent, hist, asks, notes>>
convVars == <<convs, all, conv, files, raced>>
serverVars == <<up, stale, closing, expiries>>
loopVars == <<loop, steps, results, run, calls, seen, serving>>
vars == <<clientVars, convVars, loopVars, serverVars, req, faults>>

Requests == 1..MaxRequests
Ids == 1..MaxCalls

\* A message: a prompt, a reminder for one request only, tool results, a prompt
\* that cannot be decoded, a reply with the tool calls it asks for.  Replies are told
\* apart by the request they were made for: that two conversations have the same
\* history, prompts and replies alike, and so the same key, is left out.
Message == [kind: {"ask", "note", "results", "bad", "reply"}, ids: SUBSET Ids, n: Nat]
User(k, ids, n) == [kind |-> k, ids |-> ids, n |-> n]
Reply(r, ids) == [kind |-> "reply", ids |-> ids, n |-> r]

Step == [by: 0..MaxRequests, ids: SUBSET Ids, stop: {"none", "tool_use", "end_turn"},
         err: {"none", "failed", "inflight", "closed", "dropped"}]
NoStep == [by |-> 0, ids |-> {}, stop |-> "none", err |-> "none"]
Failed(r, e) == [by |-> r, ids |-> {}, stop |-> "end_turn", err |-> e]

\* No conversation: one that is not open yet, or lost with the server.
NoConv == [root |-> 0, knobs |-> 0, parked |-> FALSE, asked |-> {}, keys |-> {}, busy |-> FALSE,
           closed |-> TRUE, file |-> 0]
NoLoop == [turn |-> 0, at |-> "free", id |-> 0, pending |-> {}, unclaimed |-> {}, answered |-> {}]
NoReq == [pc |-> "none", prior |-> <<>>, input |-> <<>>, knobs |-> 0, conv |-> 0,
          victims |-> {}, step |-> NoStep]

\* answers: the results in the input are those of the calls asked for, no more
\* and no fewer.  promptOf: there is nothing in it but text and images.
Resulted(input) == UNION {input[i].ids : i \in DOMAIN input}
Answers(input, asked) == (\A i \in DOMAIN input : input[i].kind # "bad") /\ Resulted(input) = asked
HasToolResults(input) == \E i \in DOMAIN input : input[i].kind = "results"
Promptable(input) == \A i \in DOMAIN input : input[i].kind \in {"ask", "note"}

Init ==
    /\ convs = <<>> /\ all = {} /\ files = {} /\ raced = {}
    /\ conv = [c \in Requests |-> NoConv] /\ loop = [c \in Requests |-> NoLoop]
    /\ steps = [c \in Requests |-> <<>>] /\ results = [c \in Requests |-> <<>>]
    /\ req = [r \in Requests |-> NoReq] /\ run = [r \in Requests |-> "none"]
    /\ up = TRUE /\ sent = 0 /\ calls = 0 /\ faults = 0 /\ expiries = 0 /\ notes = 0 /\ stale = {} /\ closing = {}
    /\ hist = [a \in Clients |-> <<>>] /\ asks = [a \in Clients |-> 0]
    /\ seen = [c \in Requests |-> <<>>] /\ serving = [c \in Requests |-> 0]

\* Something goes wrong: a client hangs up or sends what cannot be decoded, a
\* process does not start, refuses a tool or fails its turn, the server ends.
Fault == faults < MaxFaults /\ faults' = faults + 1

InHandler(r) == up /\ req[r].pc \notin {"none", "done"}
At(r, pc) == up /\ req[r].pc = pc
Goto(r, pc) == req' = [req EXCEPT ![r].pc = pc]
Respond(r, step) == req' = [req EXCEPT ![r].pc = "done", ![r].step = step]

(* ------------------------------- clients -------------------------------- *)

\* The histories a client can go on from: all of its own, or up to an earlier
\* reply, or none.
Priors(a) == {SubSeq(hist[a], 1, n) : n \in {m \in 0..Len(hist[a]) : m = 0 \/ hist[a][m].kind = "reply"}}

Inputs(prior) ==
    LET open == IF prior = <<>> THEN {} ELSE prior[Len(prior)].ids
        firsts == {User("ask", {}, t) : t \in Topics}
            \cup (IF open # {} THEN {User("results", open, 0)} ELSE {})
            \cup {User("bad", {}, 0)}
    IN {<<m>> : m \in firsts} \cup {<<m, User("note", {}, 0)>> : m \in firsts}

\* A client sends a request; a careful one not while the server is still busy
\* with another that continues the same history.
ClientSends(a) ==
    /\ up /\ asks[a] = 0 /\ sent < MaxRequests
    /\ \E prior \in Priors(a), k \in Settings : \E input \in Inputs(prior) :
        /\ CanRetry \/ prior = <<>> \/ \A q \in Requests : InHandler(q) => req[q].prior # prior
        /\ req' = [req EXCEPT ![sent + 1] = [NoReq EXCEPT !.pc = "lookup", !.prior = prior,
                                                          !.input = input, !.knobs = k]]
        /\ notes' = notes + Len(input) - 1 /\ notes' <= MaxNotes
        /\ IF input[1].kind = "bad" THEN Fault ELSE UNCHANGED faults
    /\ sent' = sent + 1 /\ asks' = [asks EXCEPT ![a] = sent + 1]
    /\ UNCHANGED <<convVars, loopVars, serverVars, hist>>

Replied(r) == req[r].step.err = "none" /\ req[r].step.stop # "none"

\* The client reads the answer, and keeps the reminder in its history or not.
ClientReads(a) ==
    LET r == asks[a] IN
    /\ r # 0 /\ req[r].pc = "done"
    /\ asks' = [asks EXCEPT ![a] = 0]
    /\ req' = [req EXCEPT ![r].prior = <<>>, ![r].input = <<>>]
    /\ \/ ~Replied(r) /\ hist' = hist
       \/ /\ Replied(r)
          /\ \E n \in {1, Len(req[r].input)} :
                hist' = [hist EXCEPT ![a] = req[r].prior \o SubSeq(req[r].input, 1, n)
                                            \o <<Reply(r, req[r].step.ids)>>]
    /\ UNCHANGED <<convVars, loopVars, serverVars, faults, sent, notes>>

\* The client hangs up, to send another request: the handler goes on.
ClientHangsUp(a) ==
    /\ asks[a] # 0 /\ sent < MaxRequests
    /\ Fault /\ asks' = [asks EXCEPT ![a] = 0]
    /\ UNCHANGED <<convVars, loopVars, req, serverVars, sent, hist, notes>>

(* -------------------------- closing conversations ----------------------- *)

\* Broken: close forgets the keys.
CloseConvKeepsKeys(c) ==
    /\ convs' = convs /\ all' = all \ {c}
    /\ conv' = [conv EXCEPT ![c].closed = TRUE]
    /\ closing' = closing \cup {d \in {c} : conv[d].file # 0}

\* server.close: the keys that still lead to c, and its process.  (Its session is
\* closed after the lock was given back; what the others can do in between they
\* can do as well before.)  What Session.Close does to a turn under way is below
\* (ExecCancelled, TurnClosed).
Without(c) == Restrict(convs, {k \in DOMAIN convs : ~(k \in conv[c].keys /\ convs[k] = c)})
CloseConv(c) ==
    /\ convs' = Without(c)
    /\ all' = all \ {c}
    /\ conv' = [conv EXCEPT ![c].keys = {}, ![c].closed = TRUE]
    /\ closing' = closing \cup {d \in {c} : conv[d].file # 0}

\* The last thing server.close does to a conversation that has a file: until then
\* the file is there and the conversation is not.
RemoveFile(c) ==
    /\ up /\ c \in closing
    /\ files' = files \ {conv[c].file} /\ closing' = closing \ {c}
    /\ UNCHANGED <<clientVars, convs, all, conv, raced, loopVars, req, up, stale, expiries, faults>>

\* expire: the idle are collected under the lock, and closed after it.
ExpireCollects ==
    /\ up /\ stale = {} /\ expiries < MaxExpiries /\ expiries' = expiries + 1
    /\ \E S \in SUBSET {c \in all : ~conv[c].busy} \ {{}} : stale' = S
    /\ UNCHANGED <<clientVars, convVars, loopVars, req, up, closing, faults>>

ExpireCloses ==
    /\ up
    /\ \E c \in stale :
        /\ CloseConv(c) /\ stale' = stale \ {c}
        /\ raced' = IF conv[c].busy THEN raced \cup {c} ELSE raced
    /\ UNCHANGED <<clientVars, files, loopVars, req, up, expiries, faults>>

(* ------------------------------ the handler ----------------------------- *)

\* messages, to the end of its first critical section.
Lookup(r) ==
    /\ At(r, "lookup")
    /\ LET k == req[r].prior
           c == IF k \in DOMAIN convs THEN convs[k] ELSE 0 IN
       /\ conv' = IF c = 0 THEN conv ELSE [conv EXCEPT ![c].busy = TRUE]
       /\ req' = [req EXCEPT ![r].pc = "decide", ![r].conv = c]
    /\ UNCHANGED <<clientVars, convs, all, files, raced, loopVars, serverVars, faults>>

\* Whether the conversation can carry on with the input, and how.
Fits(r) == req[r].conv # 0 /\ conv[req[r].conv].knobs = req[r].knobs
Carries(r) ==
    Fits(r) /\ IF conv[req[r].conv].parked
               THEN Answers(req[r].input, conv[req[r].conv].asked)
               ELSE Promptable(req[r].input)
Decide(r) ==
    /\ At(r, "decide")
    /\ Goto(r, CASE Carries(r) -> IF conv[req[r].conv].parked THEN "push" ELSE "run"
                 [] ~Carries(r) /\ req[r].conv # 0 -> "drop"
                 [] OTHER -> "start")
    /\ UNCHANGED <<clientVars, convVars, loopVars, serverVars, faults>>

\* "cannot carry on; rebuilding"
DropConv(r) ==
    /\ At(r, "drop") /\ CloseConv(req[r].conv)
    /\ req' = [req EXCEPT ![r].pc = "start", ![r].conv = 0]
    /\ UNCHANGED <<clientVars, files, raced, loopVars, up, stale, expiries, faults>>

\* start: an input that is neither a prompt nor results is refused; a history
\* is written as a session file.
StartRefuses(r) ==
    /\ At(r, "start")
    /\ ~Promptable(req[r].input) /\ (req[r].prior = <<>> \/ ~HasToolResults(req[r].input))
    /\ Respond(r, NoStep)
    /\ UNCHANGED <<clientVars, convVars, loopVars, serverVars, faults>>

StartPrepares(r) ==
    /\ At(r, "start")
    /\ Promptable(req[r].input) \/ (req[r].prior # <<>> /\ HasToolResults(req[r].input))
    /\ Goto(r, "open")
    /\ files' = IF req[r].prior = <<>> THEN files ELSE files \cup {r}
    /\ UNCHANGED <<clientVars, convs, all, conv, raced, loopVars, serverVars, faults>>

\* Broken: the session file of a process that did not start stays.
OpenFailsKeepingFile(r) ==
    /\ At(r, "open") /\ Fault
    /\ Respond(r, NoStep)
    /\ UNCHANGED <<clientVars, convVars, loopVars, serverVars>>

OpenFails(r) ==
    /\ At(r, "open") /\ Fault
    /\ Respond(r, NoStep) /\ files' = files \ {r}
    /\ UNCHANGED <<clientVars, convs, all, conv, raced, loopVars, serverVars>>

\* open: the process is there; under the lock the conversation is registered
\* and the idle ones of the same root are collected.
RootOf(r) == (req[r].prior \o req[r].input)[1].n
Open(r) ==
    /\ At(r, "open")
    /\ conv' = [conv EXCEPT ![r] = [NoConv EXCEPT !.root = RootOf(r), !.knobs = req[r].knobs,
                    !.busy = TRUE, !.closed = FALSE, !.file = IF req[r].prior = <<>> THEN 0 ELSE r]]
    /\ all' = all \cup {r}
    /\ LET idle == {c \in all : conv[c].root = RootOf(r) /\ ~conv[c].busy} IN
       req' = [req EXCEPT ![r].pc = IF idle = {} THEN "run" ELSE "supersede", ![r].conv = r, ![r].victims = idle]
    /\ seen' = [seen EXCEPT ![r] = req[r].prior]
    /\ UNCHANGED <<clientVars, convs, files, raced, loop, steps, results, run, calls, serving, serverVars, faults>>

Supersede(r) ==
    /\ At(r, "supersede")
    /\ \E c \in req[r].victims :
        /\ CloseConv(c)
        /\ req' = [req EXCEPT ![r].victims = @ \ {c}, ![r].pc = IF req[r].victims = {c} THEN "run" ELSE @]
        /\ raced' = IF conv[c].busy THEN raced \cup {c} ELSE raced
    /\ UNCHANGED <<clientVars, files, loopVars, up, stale, expiries, faults>>

\* advance: the results go into the channel, or a goroutine calls Prompt, which
\* a session that is closed, or has one in flight, refuses.
AdvancePush(r) ==
    /\ At(r, "push") /\ results[req[r].conv] = <<>>
    /\ results' = [results EXCEPT ![req[r].conv] = <<[by |-> r, input |-> req[r].input]>>]
    /\ Goto(r, "wait")
    /\ UNCHANGED <<clientVars, convVars, loop, steps, run, calls, seen, serving, serverVars, faults>>

AdvanceRun(r) ==
    LET c == req[r].conv IN
    /\ At(r, "run") /\ Goto(r, "wait")
    /\ IF conv[c].closed \/ loop[c].turn # 0
       THEN /\ run' = [run EXCEPT ![r] = IF conv[c].closed THEN "closed" ELSE "inflight"]
            /\ UNCHANGED <<loop, seen, serving>>
       ELSE /\ run' = [run EXCEPT ![r] = "turn"]
            /\ loop' = [loop EXCEPT ![c].turn = r]
            /\ seen' = [seen EXCEPT ![c] = @ \o req[r].input]
            /\ serving' = [serving EXCEPT ![c] = r]
    /\ UNCHANGED <<clientVars, convVars, steps, results, calls, serverVars, faults>>

\* The step is there: if it failed, or claude did not offer the model one of the
\* tools (collect, on the ReadyEvent of the turn), the conversation is closed.
TakeFailure(r) ==
    LET c == req[r].conv IN
    /\ At(r, "wait") /\ steps[c] # <<>>
    /\ \/ Fault /\ Respond(r, Failed(r, "dropped"))
       \/ Head(steps[c]).err # "none" /\ Respond(r, Head(steps[c])) /\ UNCHANGED faults
    /\ CloseConv(c) /\ steps' = [steps EXCEPT ![c] = Tail(@)]
    /\ UNCHANGED <<clientVars, files, raced, loop, results, run, calls, seen, serving, up, stale, expiries>>

\* Broken: a conversation once parked is parked for ever.
TakeStepStaysParked(r) ==
    LET c == req[r].conv  st == Head(steps[c]) IN
    /\ At(r, "wait") /\ steps[c] # <<>>
    /\ st.err = "none"
    /\ steps' = [steps EXCEPT ![c] = Tail(@)]
    /\ conv' = [conv EXCEPT ![c].parked = @ \/ st.stop = "tool_use", ![c].asked = st.ids]
    /\ req' = [req EXCEPT ![r].pc = "rekey", ![r].step = st]
    /\ UNCHANGED <<clientVars, convs, all, files, raced, loop, results, run, calls, seen, serving, serverVars, faults>>

TakeStep(r) ==
    LET c == req[r].conv  st == Head(steps[c]) IN
    /\ At(r, "wait") /\ steps[c] # <<>>
    /\ st.err = "none"
    /\ steps' = [steps EXCEPT ![c] = Tail(@)]
    /\ conv' = [conv EXCEPT ![c].parked = st.stop = "tool_use", ![c].asked = st.ids]
    /\ req' = [req EXCEPT ![r].pc = "rekey", ![r].step = st]
    /\ UNCHANGED <<clientVars, convs, all, files, raced, loop, results, run, calls, seen, serving, serverVars, faults>>

\* One key per prefix of the input: a reminder need not come back.
NewKeys(r) == {req[r].prior \o SubSeq(req[r].input, 1, n) \o <<Reply(r, req[r].step.ids)>> : n \in 1..Len(req[r].input)}

\* Broken: the keys of the history before lead to the conversation still.
RekeyKeepsOld(r) ==
    LET c == req[r].conv IN
    /\ At(r, "rekey")
    /\ convs' = [k \in DOMAIN convs \cup NewKeys(r) |-> IF k \in NewKeys(r) THEN c ELSE convs[k]]
    /\ conv' = [conv EXCEPT ![c].keys = @ \cup NewKeys(r), ![c].busy = FALSE]
    /\ seen' = [seen EXCEPT ![c] = Append(@, Reply(r, req[r].step.ids))]
    /\ Goto(r, "done")
    /\ UNCHANGED <<clientVars, all, files, raced, loop, steps, results, run, calls, serving, serverVars, faults>>

\* The second critical section, and the reply.
Rekey(r) ==
    LET c == req[r].conv
        kept == Restrict(convs, DOMAIN convs \ conv[c].keys) IN
    /\ At(r, "rekey")
    /\ convs' = [k \in DOMAIN kept \cup NewKeys(r) |-> IF k \in NewKeys(r) THEN c ELSE kept[k]]
    /\ conv' = [conv EXCEPT ![c].keys = NewKeys(r), ![c].busy = FALSE]
    /\ seen' = [seen EXCEPT ![c] = Append(@, Reply(r, req[r].step.ids))]
    /\ Goto(r, "done")
    /\ UNCHANGED <<clientVars, all, files, raced, loop, steps, results, run, calls, serving, serverVars, faults>>

(* ------------------ conv.run, conv.execute and the process -------------- *)

\* The model asks for tools: its frames are read before the calls.
ModelAsks(c) ==
    /\ up /\ loop[c].turn # 0 /\ loop[c].at = "free" /\ ~conv[c].closed
    /\ \E n \in 1..(MaxCalls - calls) :
        LET new == (calls + 1)..(calls + n) IN
        /\ calls' = calls + n
        /\ loop' = [loop EXCEPT ![c].pending = @ \cup new, ![c].unclaimed = @ \cup new]
    /\ UNCHANGED <<clientVars, convVars, req, steps, results, run, seen, serving, serverVars, faults>>

\* execute: the call is matched with its frame; without an answer for it yet,
\* what was emitted so far is a step.
Execute(c) ==
    /\ up /\ loop[c].turn # 0 /\ loop[c].at = "free" /\ ~conv[c].closed
    /\ \E id \in loop[c].unclaimed :
        LET matched == [loop[c] EXCEPT !.unclaimed = @ \ {id}] IN
        loop' = [loop EXCEPT ![c] = IF id \in loop[c].answered
                                    THEN [matched EXCEPT !.answered = @ \ {id}]
                                    ELSE [matched EXCEPT !.at = "sends", !.id = id]]
    /\ UNCHANGED <<clientVars, convVars, req, steps, results, run, calls, seen, serving, serverVars, faults>>

ExecSends(c) ==
    /\ up /\ loop[c].at = "sends" /\ steps[c] = <<>>
    /\ steps' = [steps EXCEPT ![c] = <<[by |-> serving[c], ids |-> loop[c].pending, stop |-> "tool_use", err |-> "none"]>>]
    /\ loop' = [loop EXCEPT ![c].at = "parked", ![c].pending = {}]
    /\ UNCHANGED <<clientVars, convVars, req, results, run, calls, seen, serving, serverVars, faults>>

\* The results arrive; a call they do not answer is a panic.
ExecWakes(c) ==
    /\ up /\ loop[c].at = "parked" /\ results[c] # <<>>
    /\ LET m == Head(results[c])
           got == loop[c].answered \cup Resulted(m.input) IN
       /\ loop' = [loop EXCEPT ![c].answered = got \ {loop[c].id},
                               ![c].at = IF loop[c].id \in got THEN "free" ELSE "panicked"]
       /\ seen' = [seen EXCEPT ![c] = @ \o m.input]
       /\ serving' = [serving EXCEPT ![c] = m.by]
    /\ results' = [results EXCEPT ![c] = Tail(@)]
    /\ UNCHANGED <<clientVars, convVars, req, steps, run, calls, serverVars, faults>>

ExecCancelled(c) ==
    /\ up /\ loop[c].at = "parked" /\ conv[c].closed
    /\ loop' = [loop EXCEPT ![c].at = "free"]
    /\ UNCHANGED <<clientVars, convVars, req, steps, results, run, calls, seen, serving, serverVars, faults>>

\* The turn ends once the tools that were announced have run (the process is taken
\* to run what it announces), or fails at any moment; or Prompt comes back because
\* the session was closed.
TurnEnds(c) ==
    /\ up /\ loop[c].turn # 0 /\ loop[c].at = "free" /\ ~conv[c].closed
    /\ \/ loop[c].unclaimed = {} /\ run' = [run EXCEPT ![loop[c].turn] = "end_turn"] /\ UNCHANGED faults
       \/ run' = [run EXCEPT ![loop[c].turn] = "failed"] /\ Fault
    /\ loop' = [loop EXCEPT ![c].turn = 0]
    /\ UNCHANGED <<clientVars, convVars, req, steps, results, calls, seen, serving, serverVars>>

TurnClosed(c) ==
    /\ up /\ loop[c].turn # 0 /\ conv[c].closed
    /\ run' = [run EXCEPT ![loop[c].turn] = "closed"]
    /\ loop' = [loop EXCEPT ![c].turn = 0]
    /\ UNCHANGED <<clientVars, convVars, req, steps, results, calls, seen, serving, serverVars, faults>>

\* The process exits in the middle of a turn: the read loop comes to the end of
\* the frames, and Prompt waits until the session is closed.
ProcessExits(c) ==
    /\ up /\ loop[c].turn # 0 /\ loop[c].at = "free" /\ ~conv[c].closed
    /\ Fault
    /\ loop' = [loop EXCEPT ![c].at = "exited"]
    /\ UNCHANGED <<clientVars, convVars, req, steps, results, run, calls, seen, serving, serverVars>>

\* run drains what is left and sends the last step of the turn.
RunSends(r) ==
    LET c == req[r].conv IN
    /\ up /\ run[r] \in {"end_turn", "failed", "closed", "inflight"} /\ steps[c] = <<>>
    /\ steps' = [steps EXCEPT ![c] =
          <<IF run[r] = "end_turn"
            THEN [by |-> serving[c], ids |-> loop[c].pending, stop |-> "end_turn", err |-> "none"]
            ELSE Failed(r, run[r])>>]
    /\ run' = [run EXCEPT ![r] = "none"] /\ loop' = [loop EXCEPT ![c].pending = {}]
    /\ UNCHANGED <<clientVars, convVars, req, results, calls, seen, serving, serverVars, faults>>

(* ------------------------------ the process ------------------------------ *)

\* Nothing in memory outlives the server.  The handlers of requests are gone,
\* which their clients see.
Lost ==
    /\ convs' = <<>> /\ all' = {} /\ stale' = {} /\ closing' = {} /\ UNCHANGED raced
    /\ conv' = [c \in Requests |-> NoConv] /\ loop' = [c \in Requests |-> NoLoop]
    /\ steps' = [c \in Requests |-> <<>>] /\ results' = [c \in Requests |-> <<>>]
    /\ req' = [r \in Requests |-> IF InHandler(r) THEN [req[r] EXCEPT !.pc = "done", !.step = NoStep] ELSE req[r]]
    /\ run' = [r \in Requests |-> "none"]
    /\ seen' = [c \in Requests |-> <<>>] /\ serving' = [c \in Requests |-> 0]
    /\ up' = FALSE /\ Fault /\ UNCHANGED <<clientVars, calls, expiries>>

\* Interrupted, main closes every conversation there is and ends, whatever the
\* handlers are doing; killed, it just ends.
Stop == up /\ Lost /\ files' = files \ {conv[c].file : c \in all}
Killed == up /\ Lost /\ files' = files

\* main removes the session files a run before left behind.
Boot ==
    /\ ~up /\ up' = TRUE /\ files' = {}
    /\ UNCHANGED <<clientVars, convs, all, conv, raced, loopVars, req, stale, closing, expiries, faults>>

(* ---------------------------- specification ----------------------------- *)

Handler(r) ==
    \/ Lookup(r) \/ Decide(r) \/ DropConv(r) \/ StartRefuses(r) \/ StartPrepares(r) \/ OpenFails(r)
    \/ Open(r) \/ Supersede(r) \/ AdvancePush(r) \/ AdvanceRun(r)
    \/ TakeFailure(r) \/ TakeStep(r) \/ Rekey(r)
ReadLoop(c) ==
    \/ Execute(c) \/ ExecSends(c) \/ ExecWakes(c) \/ ExecCancelled(c)
    \/ TurnEnds(c) \/ TurnClosed(c) \/ ProcessExits(c)
Expire == ExpireCollects \/ ExpireCloses
Removals == \E c \in Requests : RemoveFile(c)

Next ==
    \/ \E a \in Clients : ClientSends(a) \/ ClientReads(a) \/ ClientHangsUp(a)
    \/ \E r \in Requests : Handler(r) \/ RunSends(r) \/ ReadLoop(r) \/ ModelAsks(r)
    \/ Expire \/ Removals \/ Stop \/ Killed \/ Boot

Spec == Init /\ [][Next]_vars

(* ------------------------------ properties ------------------------------ *)

\* The types of the server's state, the capacities of the channels, and the two
\* ways from a history to its conversation agree. (server, conv: main.go:615-624,
\* 953-985.)
TypeOK ==
    /\ all \subseteq Requests /\ files \subseteq Requests /\ stale \subseteq Requests /\ raced \subseteq Requests
    /\ closing \subseteq Requests
    /\ conv \in [Requests -> [root : Nat, knobs : Settings \cup {0}, parked : BOOLEAN, asked : SUBSET Ids,
                             keys : SUBSET Seq(Message), busy : BOOLEAN, closed : BOOLEAN, file : 0..MaxRequests]]
    /\ \A c \in Requests : Len(steps[c]) <= 1 /\ Len(results[c]) <= 1
    /\ \A k \in DOMAIN convs : convs[k] \in Requests /\ k \in conv[convs[k]].keys

\* A reply is made for the request that gets it and from the history its client
\* sent: what the process was given before is that history, but for reminders
\* the client has left out since. (messages: main.go:635-640, 710-727.)
Replayed(h) ==
    LET kept[n \in 0..Len(h)] ==
            IF n = 0 THEN <<>> ELSE kept[n - 1] \o (IF h[n].kind = "note" THEN <<>> ELSE <<h[n]>>)
    IN  kept[Len(h)]
HistoryMatches ==
    \A r \in Requests : req[r].pc = "rekey" =>
        /\ req[r].step.by = r
        /\ Replayed(seen[req[r].conv]) = Replayed(req[r].prior \o req[r].input)

\* A session file on disk belongs to a conversation that is open or just being
\* closed or to a request that is opening one, also when a server before was
\* killed. (main.go:97-101, 788-812, 884-899.)
FilesAreOwned ==
    up => \A f \in files : req[f].pc = "open" \/ \E c \in all \cup closing : conv[c].file = f

\* A request finds its conversation closed under it only if expire or another
\* request collected it while it was idle and closed it after it was taken: a
\* conversation closed at any other time cannot be found. (main.go:866-879, 912-924.)
OnlyRacesFail ==
    \A r \in Requests : req[r].step.err = "closed" => req[r].conv \in raced

\* Whoever waits for a step gets one: there is a step, or a goroutine whose turn
\* will send one, and if the read loop is parked the results are on their way.
\* (main.go:696, 1074-1100.)  Only a process that exits in the middle of a turn
\* leaves its request waiting: nothing closes a conversation that is busy.
WaiterIsServed ==
    \A r \in Requests : req[r].pc = "wait" =>
        LET c == req[r].conv IN
        \/ steps[c] # <<>>
        \/ loop[c].at = "exited"
        \/ /\ \E q \in Requests : run[q] # "none" /\ req[q].conv = c
           /\ loop[c].at # "panicked"
           /\ loop[c].at = "parked" => results[c] # <<>> \/ conv[c].closed

\* What the comment at main.go:693-696 says: a request that repeats one whose
\* client hung up is rebuilt, so no two requests wait on one conversation.
RetryIsRebuilt ==
    \A r, q \in Requests : req[r].pc = "wait" /\ req[q].pc = "wait" /\ req[r].conv = req[q].conv => r = q

============================================================================
