------------------------------ MODULE Anthropic ------------------------------
(***************************************************************************)
(* external/anthropic: the backend that runs the agent loop itself.  There *)
(* is no read loop: everything but Interrupt and Close happens on the      *)
(* goroutine of the Prompt, which sends the whole history, reports the     *)
(* response, runs the tools it asks for and sends again.                   *)
(*                                                                         *)
(* The endpoint (external) answers a request with text, with tool calls or *)
(* with an error, or never; a cancelled context ends the wait.             *)
(***************************************************************************)
EXTENDS Session

CONSTANTS MaxTurns,     \* Options.MaxTurns; 0 is no limit
          MaxSends,     \* bound on the requests of one prompt
          MaxCalls,     \* bound on the tool calls of one response
          CanImage,     \* a tool may return images
          CanCancel     \* a prompt's own context may be cancelled

ASSUME AnthropicAssumption ==
    MaxTurns \in Nat /\ MaxSends \in Nat /\ MaxCalls \in Nat

VARIABLES
    convClosed,         \* c.closed
    cancelFn,           \* the prompt whose cancel is c.cancel; 0: nil
    cancelled,          \* prompts whose derived context is done
    ready,              \* c.ready
    history,            \* c.history
    at,                 \* where each caller is in Conversation.Prompt
    sent,               \* turn.Turns: the requests answered in this prompt
    todo,               \* tool calls of the last response not run yet
    results,            \* tool results collected for them
    denied,             \* a denial asked for an interrupt
    imaged,             \* history: a tool has returned images
    spoken              \* history: texts the endpoint produced for each prompt

loopVars == <<history, sent, todo, results, denied, spoken>>
convVars == <<convClosed, cancelFn, cancelled, ready, at, imaged, loopVars>>
vars == <<sessVars, portVars, convVars>>

(* A message of the history: a prompt, a response with its tool calls, or  *)
(* the results of tool calls.                                              *)
Message == [role : {"prompt", "assistant", "results"}, calls : 0..MaxCalls]

TypeOK ==
    /\ SessionTypeOK
    /\ convClosed \in BOOLEAN
    /\ cancelFn \in Turns
    /\ cancelled \subseteq Prompts
    /\ ready \in BOOLEAN
    /\ history \in Seq(Message)
    /\ at \in [Callers -> {"out", "begun", "loop", "sending", "reported", "tools"}]
    /\ sent \in 0..MaxSends
    /\ todo \in 0..MaxCalls /\ results \in 0..MaxCalls
    /\ denied \in BOOLEAN
    /\ imaged \in BOOLEAN
    /\ spoken \in [Prompts -> 0..MaxSends]

Init ==
    /\ SessionInit
    /\ convClosed = FALSE
    /\ cancelFn = 0
    /\ cancelled = {}
    /\ ready = FALSE
    /\ history = <<>>
    /\ at = [p \in Callers |-> "out"]
    /\ sent = 0 /\ todo = 0 /\ results = 0
    /\ denied = FALSE
    /\ imaged = FALSE
    /\ spoken = [n \in Prompts |-> 0]
-----------------------------------------------------------------------------
(* Prompt p is at l, and not inside an Emit. *)
Stands(p, l) == at[p] = l /\ emit[p].st = "quiet"
Goes(p, l)   == at' = [at EXCEPT ![p] = l]
Live(p)      == call[p].n \notin cancelled

(* Prompt returns its Turn, or an error. *)
Returns(p) == Goes(p, "out") /\ Answer(p, call[p].n)
Errs(p)    == Goes(p, "out") /\ Fail(p, IF Live(p) THEN "write" ELSE "ctx")

PromptRefused(p) ==
    /\ call[p].st = "running" /\ at[p] = "out"
    /\ convClosed
    /\ Fail(p, "ErrSessionClosed")
    /\ UNCHANGED <<sessVars, convVars, emit, convClose>>

(* The critical section, in which the prompt's cancel becomes c.cancel. *)
PromptBegins(p) ==
    /\ call[p].st = "running" /\ at[p] = "out"
    /\ ~convClosed
    /\ cancelFn' = call[p].n
    /\ Goes(p, "begun")
    /\ UNCHANGED <<sessVars, portVars, convClosed, cancelled, ready, imaged, loopVars>>

(* The first prompt emits the ReadyEvent; then the message is appended. *)
PromptStarts(p) ==
    /\ at[p] = "begun"
    /\ IF ready THEN UNCHANGED emit ELSE AskEmit(p, [kind |-> "other", turn |-> 0])
    /\ ready' = TRUE
    /\ history' = Append(history, [role |-> "prompt", calls |-> 0])
    /\ sent' = 0
    /\ denied' = FALSE
    /\ Goes(p, "loop")
    /\ UNCHANGED <<sessVars, call, convClose, convClosed, cancelFn, cancelled, imaged, todo,
                   results, spoken>>
-----------------------------------------------------------------------------

(* loop: the limit on round trips comes before the next request. *)
AtLimit == MaxTurns > 0 /\ sent >= MaxTurns

LimitReached(p) ==
    /\ Stands(p, "loop")
    /\ AtLimit
    /\ Returns(p)
    /\ UNCHANGED <<sessVars, emit, convClose, convClosed, cancelFn, cancelled, ready, imaged,
                   loopVars>>

Send(p) ==
    /\ Stands(p, "loop")
    /\ ~AtLimit
    /\ Live(p)
    /\ sent < MaxSends
    /\ Goes(p, "sending")
    /\ UNCHANGED <<sessVars, portVars, convClosed, cancelFn, cancelled, ready, imaged, loopVars>>

(* A request on a context that is done already is not sent at all. *)
SendRefused(p) ==
    /\ Stands(p, "loop")
    /\ ~AtLimit
    /\ ~Live(p)
    /\ Errs(p)
    /\ UNCHANGED <<sessVars, emit, convClose, convClosed, cancelFn, cancelled, ready, imaged,
                   loopVars>>

(* Broken: the request is made without the context. *)
SendFailsAlone(p) ==
    /\ at[p] = "sending"
    /\ Live(p)
    /\ Errs(p)
    /\ UNCHANGED <<sessVars, emit, convClose, convClosed, cancelFn, cancelled, ready, imaged,
                   loopVars>>

(* The request fails: the endpoint's error, or the context's.  What was    *)
(* appended to the history stays there.                                    *)
SendFails(p) ==
    /\ at[p] = "sending"
    /\ Errs(p)
    /\ UNCHANGED <<sessVars, emit, convClose, convClosed, cancelFn, cancelled, ready, imaged,
                   loopVars>>

(* Broken: the backend emits the TurnEvent. *)
ResponseEmitsTurn(p, k, speaks) ==
    /\ at[p] = "sending"
    /\ sent' = sent + 1
    /\ todo' = k
    /\ results' = 0
    /\ AskEmit(p, [kind |-> IF k = 0 THEN "turn" ELSE "text", turn |-> call[p].n])
    /\ Goes(p, "reported")
    /\ UNCHANGED <<sessVars, call, convClose, convClosed, cancelFn, cancelled, ready, imaged,
                   denied, history, spoken>>

(* A response with k tool calls, and with text or without: it is reported, *)
(* and goes into the history unless it is empty.  (One event stands for    *)
(* all that report emits; the history is private to this goroutine.)       *)
Response(p, k, speaks) ==
    /\ at[p] = "sending"
    /\ sent' = sent + 1
    /\ todo' = k
    /\ results' = 0
    /\ IF speaks
       THEN /\ AskEmit(p, [kind |-> "text", turn |-> call[p].n])
            /\ spoken' = [spoken EXCEPT ![call[p].n] = @ + 1]
       ELSE UNCHANGED <<emit, spoken>>
    /\ history' = IF speaks \/ k > 0
                  THEN Append(history, [role |-> "assistant", calls |-> k])
                  ELSE history
    /\ Goes(p, "reported")
    /\ UNCHANGED <<sessVars, call, convClose, convClosed, cancelFn, cancelled, ready, imaged,
                   denied>>

Reported(p) ==
    /\ Stands(p, "reported")
    /\ IF todo = 0 THEN Returns(p) ELSE Goes(p, "tools") /\ UNCHANGED call
    /\ UNCHANGED <<sessVars, emit, convClose, convClosed, cancelFn, cancelled, ready, imaged,
                   loopVars>>
-----------------------------------------------------------------------------
(* runTools: one call after the other, whatever became of the context.  A  *)
(* denial is a result too, and may ask for the turn to be interrupted.     *)
Deny(p, interrupt) ==
    /\ Stands(p, "tools") /\ todo > 0
    /\ AskEmit(p, [kind |-> "other", turn |-> call[p].n])
    /\ todo' = todo - 1
    /\ results' = results + 1
    /\ denied' = (denied \/ interrupt)
    /\ UNCHANGED <<sessVars, call, convClose, convClosed, cancelFn, cancelled, ready, at,
                   imaged, history, sent, spoken>>

RunTool(p) ==
    /\ Stands(p, "tools") /\ todo > 0
    /\ AskEmit(p, [kind |-> "other", turn |-> call[p].n])
    /\ todo' = todo - 1
    /\ results' = results + 1
    /\ UNCHANGED <<sessVars, call, convClose, convClosed, cancelFn, cancelled, ready, at,
                   imaged, history, sent, denied, spoken>>

(* The tool returned images: the prompt fails, and the results with it. *)
RunToolWithImages(p) ==
    /\ CanImage
    /\ Stands(p, "tools") /\ todo > 0
    /\ Errs(p)
    /\ imaged' = TRUE
    /\ UNCHANGED <<sessVars, emit, convClose, convClosed, cancelFn, cancelled, ready, loopVars>>

(* Broken: the turn is ended before the results are in the history. *)
ToolsDoneEarly(p) ==
    /\ Stands(p, "tools") /\ todo = 0
    /\ IF denied
       THEN Returns(p) /\ UNCHANGED history
       ELSE /\ history' = Append(history, [role |-> "results", calls |-> results])
            /\ Goes(p, "loop") /\ UNCHANGED call
    /\ UNCHANGED <<sessVars, emit, convClose, convClosed, cancelFn, cancelled, ready, imaged,
                   sent, todo, results, denied, spoken>>

(* All calls are done: the results are the next message. *)
ToolsDone(p) ==
    /\ Stands(p, "tools") /\ todo = 0
    /\ history' = Append(history, [role |-> "results", calls |-> results])
    /\ IF denied THEN Returns(p) ELSE Goes(p, "loop") /\ UNCHANGED call
    /\ UNCHANGED <<sessVars, emit, convClose, convClosed, cancelFn, cancelled, ready, imaged,
                   sent, todo, results, denied, spoken>>

ToolSteps(p) ==
    RunTool(p) \/ RunToolWithImages(p) \/ ToolsDone(p) \/ \E b \in BOOLEAN : Deny(p, b)
-----------------------------------------------------------------------------
InLoop(p) == at[p] # "out"

Interrupt ==
    /\ cancelFn # 0
    /\ cancelled' = cancelled \cup {cancelFn}
    /\ UNCHANGED <<sessVars, portVars, convClosed, cancelFn, ready, at, imaged, loopVars>>

ConvClose ==
    /\ convClose = "called"
    /\ convClosed' = TRUE
    /\ cancelled' = IF cancelFn = 0 THEN cancelled ELSE cancelled \cup {cancelFn}
    /\ convClose' = "done"
    /\ UNCHANGED <<sessVars, call, emit, cancelFn, ready, at, imaged, loopVars>>

(* The context the caller gave to Prompt is cancelled. *)
CancelPrompt(p) ==
    /\ CanCancel
    /\ call[p].st = "running" /\ Live(p)
    /\ cancelled' = cancelled \cup {call[p].n}
    /\ UNCHANGED <<sessVars, portVars, convClosed, cancelFn, ready, at, imaged, loopVars>>

OwnSteps(p) ==
    \/ PromptRefused(p) \/ PromptBegins(p) \/ PromptStarts(p)
    \/ LimitReached(p) \/ Send(p) \/ SendRefused(p) \/ Reported(p) \/ ToolSteps(p)

Responses(p) == \E k \in 0..MaxCalls, b \in BOOLEAN : Response(p, k, b)

Next ==
    \/ SessionStep /\ UNCHANGED convVars
    \/ \E p \in Callers : OwnSteps(p) \/ SendFails(p) \/ Responses(p) \/ CancelPrompt(p)
    \/ Interrupt
    \/ ConvClose

Spec == Init /\ [][Next]_vars

(* The host's goroutines run, its tools and listeners return, and a        *)
(* request whose context is done ends.  The endpoint may never answer one  *)
(* whose context is not.                                                   *)
FairSpec ==
    /\ Spec
    /\ \A p \in Callers :
          /\ WF_vars(OwnSteps(p))
          /\ WF_vars(~Live(p) /\ SendFails(p))
          /\ WF_vars(PromptLeave(p) /\ UNCHANGED convVars)
          /\ WF_vars((EmitLock(p) \/ EmitReturn(p) \/ \E l \in Listeners : Tell(p, l))
                     /\ UNCHANGED convVars)
-----------------------------------------------------------------------------
(* A history the endpoint takes: each response that asked for tools is     *)
(* followed by the results of all of them before anything else.            *)
WellFormed(h) ==
    \A i \in DOMAIN h :
        /\ h[i].role = "assistant" /\ h[i].calls > 0 =>
              /\ i < Len(h)
              /\ h[i + 1] = [role |-> "results", calls |-> h[i].calls]
        /\ h[i].role = "results" =>
              i > 1 /\ h[i - 1] = [role |-> "assistant", calls |-> h[i].calls]

(* "The result goes back, and the loop turns" (README.md:426): every       *)
(* request can be sent, however the prompts before it ended.               *)
Sendable == \A p \in Callers : at[p] = "sending" => WellFormed(history)

(* It holds as long as no tool has returned images: failed requests, the   *)
(* turn limit, denials, Interrupt and Close all leave such a history.      *)
SendableWithoutImages == ~imaged => Sendable

(* Turn.Text is every assistant text block of the turn (event.go:157),     *)
(* whatever was cancelled, interrupted or refused before it.               *)
TextComplete ==
    \A n \in Prompts :
        answer[n].turn # 0 =>
            /\ Len(answer[n].text) = spoken[n]
            /\ \A i \in DOMAIN answer[n].text : answer[n].text[i] = n

(* A prompt whose context is done comes back, although the endpoint may    *)
(* never answer.                                                           *)
CancelledReturns ==
    \A p \in Callers :
        (pc[p] = "inConv" /\ ~Live(p)) ~> pc[p] # "inConv"
=============================================================================
