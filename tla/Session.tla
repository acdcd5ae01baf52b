------------------------------ MODULE Session ------------------------------
(***************************************************************************)
(* core/session.go: the host's side of a conversation.  Any number of      *)
(* goroutines call Prompt, Subscribe and Close; the backend's read loop    *)
(* and the prompting goroutines call Emit.  s.mu is held for one action at *)
(* a time, so each critical section is one action, and what the code does  *)
(* outside the lock (the backend's Prompt, the listeners) interleaves.     *)
(*                                                                         *)
(* The backend is the environment: it answers a running call and emits     *)
(* events when it likes.  ClaudeSession replaces it by the Claude Code     *)
(* backend and Anthropic by the API backend.                               *)
(***************************************************************************)
EXTENDS Port

VARIABLES
    closed,             \* s.closed
    inFlight,           \* s.inFlight
    text,               \* s.text: the turns whose text was written to it
    subs,               \* the listeners in s.subs
    pc,                 \* where each caller is in Prompt
    prompts,            \* how many prompts were accepted so far
    answer,             \* history: the Turn each prompt was given
    heard               \* history: the last text and the last TurnEvent told

sessVars == <<closed, inFlight, text, subs, pc, prompts, answer, heard>>

NoAnswer == [turn |-> 0, text |-> <<>>]
Silence  == [text |-> 0, turn |-> 0]

SessionTypeOK ==
    /\ PortTypeOK
    /\ closed \in BOOLEAN
    /\ inFlight \in BOOLEAN
    /\ text \in Seq(Turns)
    /\ subs \subseteq Listeners
    /\ pc \in [Callers -> {"idle", "inConv", "publish"}]
    /\ prompts \in Turns
    /\ answer \in [Prompts -> [turn : Turns, text : Seq(Turns)]]
    /\ heard \in [Listeners -> [text : Turns, turn : Turns]]

SessionInit ==
    /\ PortInit
    /\ closed = FALSE
    /\ inFlight = FALSE
    /\ text = <<>>
    /\ subs = {}
    /\ pc = [p \in Callers |-> "idle"]
    /\ prompts = 0
    /\ answer = [n \in Prompts |-> NoAnswer]
    /\ heard = [l \in Listeners |-> Silence]
-----------------------------------------------------------------------------
(* The session takes the prompt of caller p, as its nth, and calls the     *)
(* backend.                                                                *)
Accept(p, n) ==
    /\ pc[p] = "idle"
    /\ prompts < MaxPrompts
    /\ inFlight' = TRUE
    /\ prompts' = prompts + 1
    /\ call' = [call EXCEPT ![p] = [st |-> "running", n |-> n, turn |-> 0, err |-> "nil"]]
    /\ pc' = [pc EXCEPT ![p] = "inConv"]
    /\ UNCHANGED <<closed, subs, answer, heard, emit, convClose>>

(* Here and in the other modules, broken variants of an action stand       *)
(* before it: each is a mistake the code could have made, and that some    *)
(* property must tell from the code.                                       *)

(* Prompt's first critical section when it accepts, and the call of the    *)
(* backend that follows.  The two refusals (closed, in flight) change      *)
(* nothing.                                                                *)
PromptEnter(p) ==
    /\ ~closed
    /\ ~inFlight
    /\ Accept(p, prompts + 1)
    /\ text' = <<>>

(* The backend returned: the second critical section, then either the      *)
(* error is returned or the TurnEvent is emitted on this goroutine.        *)
PromptLeave(p) ==
    /\ pc[p] = "inConv"
    /\ call[p].st = "done"
    /\ emit[p].st = "quiet"
    /\ inFlight' = FALSE
    /\ call' = [call EXCEPT ![p] = NoCall]
    /\ \/ /\ call[p].err = "nil"
          /\ answer' = [answer EXCEPT ![call[p].n] = [turn |-> call[p].turn, text |-> text]]
          /\ AskEmit(p, [kind |-> "turn", turn |-> call[p].n])
          /\ pc' = [pc EXCEPT ![p] = "publish"]
       \/ /\ call[p].err # "nil"
          /\ pc' = [pc EXCEPT ![p] = "idle"]
          /\ UNCHANGED <<answer, emit>>
    /\ UNCHANGED <<closed, text, subs, prompts, heard, convClose>>

(* Close's critical section, and the call of the backend's Close.  A       *)
(* second Close finds closed set and returns at once.                      *)
Close ==
    /\ ~closed
    /\ closed' = TRUE
    /\ convClose' = "called"
    /\ UNCHANGED <<inFlight, text, subs, pc, prompts, answer, heard, call, emit>>

Subscribe(l) ==
    /\ l \notin subs
    /\ subs' = subs \cup {l}
    /\ UNCHANGED <<closed, inFlight, text, pc, prompts, answer, heard, portVars>>

(* The function Subscribe returned. *)
Unsubscribe(l) ==
    /\ l \in subs
    /\ subs' = subs \ {l}
    /\ UNCHANGED <<closed, inFlight, text, pc, prompts, answer, heard, portVars>>
-----------------------------------------------------------------------------
(* Emit's critical section: text counts towards the prompt in flight, and  *)
(* the listeners are copied.                                               *)
EmitLock(g) ==
    /\ emit[g].st = "asked"
    /\ text' = IF emit[g].ev.kind = "text" /\ inFlight
               THEN Append(text, emit[g].ev.turn)
               ELSE text
    /\ emit' = [emit EXCEPT ![g] = [@ EXCEPT !.st = "telling", !.todo = subs]]
    /\ UNCHANGED <<closed, inFlight, subs, pc, prompts, answer, heard, call, convClose>>

(* Emit calls one of the copied listeners, in the map's order: any.        *)
Tell(g, l) ==
    /\ emit[g].st = "telling"
    /\ l \in emit[g].todo
    /\ emit' = [emit EXCEPT ![g].todo = @ \ {l}]
    /\ LET ev == emit[g].ev IN
       heard' = [heard EXCEPT ![l] =
                    [text |-> IF ev.kind = "text" THEN ev.turn ELSE @.text,
                     turn |-> IF ev.kind = "turn" THEN ev.turn ELSE @.turn]]
    /\ UNCHANGED <<closed, inFlight, text, subs, pc, prompts, answer, call, convClose>>

(* Emit returns; when it was that of the TurnEvent, Prompt returns.        *)
EmitReturn(g) ==
    /\ emit[g].st = "telling"
    /\ emit[g].todo = {}
    /\ emit' = [emit EXCEPT ![g] = Quiet]
    /\ pc' = [p \in Callers |-> IF p = g /\ pc[p] = "publish" THEN "idle" ELSE pc[p]]
    /\ UNCHANGED <<closed, inFlight, text, subs, prompts, answer, heard, call, convClose>>

(* Every step the session itself takes. *)
SessionStep ==
    \/ \E p \in Callers : PromptEnter(p) \/ PromptLeave(p)
    \/ Close
    \/ \E l \in Listeners : Subscribe(l) \/ Unsubscribe(l)
    \/ \E g \in Goroutines : EmitLock(g) \/ EmitReturn(g)
    \/ \E g \in Goroutines, l \in Listeners : Tell(g, l)
-----------------------------------------------------------------------------
(* What the port allows the backend to do.  It emits from its read loop,   *)
(* or from the goroutine of the Prompt it is running.                      *)
BackendAnswers(p) ==
    /\ call[p].st = "running"
    /\ \E t \in 1..prompts : Answer(p, t)
    /\ UNCHANGED <<sessVars, emit, convClose>>

BackendFails(p) ==
    /\ call[p].st = "running"
    /\ \E err \in Failures : Fail(p, err)
    /\ UNCHANGED <<sessVars, emit, convClose>>

BackendEmits(g) ==
    /\ g # Reader => call[g].st = "running"
    /\ \E ev \in Event :
          /\ ev.kind # "turn"
          /\ ev.turn <= prompts
          /\ AskEmit(g, ev)
    /\ UNCHANGED <<sessVars, call, convClose>>

BackendCloses ==
    /\ convClose = "called"
    /\ convClose' = "done"
    /\ UNCHANGED <<sessVars, call, emit>>

BackendStep ==
    \/ \E p \in Callers : BackendAnswers(p) \/ BackendFails(p)
    \/ \E g \in Goroutines : BackendEmits(g)
    \/ BackendCloses

SessionNext == SessionStep \/ BackendStep

SessionSpec == SessionInit /\ [][SessionNext]_<<sessVars, portVars>>
-----------------------------------------------------------------------------
(* A session runs one prompt at a time (README, "Sessions and turns"): at  *)
(* most one caller is inside the backend's Prompt, inFlight says whether   *)
(* there is one, and it is the prompt accepted last.  The backends rely on *)
(* it: they keep a single place for the answer of a Prompt.                *)
OneInFlight ==
    /\ \A p, q \in Callers : pc[p] = "inConv" /\ pc[q] = "inConv" => p = q
    /\ inFlight <=> \E p \in Callers : pc[p] = "inConv"
    /\ \A p \in Callers :
          /\ call[p].st # "none" <=> pc[p] = "inConv"
          /\ call[p].st # "none" => call[p].n = prompts

(* A Turn is only given to a prompt that was accepted, and the turn it     *)
(* carries is one that had been asked for by then: no prompt is answered   *)
(* from the future, and the prompt in flight has no answer yet.            *)
AnswersAreCaused ==
    \A n \in Prompts :
        answer[n].turn # 0 =>
            /\ n <= prompts
            /\ answer[n].turn <= n
            /\ \A p \in Callers : call[p].st # "none" => call[p].n # n

(* After Close has set closed no prompt is ever accepted, however the      *)
(* callers interleave with it, and the session never reopens.              *)
NoneAfterClose ==
    [][closed => closed' /\ prompts' = prompts]_<<sessVars, portVars>>
=============================================================================
