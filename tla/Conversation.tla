---------------------------- MODULE Conversation ----------------------------
(***************************************************************************)
(* external/claudecode: the conversation with one claude process.          *)
(* Goroutines: the callers inside Prompt, the read loop, and whoever calls *)
(* Close or Interrupt.  c.mu guards pending, initDone and closed and is    *)
(* never held over a write, a wait or a call of the host.                  *)
(*                                                                         *)
(* A result frame does not say which prompt it answers: it goes to         *)
(* whichever Prompt is pending when the read loop takes it.                *)
(***************************************************************************)
EXTENDS Port, Cli

CONSTANTS CanCancel,    \* contexts may be cancelled: a prompt's, and Open's
          CanInterrupt, \* the host may call Interrupt by itself
          CanExit,      \* the process may exit on its own account
          CanTooLong,   \* the process may write a line the reader refuses
          MaxLines      \* bound on the lines waiting in the pipe when the
                        \* host interrupts by itself

VARIABLES
    convClosed,         \* c.closed
    convDone,           \* c.ctx is done
    initDone,           \* c.initDone
    pending,            \* the prompt whose channel is c.pending; 0: nil
    reply,              \* the turn in each prompt's done channel; 0: empty
    ppc,                \* where each caller is in Conversation.Prompt
    ctxDone,            \* each caller's own context is done
    reading,            \* where the read loop is
    shut,               \* where Close is
    abandoned           \* history: prompts that were sent and then given up

ownVars  == <<convClosed, convDone, initDone, pending, reply, ppc, ctxDone,
              reading, shut, abandoned>>
convVars == <<ownVars, duplexVars, cliVars>>

Idle == [at |-> "next", turn |-> 0]

ConvTypeOK ==
    /\ CliTypeOK
    /\ convClosed \in BOOLEAN
    /\ convDone \in BOOLEAN
    /\ initDone \in BOOLEAN
    /\ pending \in Turns
    /\ reply \in [Prompts -> Turns]
    /\ ppc \in [Callers -> {"out", "init", "user", "wait", "giveUp"}]
    /\ ctxDone \in [Callers -> BOOLEAN]
    /\ reading \in [at : {"next", "deciding", "answering", "ended"}, turn : Turns]
    /\ shut \in {"open", "cancel", "pipe", "kill", "wait", "done"}
    /\ abandoned \subseteq Prompts

ConvInit ==
    /\ DuplexInit
    /\ CliInit
    /\ convClosed = FALSE
    /\ convDone = FALSE
    /\ initDone = FALSE
    /\ pending = 0
    /\ reply = [n \in Prompts |-> 0]
    /\ ppc = [p \in Callers |-> "out"]
    /\ ctxDone = [p \in Callers |-> FALSE]
    /\ reading = Idle
    /\ shut = "open"
    /\ abandoned = {}
-----------------------------------------------------------------------------
(* Conversation.Prompt.  Prompt returns with a Turn or an error; the done  *)
(* channel and the context are the caller's own and are dropped with it.   *)
Leave(p) ==
    /\ ppc' = [ppc EXCEPT ![p] = "out"]
    /\ ctxDone' = [ctxDone EXCEPT ![p] = FALSE]

PromptRefused(p) ==
    /\ call[p].st = "running" /\ ppc[p] = "out"
    /\ convClosed
    /\ Fail(p, "ErrSessionClosed")
    /\ Leave(p)
    /\ UNCHANGED <<convClosed, convDone, initDone, pending, reply, reading, shut,
                   abandoned, duplexVars, cliVars, emit, convClose>>

(* The critical section: only the first prompt sends the handshake. *)
PromptBegins(p) ==
    /\ call[p].st = "running" /\ ppc[p] = "out"
    /\ ~convClosed
    /\ initDone' = TRUE
    /\ pending' = call[p].n
    /\ ppc' = [ppc EXCEPT ![p] = IF initDone THEN "user" ELSE "init"]
    /\ UNCHANGED <<convClosed, convDone, reply, ctxDone, reading, shut, abandoned,
                   duplexVars, cliVars, portVars>>

(* Broken: the interrupt of a prompt that gave up is written again, after  *)
(* the next user message.                                                  *)
PromptWritesInterruptLast(p) ==
    /\ ppc[p] \in {"init", "user"}
    /\ ~pipeClosed
    /\ toCli' = IF ppc[p] = "init"
                THEN Append(toCli, [kind |-> "initialize", for |-> 0])
                ELSE Append(toCli, [kind |-> "user", for |-> call[p].n])
                        \o (IF abandoned = {} THEN <<>>
                            ELSE <<[kind |-> "interrupt", for |-> CHOOSE n \in abandoned : TRUE]>>)
    /\ ppc' = [ppc EXCEPT ![p] = IF @ = "init" THEN "user" ELSE "wait"]
    /\ UNCHANGED <<toHost, pipeClosed, cut, life, ended, convClosed, convDone, initDone, pending,
                   reply, ctxDone, reading, shut, abandoned, cliVars, portVars>>

(* c.write of the initialize request, then of the user message. *)
PromptWrites(p) ==
    /\ \/ /\ ppc[p] = "init"
          /\ WriteLine([kind |-> "initialize", for |-> 0])
          /\ ppc' = [ppc EXCEPT ![p] = "user"]
       \/ /\ ppc[p] = "user"
          /\ WriteLine([kind |-> "user", for |-> call[p].n])
          /\ ppc' = [ppc EXCEPT ![p] = "wait"]
    /\ UNCHANGED <<convClosed, convDone, initDone, pending, reply, ctxDone, reading,
                   shut, abandoned, cliVars, portVars>>

(* Either write fails: pending is cleared and the write's error returned.  *)
(* initDone stays set.                                                     *)
PromptWriteFails(p) ==
    /\ ppc[p] \in {"init", "user"}
    /\ \/ WriteClosed /\ Fail(p, "ErrClosed")
       \/ WriteBroken /\ Fail(p, "write")
    /\ pending' = 0
    /\ Leave(p)
    /\ UNCHANGED <<convClosed, convDone, initDone, reply, reading, shut, abandoned,
                   cliVars, emit, convClose>>

(* Broken: one done channel for all prompts. *)
PromptAnsweredByAny(p) ==
    /\ ppc[p] = "wait"
    /\ \E n \in Prompts : reply[n] # 0 /\ Answer(p, reply[n])
    /\ Leave(p)
    /\ UNCHANGED <<convClosed, convDone, initDone, pending, reply, reading, shut,
                   abandoned, duplexVars, cliVars, emit, convClose>>

(* The select: any case that is ready may be taken. *)
PromptAnswered(p) ==
    /\ ppc[p] = "wait"
    /\ reply[call[p].n] # 0
    /\ Answer(p, reply[call[p].n])
    /\ Leave(p)
    /\ UNCHANGED <<convClosed, convDone, initDone, pending, reply, reading, shut,
                   abandoned, duplexVars, cliVars, emit, convClose>>

PromptCancelled(p) ==
    /\ ppc[p] = "wait"
    /\ ctxDone[p]
    /\ pending' = 0
    /\ abandoned' = abandoned \cup {call[p].n}
    /\ ppc' = [ppc EXCEPT ![p] = "giveUp"]
    /\ UNCHANGED <<convClosed, convDone, initDone, reply, ctxDone, reading, shut,
                   duplexVars, cliVars, portVars>>

(* control("interrupt") on behalf of prompt n; its error is not looked at  *)
(* by a Prompt that gives up.  c.mu is not held from the look at closed to *)
(* the write, so the write may come after a Close that began in between;   *)
(* whether it lands is up to the transport then.                           *)
WriteInterrupt(n) ==
    \/ convClosed /\ UNCHANGED duplexVars
    \/ WriteLine([kind |-> "interrupt", for |-> n])
    \/ WriteClosed \/ WriteBroken

(* Broken: nobody tells the process. *)
PromptGivesUpSilently(p) ==
    /\ ppc[p] = "giveUp"
    /\ Fail(p, "ctx")
    /\ Leave(p)
    /\ UNCHANGED <<convClosed, convDone, initDone, pending, reply, reading, shut,
                   abandoned, duplexVars, cliVars, emit, convClose>>

PromptGivesUp(p) ==
    /\ ppc[p] = "giveUp"
    /\ WriteInterrupt(call[p].n)
    /\ Fail(p, "ctx")
    /\ Leave(p)
    /\ UNCHANGED <<convClosed, convDone, initDone, pending, reply, reading, shut,
                   abandoned, cliVars, emit, convClose>>

PromptOutlived(p) ==
    /\ ppc[p] = "wait"
    /\ convDone
    /\ pending' = 0
    /\ abandoned' = abandoned \cup {call[p].n}
    /\ Fail(p, "ErrSessionClosed")
    /\ Leave(p)
    /\ UNCHANGED <<convClosed, convDone, initDone, reply, reading, shut,
                   duplexVars, cliVars, emit, convClose>>

PromptSteps(p) ==
    \/ PromptRefused(p) \/ PromptBegins(p) \/ PromptWrites(p) \/ PromptWriteFails(p)
    \/ PromptAnswered(p) \/ PromptCancelled(p) \/ PromptGivesUp(p) \/ PromptOutlived(p)
-----------------------------------------------------------------------------
(* The read loop.  It handles one frame at a time: while it is inside Emit *)
(* or the host's approver, tool or hook, it reads nothing.                 *)
TakesDuringEmit(kinds) ==     \* broken: Emit runs on a goroutine of its own
    /\ reading.at = "next"
    /\ TakeFrame
    /\ Head(toHost).kind \in kinds

Takes(kinds) ==
    /\ reading.at = "next"
    /\ emit[Reader].st = "quiet"
    /\ TakeFrame
    /\ Head(toHost).kind \in kinds

(* onSystem, onAssistant, onUser, onStreamEvent, ...: the frame becomes an *)
(* event.                                                                  *)
ReadEvent ==
    /\ Takes({"text"})
    /\ AskEmit(Reader, Head(toHost))
    /\ UNCHANGED <<ownVars, cliVars, call, convClose>>

(* A frame that carries an error becomes an ErrorEvent. *)
ReadFailure ==
    /\ Takes({"error"})
    /\ AskEmit(Reader, [kind |-> "other", turn |-> 0])
    /\ UNCHANGED <<ownVars, cliVars, call, convClose>>

(* Broken: the done channel has no buffer, so that a result is dropped     *)
(* unless Prompt is in its select, and: onResult emits the TurnEvent.      *)
ReadResultUnbuffered ==
    /\ Takes({"result"})
    /\ pending' = 0
    /\ reply' = [n \in Prompts |->
                    IF n = pending /\ \E p \in Callers : ppc[p] = "wait" /\ call[p].n = n
                    THEN Head(toHost).turn ELSE reply[n]]
    /\ UNCHANGED <<convClosed, convDone, initDone, ppc, ctxDone, reading, shut,
                   abandoned, cliVars, portVars>>

ReadResultEmits ==
    /\ Takes({"result"})
    /\ pending' = 0
    /\ reply' = [n \in Prompts |-> IF n = pending THEN Head(toHost).turn ELSE reply[n]]
    /\ AskEmit(Reader, [kind |-> "turn", turn |-> Head(toHost).turn])
    /\ UNCHANGED <<convClosed, convDone, initDone, ppc, ctxDone, reading, shut,
                   abandoned, cliVars, call, convClose>>

(* onResult: the turn goes to the pending prompt, and to nobody when there *)
(* is none.  The send never blocks.                                        *)
ReadResult ==
    /\ Takes({"result"})
    /\ pending' = 0
    /\ reply' = IF pending # 0 /\ reply[pending] = 0
                THEN [reply EXCEPT ![pending] = Head(toHost).turn]
                ELSE reply
    /\ UNCHANGED <<convClosed, convDone, initDone, ppc, ctxDone, reading, shut,
                   abandoned, cliVars, portVars>>

(* onControlRequest: the host is asked on the read loop's goroutine, and   *)
(* only a permission can be denied, which is an event of its own before    *)
(* the reply.  A request that does not parse, or whose subtype is none of  *)
(* the four, gets no answer at all.                                        *)
ReadRequest ==
    /\ Takes(Request)
    /\ reading' = LET frame == Head(toHost) IN
                  CASE frame.kind = "permission" -> [at |-> "deciding", turn |-> frame.turn]
                    [] frame.kind = "service"    -> [at |-> "answering", turn |-> frame.turn]
                    [] frame.kind = "unknown"    -> Idle
    /\ UNCHANGED <<convClosed, convDone, initDone, pending, reply, ppc, ctxDone, shut,
                   abandoned, cliVars, portVars>>

Decide ==
    /\ reading.at = "deciding"
    /\ reading' = [reading EXCEPT !.at = "answering"]
    /\ \/ UNCHANGED emit
       \/ AskEmit(Reader, [kind |-> "other", turn |-> reading.turn])
    /\ UNCHANGED <<convClosed, convDone, initDone, pending, reply, ppc, ctxDone, shut,
                   abandoned, duplexVars, cliVars, call, convClose>>

(* respond or respondError: a write that fails is not noticed. *)
Respond ==
    /\ reading.at = "answering"
    /\ emit[Reader].st = "quiet"
    /\ WriteLine([kind |-> "answer", for |-> reading.turn]) \/ WriteClosed \/ WriteBroken
    /\ reading' = Idle
    /\ UNCHANGED <<convClosed, convDone, initDone, pending, reply, ppc, ctxDone, shut,
                   abandoned, cliVars, portVars>>

ReadEnds ==
    /\ reading.at = "next"
    /\ emit[Reader].st = "quiet"
    /\ FramesEnded
    /\ reading' = [reading EXCEPT !.at = "ended"]
    /\ UNCHANGED <<convClosed, convDone, initDone, pending, reply, ppc, ctxDone, shut,
                   abandoned, duplexVars, cliVars, portVars>>

ReaderSteps ==
    ReadEvent \/ ReadFailure \/ ReadResult \/ ReadRequest \/ Decide \/ Respond \/ ReadEnds
-----------------------------------------------------------------------------
(* Conversation.Close, one step per thing the others can see. *)
CloseMarks ==
    /\ convClose = "called" /\ shut = "open"
    /\ convClosed' = TRUE
    /\ shut' = "cancel"
    /\ UNCHANGED <<convDone, initDone, pending, reply, ppc, ctxDone, reading,
                   abandoned, duplexVars, cliVars, portVars>>

CloseCancels ==
    /\ shut = "cancel"
    /\ convDone' = TRUE
    /\ shut' = "pipe"
    /\ UNCHANGED <<convClosed, initDone, pending, reply, ppc, ctxDone, reading,
                   abandoned, duplexVars, cliVars, portVars>>

(* transport.Close: no more writes, then the process is killed. *)
CloseTransport ==
    /\ \/ shut = "pipe" /\ shut' = "kill" /\ ClosePipe
       \/ shut = "kill" /\ shut' = "wait" /\ Cut
    /\ UNCHANGED <<convClosed, convDone, initDone, pending, reply, ppc, ctxDone, reading,
                   abandoned, cliVars, portVars>>

(* transport.Wait: the transport's reader has stopped and the process is   *)
(* dead and reaped.                                                        *)
CloseReturns ==
    /\ shut = "wait"
    /\ ended
    /\ life = "dead"
    /\ shut' = "done"
    /\ convClose' = "done"
    /\ UNCHANGED <<convClosed, convDone, initDone, pending, reply, ppc, ctxDone, reading,
                   abandoned, duplexVars, cliVars, call, emit>>

CloseSteps == CloseMarks \/ CloseCancels \/ CloseTransport \/ CloseReturns
-----------------------------------------------------------------------------
(* What the host and the process may do at any time. *)
HostInterrupts ==
    /\ CanInterrupt
    /\ Len(toCli) < MaxLines
    /\ WriteInterrupt(0)
    /\ UNCHANGED <<ownVars, cliVars, portVars>>

CancelPrompt(p) ==
    /\ CanCancel
    /\ call[p].st = "running" /\ ~ctxDone[p]
    /\ ctxDone' = [ctxDone EXCEPT ![p] = TRUE]
    /\ UNCHANGED <<convClosed, convDone, initDone, pending, reply, ppc, reading, shut,
                   abandoned, duplexVars, cliVars, portVars>>

(* The context given to Open is the parent of c.ctx and of the process's.  *)
CancelOpen ==
    /\ CanCancel
    /\ ~convDone
    /\ convDone' = TRUE
    /\ Cut
    /\ UNCHANGED <<convClosed, initDone, pending, reply, ppc, ctxDone, reading, shut,
                   abandoned, cliVars, portVars>>

(* The process dies: killed, or on its own account. *)
ProcessDies ==
    /\ cut \/ CanExit
    /\ Die
    /\ UNCHANGED <<ownVars, cliVars, portVars>>

FramesEnd == StopReading /\ UNCHANGED <<ownVars, cliVars, portVars>>

ReaderBreaks ==
    /\ CanTooLong
    /\ ReadError(ErrFrame) \/ DropError(ErrFrame)
    /\ UNCHANGED <<ownVars, cliVars, portVars>>

Environment ==
    \/ HostInterrupts
    \/ \E p \in Callers : CancelPrompt(p)
    \/ CancelOpen
    \/ ProcessDies
    \/ FramesEnd \/ ReaderBreaks

ConvStep ==
    \/ \E p \in Callers : PromptSteps(p)
    \/ ReaderSteps
    \/ CloseSteps
    \/ Environment
    \/ CliStep /\ UNCHANGED <<ownVars, portVars>>
=============================================================================
