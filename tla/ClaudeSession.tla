---------------------------- MODULE ClaudeSession ----------------------------
(***************************************************************************)
(* A session opened on the Claude Code backend: core/session.go, the       *)
(* conversation of external/claudecode and the claude process, joined by   *)
(* the port and by the transport.  A step is a step of one of them.        *)
(***************************************************************************)
EXTENDS Session, Conversation

ASSUME SameTurns == LastTurn = MaxPrompts

vars == <<sessVars, portVars, convVars>>

Init == SessionInit /\ ConvInit

Next ==
    \/ SessionStep /\ UNCHANGED convVars
    \/ ConvStep /\ UNCHANGED sessVars

Spec == Init /\ [][Next]_vars

TypeOK == SessionTypeOK /\ ConvTypeOK
-----------------------------------------------------------------------------
(* The fairness of the host's code: the Go scheduler runs every goroutine  *)
(* that can run, so each caller inside Prompt, a running Emit of its own   *)
(* and a running Close go on, and the transport's reader stops.  Nobody    *)
(* has to call Prompt, Close, Interrupt or Subscribe.  The read loop calls *)
(* the host's approver, tools, hooks and listeners, and nothing says that  *)
(* they return: that it goes on is a hypothesis of its own.                *)
EmitGoesOn(g) ==
    WF_vars((EmitLock(g) \/ EmitReturn(g) \/ \E l \in Listeners : Tell(g, l))
            /\ UNCHANGED convVars)

HostFairness ==
    /\ \A p \in Callers :
          /\ WF_vars(PromptSteps(p) /\ UNCHANGED sessVars)
          /\ WF_vars(PromptLeave(p) /\ UNCHANGED convVars)
    /\ WF_vars(FramesEnd /\ UNCHANGED sessVars)
    /\ WF_vars(CloseSteps /\ UNCHANGED sessVars)
    /\ \A p \in Callers : EmitGoesOn(p)

HostReturns == WF_vars(ReaderSteps /\ UNCHANGED sessVars) /\ EmitGoesOn(Reader)

(* The process keeps reading what it is sent while it is up, ends a turn   *)
(* it was told to stop, and a kill kills it.                               *)
CliAttends ==
    /\ WF_vars(CliReads /\ UNCHANGED <<ownVars, portVars, sessVars>>)
    /\ WF_vars(stopping /\ CliFinishes /\ UNCHANGED <<ownVars, portVars, sessVars>>)
    /\ WF_vars(cut /\ ProcessDies /\ UNCHANGED sessVars)

(* ... and every turn in which it does not wait for an answer comes to an  *)
(* end.                                                                    *)
CliEnds == WF_vars(CliFinishes /\ UNCHANGED <<ownVars, portVars, sessVars>>)

AttentiveSpec == Spec /\ HostFairness /\ CliAttends
FairSpec == AttentiveSpec /\ HostReturns /\ CliEnds
-----------------------------------------------------------------------------
(* c.pending is a single slot that Prompt, the select's other cases and    *)
(* the read loop all overwrite.  It must never be lost under a Prompt that *)
(* waits: either the slot is its own or its answer is already there.       *)
WaiterNotForgotten ==
    \A p \in Callers :
        ppc[p] = "wait" => pending = call[p].n \/ reply[call[p].n] # 0

(* ... and it never outlives the Prompt it was set by, so no result is     *)
(* ever sent to a channel nobody reads.                                    *)
PendingHasWaiter ==
    pending # 0 =>
        /\ reply[pending] = 0
        /\ \E p \in Callers : ppc[p] \in {"init", "user", "wait"} /\ call[p].n = pending

(* A Turn is the outcome of its own prompt (event.go:155) unless some      *)
(* earlier prompt had been sent and then given up, and the turn it carries *)
(* instead is that prompt's or one that came after it.                     *)
MatchesUntilAbandoned ==
    \A n \in Prompts :
        answer[n].turn \notin {0, n} =>
            \E a \in abandoned : a < n /\ a <= answer[n].turn

(* Turn.Text is every assistant text block of the turn (event.go:157), no  *)
(* more and no less, for as long as no prompt has been given up.           *)
TextComplete ==
    abandoned = {} =>
        \A n \in Prompts :
            answer[n].turn # 0 =>
                /\ Len(answer[n].text) = said[n]
                /\ \A i \in DOMAIN answer[n].text : answer[n].text[i] = n

(* An interrupt written for a prompt that gave up stops the turn of that   *)
(* prompt or none: it can never stop the turn of a later prompt.           *)
NoFriendlyFire ==
    (toCli # <<>> /\ Head(toCli).kind = "interrupt" /\ Head(toCli).for # 0 /\ running # 0)
        => running = Head(toCli).for

(* Every Turn goes with one result: two prompts never get the same turn.   *)
ResultUsedOnce ==
    \A m, n \in Prompts : answer[m].turn # 0 /\ answer[m].turn = answer[n].turn => m = n

(* "TurnEvent closes a turn" (event.go:119): once a listener was told of   *)
(* the end of turn n it is told no more text of that turn or of an earlier *)
(* one, as long as no prompt was given up.  (It may have been told of the  *)
(* next turn before: Prompt resets inFlight before it emits.)              *)
NoTextAfterTurnEvent ==
    [][\A g \in Goroutines, l \in Listeners :
          Tell(g, l) /\ emit[g].ev.kind = "text" /\ abandoned = {}
              => emit[g].ev.turn > heard[l].turn]_vars

(* "Turn is the outcome of one Prompt" (event.go:155): of the prompt it is *)
(* returned to.                                                            *)
ResultMatches == \A n \in Prompts : answer[n].turn \in {0, n}
-----------------------------------------------------------------------------
(* Prompt "blocks until the turn completes" (session.go:59): it comes back *)
(* when its context is cancelled or the session closes, even while the     *)
(* read loop is stuck in the host's code.  Provided that the host's code   *)
(* returns and that the process ends every turn, it comes back in any case *)
(* but one: when the process waits for the answer to a request the         *)
(* conversation does not know, to which it never writes one.               *)
PromptReturns ==
    /\ \A p \in Callers :
          (pc[p] = "inConv" /\ (ctxDone[p] \/ closed)) ~> pc[p] # "inConv"
    /\ HostReturns /\ CliEnds =>
          \A p \in Callers : pc[p] = "inConv" ~> (pc[p] # "inConv" \/ asking = "unknown")

(* Cancelling a prompt's context stops its turn, so that it "stops costing *)
(* you money" (README.md:106-108), even if the turn would never end alone  *)
(* and the read loop is stuck in an approver or a tool of the host: the    *)
(* interrupt does not go by way of the read loop.                          *)
AbandonedTurnStops ==
    \A n \in Prompts :
        (n \in abandoned /\ running = n) ~> (running # n \/ life = "dead")

(* "ErrorEvent reports a protocol or transport failure" (event.go:122) and *)
(* a Prompt ends with its turn: when the process exits under a prompt, the *)
(* prompt ends.                                                            *)
ExitEndsPrompt ==
    \A p \in Callers : (life = "dead" /\ ~cut /\ pc[p] = "inConv") ~> pc[p] # "inConv"
=============================================================================
