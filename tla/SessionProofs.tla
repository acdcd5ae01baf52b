---------------------------- MODULE SessionProofs ----------------------------
(***************************************************************************)
(* What a session guarantees with any backend of the port, any number of   *)
(* callers and listeners, and any bound on the prompts.                    *)
(***************************************************************************)
EXTENDS Session, TLAPS

svars == <<sessVars, portVars>>

(* A running call is only answered with a turn that had been asked for:    *)
(* what AnswersAreCaused rests on before the answer reaches the caller.    *)
CallsAreCaused == \A p \in Callers : call[p].turn <= prompts

(* The inductive invariant. *)
SessionInv ==
    /\ SessionTypeOK
    /\ OneInFlight
    /\ CallsAreCaused
    /\ AnswersAreCaused
-----------------------------------------------------------------------------
LEMMA InitType == SessionInit => SessionTypeOK
<1> SUFFICES ASSUME SessionInit PROVE SessionTypeOK
  OBVIOUS
<1> USE DEF SessionInit, PortInit
<1>1. 0 \in Turns
  BY PortAssumption DEF Turns
<1>2. call \in [Callers -> CallState]
  BY <1>1 DEF NoCall, CallState
<1>3. Quiet \in EmitState
  BY <1>1 DEF Quiet, EmitState, Event
<1>4. emit \in [Goroutines -> EmitState]
  BY <1>3
<1>5. answer \in [Prompts -> [turn : Turns, text : Seq(Turns)]]
  BY <1>1 DEF NoAnswer
<1>6. heard \in [Listeners -> [text : Turns, turn : Turns]]
  BY <1>1 DEF Silence
<1>7. PortTypeOK
  BY <1>2, <1>4 DEF PortTypeOK
<1>8. text \in Seq(Turns)
  BY <1>1
<1>9. pc \in [Callers -> {"idle", "inConv", "publish"}]
  OBVIOUS
<1>10. prompts \in Turns
  BY <1>1
<1>11. subs \subseteq Listeners
  OBVIOUS
<1> QED
  BY <1>5, <1>6, <1>7, <1>8, <1>9, <1>10, <1>11 DEF SessionTypeOK

(* What the steps write is of its type. *)
LEMMA AskEmitType ==
    ASSUME PortTypeOK, NEW g \in Goroutines, NEW ev \in Event, AskEmit(g, ev)
    PROVE  emit' \in [Goroutines -> EmitState]
<1>1. [st |-> "asked", ev |-> ev, todo |-> {}] \in EmitState
  BY DEF EmitState
<1> QED
  BY <1>1 DEF AskEmit, PortTypeOK

LEMMA AnswerType ==
    ASSUME PortTypeOK, NEW p \in Callers, NEW t \in Turns, Answer(p, t)
    PROVE  call' \in [Callers -> CallState]
  BY DEF Answer, PortTypeOK, CallState

LEMMA FailType ==
    ASSUME PortTypeOK, NEW p \in Callers, NEW err \in Failures, Fail(p, err)
    PROVE  call' \in [Callers -> CallState]
  BY DEF Fail, PortTypeOK, CallState

(* The type invariant, one step for every action. *)
LEMMA StepType ==
    ASSUME SessionTypeOK, SessionNext
    PROVE  SessionTypeOK'
<1> USE PortAssumption DEF SessionTypeOK, PortTypeOK, portVars, sessVars
<1>1. CASE \E p \in Callers : PromptEnter(p)
  <2> PICK p \in Callers : PromptEnter(p)
    BY <1>1
  <2>1. prompts + 1 \in Turns
    BY DEF PromptEnter, Accept, Turns
  <2>2. [st |-> "running", n |-> prompts + 1, turn |-> 0, err |-> "nil"] \in CallState
    BY <2>1 DEF CallState, Turns
  <2>4. call' \in [Callers -> CallState]
    BY <2>2 DEF PromptEnter, Accept
  <2> QED
    BY <2>1, <2>4 DEF PromptEnter, Accept
<1>2. CASE \E p \in Callers : PromptLeave(p)
  <2> PICK p \in Callers : PromptLeave(p)
    BY <1>2
  <2>1. NoCall \in CallState
    BY DEF NoCall, CallState, Turns
  <2>2. call' \in [Callers -> CallState]
    BY <2>1 DEF PromptLeave
  <2>3. /\ [kind |-> "turn", turn |-> call[p].n] \in Event
        /\ [turn |-> call[p].turn, text |-> text] \in [turn : Turns, text : Seq(Turns)]
    BY DEF CallState, Event
  <2>4. emit' \in [Goroutines -> EmitState]
    BY <2>3, AskEmitType DEF PromptLeave, Goroutines
  <2>5. answer' \in [Prompts -> [turn : Turns, text : Seq(Turns)]]
    BY <2>3 DEF PromptLeave
  <2> QED
    BY <2>2, <2>4, <2>5 DEF PromptLeave
<1>3. CASE Close
  BY <1>3 DEF Close
<1>4. CASE \E l \in Listeners : Subscribe(l) \/ Unsubscribe(l)
  BY <1>4 DEF Subscribe, Unsubscribe
<1>5. CASE \E g \in Goroutines : EmitLock(g)
  <2> PICK g \in Goroutines : EmitLock(g)
    BY <1>5
  <2>1. emit[g] \in EmitState /\ emit[g].ev.turn \in Turns
    BY DEF EmitState, Event
  <2>2. text' \in Seq(Turns)
    BY <2>1 DEF EmitLock
  <2>3. [emit[g] EXCEPT !.st = "telling", !.todo = subs] \in EmitState
    BY <2>1 DEF EmitState
  <2> QED
    BY <2>2, <2>3 DEF EmitLock
<1>6. CASE \E g \in Goroutines : EmitReturn(g)
  <2>1. Quiet \in EmitState
    BY DEF Quiet, EmitState, Event, Turns
  <2> QED
    BY <1>6, <2>1 DEF EmitReturn
<1>7. CASE \E g \in Goroutines, l \in Listeners : Tell(g, l)
  <2> PICK g \in Goroutines, l \in Listeners : Tell(g, l)
    BY <1>7
  <2>1. emit[g] \in EmitState /\ emit[g].ev.turn \in Turns
    BY DEF EmitState, Event
  <2>2. emit[g].todo \ {l} \in SUBSET Listeners
    BY <2>1 DEF EmitState
  <2>3. heard' \in [Listeners -> [text : Turns, turn : Turns]]
    BY <2>1 DEF Tell
  <2>4. emit' \in [Goroutines -> EmitState]
    BY <2>1, <2>2 DEF Tell, EmitState
  <2> QED
    BY <2>3, <2>4 DEF Tell
<1>8. CASE \E p \in Callers : BackendAnswers(p)
  <2> PICK p \in Callers, t \in 1..prompts : Answer(p, t) /\ UNCHANGED <<sessVars, emit, convClose>>
    BY <1>8 DEF BackendAnswers
  <2>1. t \in Turns
    BY DEF Turns
  <2> QED
    BY <2>1, AnswerType
<1>9. CASE \E p \in Callers : BackendFails(p)
  BY <1>9, FailType DEF BackendFails
<1>10. CASE \E g \in Goroutines : BackendEmits(g)
  BY <1>10, AskEmitType DEF BackendEmits
<1>11. CASE BackendCloses
  BY <1>11 DEF BackendCloses
<1> QED
  BY <1>1, <1>2, <1>3, <1>4, <1>5, <1>6, <1>7, <1>8, <1>9, <1>10, <1>11
     DEF SessionNext, SessionStep, BackendStep

(* SessionTypeOK: every variable of the session and of the port has its    *)
(* type, for any number of callers, listeners and prompts.                 *)
THEOREM SessionTypeCorrect == SessionSpec => []SessionTypeOK
<1>1. SessionTypeOK /\ [SessionNext]_svars => SessionTypeOK'
  BY StepType DEF SessionTypeOK, PortTypeOK, svars, sessVars, portVars
<1> QED
  BY InitType, <1>1, PTL DEF SessionSpec, svars
-----------------------------------------------------------------------------
LEMMA InitInv == SessionInit => SessionInv
<1> SUFFICES ASSUME SessionInit PROVE SessionInv
  OBVIOUS
<1>1. SessionTypeOK
  BY InitType
<1>2. \A p \in Callers : call[p] = NoCall /\ pc[p] = "idle"
  BY DEF SessionInit, PortInit
<1>3. OneInFlight
  BY <1>2 DEF OneInFlight, SessionInit, NoCall
<1>4. CallsAreCaused
  BY <1>2 DEF CallsAreCaused, SessionInit, NoCall
<1>5. AnswersAreCaused
  BY DEF AnswersAreCaused, SessionInit, NoAnswer
<1> QED
  BY <1>1, <1>3, <1>4, <1>5 DEF SessionInv

(* Whatever leaves the prompts, the calls and the answers alone, and       *)
(* nobody enters or leaves the backend's Prompt. *)
LEMMA QuietStep ==
    ASSUME SessionInv, SessionTypeOK',
           UNCHANGED <<inFlight, prompts, answer, call>>,
           \A p \in Callers : pc'[p] = "inConv" <=> pc[p] = "inConv"
    PROVE  SessionInv'
  BY DEF SessionInv, OneInFlight, CallsAreCaused, AnswersAreCaused

(* A prompt is accepted: the calls of all others are over. *)
LEMMA EnterInv ==
    ASSUME SessionInv, SessionTypeOK', NEW p \in Callers, PromptEnter(p)
    PROVE  SessionInv'
<1> USE DEF SessionInv
<1>1. prompts \in Nat /\ prompts' = prompts + 1
  BY PortAssumption DEF SessionTypeOK, Turns, PromptEnter, Accept
<1>2. \A q \in Callers : pc[q] # "inConv" /\ call[q].st = "none"
  BY DEF OneInFlight, PromptEnter
<1>3. /\ pc'[p] = "inConv"
      /\ \A q \in Callers \ {p} : pc'[q] = pc[q] /\ call'[q] = call[q]
      /\ call'[p] = [st |-> "running", n |-> prompts + 1, turn |-> 0, err |-> "nil"]
  BY DEF PromptEnter, Accept, SessionTypeOK, PortTypeOK
<1>4. OneInFlight'
  BY <1>1, <1>2, <1>3 DEF OneInFlight, PromptEnter, Accept
<1>5. CallsAreCaused'
  <2> SUFFICES ASSUME NEW q \in Callers PROVE call'[q].turn <= prompts'
    BY DEF CallsAreCaused
  <2>1. call[q].turn \in Nat /\ call[q].turn <= prompts
    BY DEF CallsAreCaused, SessionTypeOK, PortTypeOK, CallState, Turns
  <2> QED
    BY <1>1, <1>3, <2>1
<1>6. AnswersAreCaused'
  <2> SUFFICES ASSUME NEW n \in Prompts, answer[n].turn # 0
               PROVE  /\ n <= prompts' /\ answer[n].turn <= n
                      /\ \A q \in Callers : call'[q].st # "none" => call'[q].n # n
    BY DEF AnswersAreCaused, PromptEnter, Accept
  <2>1. n <= prompts /\ answer[n].turn <= n /\ n \in Nat
    BY DEF AnswersAreCaused, Prompts
  <2> QED
    BY <1>1, <1>2, <1>3, <2>1
<1> QED
  BY <1>4, <1>5, <1>6

(* The backend came back: the prompt that leaves is the last one accepted, *)
(* and only now does it have an answer.                                    *)
LEMMA LeaveInv ==
    ASSUME SessionInv, SessionTypeOK', NEW p \in Callers, PromptLeave(p)
    PROVE  SessionInv'
<1> USE DEF SessionInv
<1>1. /\ prompts \in Nat /\ prompts' = prompts
      /\ call[p].n = prompts /\ pc[p] = "inConv"
      /\ call[p].turn \in Nat /\ call[p].turn <= prompts
  BY PortAssumption DEF SessionTypeOK, PortTypeOK, CallState, Turns, PromptLeave, OneInFlight,
     CallsAreCaused
<1>2. \A q \in Callers \ {p} : pc[q] # "inConv" /\ call[q].st = "none"
  BY <1>1 DEF OneInFlight
<1>3. /\ pc'[p] # "inConv"
      /\ \A q \in Callers \ {p} : pc'[q] = pc[q] /\ call'[q] = call[q]
      /\ call'[p] = NoCall
      /\ ~inFlight'
  BY DEF PromptLeave, SessionTypeOK, PortTypeOK
<1>4. OneInFlight'
  BY <1>2, <1>3 DEF OneInFlight, NoCall
<1>5. CallsAreCaused'
  BY <1>1, <1>3 DEF CallsAreCaused, NoCall
<1>6. AnswersAreCaused'
  <2> SUFFICES ASSUME NEW n \in Prompts, answer'[n].turn # 0
               PROVE  n <= prompts /\ answer'[n].turn <= n
    BY <1>1, <1>2, <1>3 DEF AnswersAreCaused, NoCall
  <2>1. CASE answer'[n] = answer[n]
    BY <2>1 DEF AnswersAreCaused
  <2>2. CASE answer'[n] # answer[n]
    <3>1. n = call[p].n /\ answer'[n] = [turn |-> call[p].turn, text |-> text]
      BY <2>2 DEF PromptLeave, SessionTypeOK
    <3> QED
      BY <1>1, <3>1
  <2> QED
    BY <2>1, <2>2
<1> QED
  BY <1>4, <1>5, <1>6

(* The backend answers a running call, or fails it. *)
LEMMA OutcomeInv ==
    ASSUME SessionInv, SessionTypeOK', NEW p \in Callers, BackendAnswers(p) \/ BackendFails(p)
    PROVE  SessionInv'
<1> USE DEF SessionInv
<1>1. /\ UNCHANGED <<inFlight, prompts, answer, pc>>
      /\ \A q \in Callers \ {p} : call'[q] = call[q]
      /\ call[p].st = "running"
      /\ call'[p].st = "done" /\ call'[p].n = call[p].n
      /\ call'[p].turn \in {call[p].turn} \cup 1..prompts
  <2>1. call \in [Callers -> CallState] /\ call[p] \in CallState
    BY DEF SessionTypeOK, PortTypeOK
  <2>2. CASE BackendAnswers(p)
    <3> PICK t \in 1..prompts : Answer(p, t)
      BY <2>2 DEF BackendAnswers
    <3> QED
      BY <2>1, <2>2 DEF BackendAnswers, Answer, CallState, sessVars
  <2>3. CASE BackendFails(p)
    <3> PICK err \in Failures : Fail(p, err)
      BY <2>3 DEF BackendFails
    <3> QED
      BY <2>1, <2>3 DEF BackendFails, Fail, CallState, sessVars
  <2> QED
    BY <2>2, <2>3
<1>2. OneInFlight'
  BY <1>1 DEF OneInFlight
<1>3. CallsAreCaused'
  <2>1. prompts \in Nat /\ \A q \in Callers : call[q].turn <= prompts
    BY PortAssumption DEF CallsAreCaused, SessionTypeOK, Turns
  <2>2. call'[p].turn <= prompts
    BY <1>1, <2>1
  <2> QED
    BY <1>1, <2>1, <2>2 DEF CallsAreCaused
<1>4. AnswersAreCaused'
  BY <1>1 DEF AnswersAreCaused
<1> QED
  BY <1>2, <1>3, <1>4

LEMMA StepInv ==
    ASSUME SessionInv, SessionNext
    PROVE  SessionInv'
<1>1. SessionTypeOK'
  BY StepType DEF SessionInv
<1>2. CASE \E p \in Callers : PromptEnter(p) \/ PromptLeave(p)
  BY <1>1, <1>2, EnterInv, LeaveInv
<1>3. CASE \/ Close \/ BackendCloses
           \/ \E l \in Listeners : Subscribe(l) \/ Unsubscribe(l)
           \/ \E g \in Goroutines : EmitLock(g) \/ BackendEmits(g)
           \/ \E g \in Goroutines, l \in Listeners : Tell(g, l)
  <2>1. UNCHANGED <<inFlight, prompts, answer, call, pc>>
    BY <1>3 DEF Close, BackendCloses, Subscribe, Unsubscribe, EmitLock, BackendEmits, Tell,
       sessVars, portVars
  <2> QED
    BY <1>1, <2>1, QuietStep
<1>4. CASE \E g \in Goroutines : EmitReturn(g)
  <2>1. UNCHANGED <<inFlight, prompts, answer, call>>
    BY <1>4 DEF EmitReturn
  <2>2. \A p \in Callers : pc'[p] = "inConv" <=> pc[p] = "inConv"
    BY <1>4 DEF EmitReturn
  <2> QED
    BY <1>1, <2>1, <2>2, QuietStep
<1>5. CASE \E p \in Callers : BackendAnswers(p) \/ BackendFails(p)
  BY <1>1, <1>5, OutcomeInv
<1> QED
  BY <1>2, <1>3, <1>4, <1>5 DEF SessionNext, SessionStep, BackendStep

LEMMA SessionInvariant == SessionSpec => []SessionInv
<1>1. SessionInv /\ UNCHANGED svars => SessionInv'
  BY DEF SessionInv, SessionTypeOK, PortTypeOK, OneInFlight, CallsAreCaused, AnswersAreCaused,
     svars, sessVars, portVars
<1>2. SessionInv /\ [SessionNext]_svars => SessionInv'
  BY <1>1, StepInv
<1> QED
  BY InitInv, <1>2, PTL DEF SessionSpec, svars

(* OneInFlight: one prompt at a time, for any number of callers: what the  *)
(* backends rely on when they keep a single place for an answer.           *)
THEOREM OnePromptInFlight == SessionSpec => []OneInFlight
<1>1. SessionInv => OneInFlight
  BY DEF SessionInv
<1> QED
  BY SessionInvariant, <1>1, PTL

(* AnswersAreCaused: no prompt is answered before it is over, nor with a   *)
(* turn that comes after it, whatever the backend does.                    *)
THEOREM NoAnswerFromTheFuture == SessionSpec => []AnswersAreCaused
<1>1. SessionInv => AnswersAreCaused
  BY DEF SessionInv
<1> QED
  BY SessionInvariant, <1>1, PTL

(* NoneAfterClose: a session that was closed accepts no prompt, for good.  *)
THEOREM ClosedForGood == SessionSpec => NoneAfterClose
<1>1. SessionNext /\ closed => closed' /\ prompts' = prompts
  BY DEF SessionNext, SessionStep, BackendStep, PromptEnter, PromptLeave, Close, Subscribe,
     Unsubscribe, EmitLock, EmitReturn, Tell, BackendAnswers, BackendFails, BackendEmits,
     BackendCloses, sessVars, portVars
<1>2. [SessionNext]_svars => [closed => closed' /\ prompts' = prompts]_svars
  BY <1>1
<1> QED
  BY <1>2, PTL DEF SessionSpec, NoneAfterClose, svars
=============================================================================
