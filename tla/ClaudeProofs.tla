---------------------------- MODULE ClaudeProofs ----------------------------
(***************************************************************************)
(* What a session on the Claude Code backend guarantees, for any number of *)
(* callers, listeners and prompts: it is a session with a backend of the   *)
(* port, and the one place in which the read loop finds the waiting Prompt *)
(* is never lost nor left behind.                                          *)
(***************************************************************************)
EXTENDS ClaudeSession, SessionProofs, SequenceTheorems, FiniteSetTheorems

(* What is in the pipes, in the process and in the read loop is about      *)
(* prompts that were accepted: nothing comes from the future.              *)
LineUpTo(n)  == [kind : {"initialize", "user", "interrupt", "answer"}, for : 0..n]
FrameUpTo(n) == [kind : {"text", "permission", "service", "unknown", "result"}, turn : 1..n]
                    \cup {ErrFrame}

OwnBounded ==
    /\ convClosed \in BOOLEAN /\ convDone \in BOOLEAN /\ initDone \in BOOLEAN
    /\ pending \in 0..prompts
    /\ reply \in [Prompts -> 0..prompts]
    /\ ppc \in [Callers -> {"out", "init", "user", "wait", "giveUp"}]
    /\ ctxDone \in [Callers -> BOOLEAN]
    /\ reading \in [at : {"next", "deciding", "answering", "ended"}, turn : 0..prompts]
    /\ shut \in {"open", "cancel", "pipe", "kill", "wait", "done"}
    /\ abandoned \subseteq Prompts

CliBounded ==
    /\ running \in 0..prompts
    /\ stopping \in BOOLEAN /\ (stopping => running # 0)
    /\ asking \in Request \cup {"nothing"} /\ greeted \in BOOLEAN
    /\ said \in [1..LastTurn -> 0..MaxSaid]
    /\ asks \in [1..LastTurn -> 0..MaxAsks]

Bounded ==
    /\ DuplexTypeOK(LineUpTo(prompts), FrameUpTo(prompts))
    /\ OwnBounded
    /\ CliBounded

(* A caller is inside Conversation.Prompt only while the session's call of *)
(* it runs, and that call has a number.                                    *)
InPrompt ==
    \A p \in Callers :
        /\ ppc[p] # "out" => call[p].st = "running"
        /\ call[p].st # "none" => call[p].n \in Prompts

(* The done channels: empty until the prompt is pending, and the prompt    *)
(* that looks at its channel is pending or has been answered.              *)
Expecting == {"init", "user", "wait"}

Channels ==
    /\ \A n \in Prompts : n > prompts => reply[n] = 0
    /\ \A p \in Callers :
          /\ call[p].st = "running" /\ ppc[p] = "out" => reply[call[p].n] = 0
          /\ ppc[p] \in Expecting => pending = call[p].n \/ reply[call[p].n] # 0

(* The session's call of Close lasts while the conversation's Close runs.  *)
Closing == shut \notin {"open", "done"} => convClose = "called"

(* The inductive invariant. *)
Inv ==
    /\ SessionInv
    /\ Bounded
    /\ InPrompt
    /\ Closing
    /\ Channels
    /\ PendingHasWaiter
-----------------------------------------------------------------------------
LEMMA InitConv == Init => Inv
<1> SUFFICES ASSUME Init PROVE Inv
  OBVIOUS
<1> USE PortAssumption, CliAssumption, SameTurns
<1> USE DEF Init, SessionInit, PortInit, ConvInit, DuplexInit, CliInit
<1>1. SessionInv
  BY InitInv
<1>2. DuplexTypeOK(LineUpTo(prompts), FrameUpTo(prompts))
  BY EmptySeq DEF DuplexTypeOK
<1>3. OwnBounded
  <2>1. Idle \in [at : {"next", "deciding", "answering", "ended"}, turn : 0..prompts]
    BY DEF Idle
  <2>2. reply \in [Prompts -> 0..prompts]
    OBVIOUS
  <2>3. /\ ppc \in [Callers -> {"out", "init", "user", "wait", "giveUp"}]
        /\ ctxDone \in [Callers -> BOOLEAN]
    OBVIOUS
  <2>4. pending \in 0..prompts /\ shut \in {"open", "cancel", "pipe", "kill", "wait", "done"}
    OBVIOUS
  <2> HIDE DEF ConvInit
  <2>5. convClosed = FALSE /\ convDone = FALSE /\ initDone = FALSE /\ abandoned = {} /\ reading = Idle
    BY DEF ConvInit
  <2> QED
    BY <2>1, <2>2, <2>3, <2>4, <2>5 DEF OwnBounded
<1>4. CliBounded
  <2>1. 0 \in 0..MaxSaid /\ 0 \in 0..MaxAsks
    OBVIOUS
  <2>2. said \in [1..LastTurn -> 0..MaxSaid] /\ asks \in [1..LastTurn -> 0..MaxAsks]
    BY <2>1
  <2>3. running \in 0..prompts /\ stopping = FALSE /\ asking = "nothing" /\ greeted = FALSE
    OBVIOUS
  <2> QED
    BY <2>2, <2>3 DEF CliBounded
<1>5. InPrompt /\ Closing /\ Channels /\ PendingHasWaiter
  BY DEF InPrompt, Closing, Channels, PendingHasWaiter, NoCall, Expecting
<1> QED
  BY <1>1, <1>2, <1>3, <1>4, <1>5 DEF Inv, Bounded

(* The types of what the invariant speaks of, for the proofs below. *)
LEMMA Types ==
    ASSUME Inv
    PROVE  /\ MaxPrompts \in Nat /\ prompts \in 0..MaxPrompts
           /\ call \in [Callers -> CallState]
           /\ \A p \in Callers : call[p].n \in Turns /\ call[p].turn \in Turns
           /\ emit \in [Goroutines -> EmitState]
           /\ pending \in 0..prompts
           /\ ppc \in [Callers -> {"out", "init", "user", "wait", "giveUp"}]
           /\ reply \in [Prompts -> 0..prompts]
  BY PortAssumption
     DEF Inv, SessionInv, SessionTypeOK, PortTypeOK, Bounded, OwnBounded, Turns, CallState

(* With one prompt in flight, a caller inside Conversation.Prompt is there *)
(* alone, and for the prompt accepted last. *)
LEMMA Alone ==
    ASSUME Inv, NEW p \in Callers, ppc[p] # "out" \/ call[p].st # "none"
    PROVE  /\ call[p].n = prompts /\ prompts \in Prompts
           /\ \A q \in Callers \ {p} : call[q].st = "none" /\ ppc[q] = "out"
<1>1. call[p].st # "none"
  BY DEF Inv, InPrompt
<1>2. pc[p] = "inConv"
  BY <1>1 DEF Inv, SessionInv, OneInFlight
<1>3. \A q \in Callers \ {p} : call[q].st = "none"
  BY <1>2 DEF Inv, SessionInv, OneInFlight
<1> QED
  BY <1>1, <1>3 DEF Inv, InPrompt, SessionInv, OneInFlight

(* What the next frame is. *)
LEMMA NextFrame ==
    ASSUME Inv, TakeFrame
    PROVE  /\ Head(toHost) \in FrameUpTo(prompts)
           /\ Head(toHost).turn \in 0..prompts
           /\ Head(toHost).kind # "error" => Head(toHost).turn \in 1..prompts
           /\ toHost' \in Seq(FrameUpTo(prompts))
<1>1. toHost \in Seq(FrameUpTo(prompts)) /\ toHost # <<>>
  BY DEF Inv, Bounded, TakeFrame, DuplexTypeOK
<1>2. Head(toHost) \in FrameUpTo(prompts) /\ Tail(toHost) \in Seq(FrameUpTo(prompts))
  BY <1>1, HeadTailProperties
<1>3. prompts \in Nat
  BY Types
<1>4. CASE Head(toHost) = ErrFrame
  BY <1>2, <1>3, <1>4 DEF ErrFrame, TakeFrame
<1>5. CASE Head(toHost) # ErrFrame
  BY <1>2, <1>3, <1>5 DEF FrameUpTo, TakeFrame
<1> QED
  BY <1>4, <1>5
-----------------------------------------------------------------------------
(* The backend is one of the port: a step of the conversation, of the      *)
(* process or of their environment is a step the port allows, or none the  *)
(* session can see.                                                        *)
LEMMA AllowedByPort ==
    ASSUME Inv, ConvStep, UNCHANGED sessVars
    PROVE  BackendStep \/ UNCHANGED svars
<1> USE DEF svars, portVars
<1>1. CASE \E p \in Callers : PromptRefused(p) \/ PromptWriteFails(p) \/ PromptGivesUp(p)
                               \/ PromptOutlived(p)
  <2> PICK p \in Callers : PromptRefused(p) \/ PromptWriteFails(p) \/ PromptGivesUp(p)
                            \/ PromptOutlived(p)
    BY <1>1
  <2>1. call[p].st = "running"
    BY DEF Inv, InPrompt, PromptRefused, PromptWriteFails, PromptGivesUp, PromptOutlived
  <2>2. /\ \E err \in Failures : Fail(p, err)
        /\ UNCHANGED <<emit, convClose>>
    BY DEF PromptRefused, PromptWriteFails, PromptGivesUp, PromptOutlived, Failures
  <2>3. BackendFails(p)
    BY <2>1, <2>2 DEF BackendFails
  <2> QED
    BY <2>3 DEF BackendStep
<1>2. CASE \E p \in Callers : PromptBegins(p) \/ PromptWrites(p) \/ PromptCancelled(p)
  BY <1>2 DEF PromptBegins, PromptWrites, PromptCancelled
<1>3. CASE \E p \in Callers : PromptAnswered(p)
  <2> PICK p \in Callers : PromptAnswered(p)
    BY <1>3
  <2>1. call[p].st = "running" /\ call[p].n \in Prompts
    BY DEF Inv, InPrompt, PromptAnswered
  <2>2. reply[call[p].n] \in 1..prompts
    BY <2>1, Types DEF PromptAnswered
  <2>3. BackendAnswers(p)
    BY <2>1, <2>2 DEF BackendAnswers, PromptAnswered
  <2> QED
    BY <2>3 DEF BackendStep
<1>4. CASE ReadEvent
  <2>1. Head(toHost).turn \in 1..prompts /\ Head(toHost) \in FrameUpTo(prompts)
        /\ Head(toHost).kind = "text"
    BY <1>4, NextFrame DEF ReadEvent, Takes
  <2>2. Head(toHost) \in Event /\ Head(toHost).kind # "turn" /\ Head(toHost).turn <= prompts
    BY <2>1, Types DEF Event, FrameUpTo, Turns, ErrFrame
  <2>3. BackendEmits(Reader)
    BY <1>4, <2>2 DEF ReadEvent, BackendEmits
  <2> QED
    BY <2>3 DEF BackendStep, Goroutines
<1>5. CASE Decide
  <2>1. reading.turn \in 0..prompts
    BY DEF Inv, Bounded, OwnBounded
  <2>2. [kind |-> "other", turn |-> reading.turn] \in Event
    BY <2>1, Types DEF Event, Turns
  <2>3. AskEmit(Reader, [kind |-> "other", turn |-> reading.turn]) => BackendEmits(Reader)
    BY <1>5, <2>1, <2>2 DEF Decide, BackendEmits
  <2> QED
    BY <1>5, <2>3 DEF Decide, BackendStep, Goroutines
<1>11. CASE ReadFailure
  <2>1. [kind |-> "other", turn |-> 0] \in Event /\ prompts \in Nat
    BY Types DEF Event, Turns
  <2>2. BackendEmits(Reader)
    BY <1>11, <2>1 DEF ReadFailure, BackendEmits
  <2> QED
    BY <2>2 DEF BackendStep, Goroutines
<1>6. CASE ReadResult \/ ReadRequest \/ Respond \/ ReadEnds
  BY <1>6 DEF ReadResult, ReadRequest, Respond, ReadEnds
<1>7. CASE CloseMarks \/ CloseCancels \/ CloseTransport
  BY <1>7 DEF CloseMarks, CloseCancels, CloseTransport
<1>8. CASE CloseReturns
  <2>1. convClose = "called"
    BY <1>8 DEF Inv, Closing, CloseReturns
  <2> QED
    BY <1>8, <2>1 DEF CloseReturns, BackendCloses, BackendStep
<1>9. CASE Environment
  BY <1>9 DEF Environment, HostInterrupts, CancelPrompt, CancelOpen, ProcessDies, FramesEnd,
     ReaderBreaks
<1>10. CASE CliStep /\ UNCHANGED <<ownVars, portVars>>
  BY <1>10
<1> QED
  BY <1>1, <1>2, <1>3, <1>4, <1>5, <1>6, <1>7, <1>8, <1>9, <1>10, <1>11
     DEF ConvStep, PromptSteps, ReaderSteps, CloseSteps
-----------------------------------------------------------------------------
(* The transport is used as it promises to be used: every step writes at   *)
(* most one line, of a prompt that was accepted, or takes one frame, or is *)
(* a step of the transport itself.                                         *)
LEMMA DuplexUse ==
    ASSUME Inv, ConvStep, UNCHANGED sessVars
    PROVE  DuplexNext(LineUpTo(prompts), FrameUpTo(prompts), ErrFrame) \/ UNCHANGED duplexVars
<1> DEFINE L == LineUpTo(prompts)
           F == FrameUpTo(prompts)
<1>1. \A kind \in {"initialize", "user", "interrupt", "answer"}, n \in 0..prompts :
          [kind |-> kind, for |-> n] \in L
  BY DEF LineUpTo
<1>2. \A line \in L : WriteLine(line) => DuplexNext(L, F, ErrFrame)
  BY DEF DuplexNext
<1>3. \A n \in 0..prompts : WriteInterrupt(n) => DuplexNext(L, F, ErrFrame) \/ UNCHANGED duplexVars
  BY <1>1, <1>2 DEF WriteInterrupt, WriteClosed, WriteBroken
<1>4. /\ \A p \in Callers : ppc[p] # "out" => call[p].n \in 0..prompts
      /\ 0 \in 0..prompts /\ reading.turn \in 0..prompts
  <2>1. prompts \in Nat
    BY Types
  <2> QED
    BY <2>1, Alone DEF Inv, Bounded, OwnBounded
<1>5. CASE \E p \in Callers : PromptSteps(p)
  <2> PICK p \in Callers : PromptSteps(p)
    BY <1>5
  <2>1. CASE PromptWrites(p)
    BY <2>1, <1>1, <1>2, <1>4 DEF PromptWrites
  <2>2. CASE PromptGivesUp(p)
    BY <2>2, <1>3, <1>4 DEF PromptGivesUp
  <2>3. CASE ~PromptWrites(p) /\ ~PromptGivesUp(p)
    BY <2>3 DEF PromptSteps, PromptRefused, PromptBegins, PromptWriteFails, PromptAnswered,
       PromptCancelled, PromptOutlived, WriteClosed, WriteBroken
  <2> QED
    BY <2>1, <2>2, <2>3
<1>6. CASE ReadEvent \/ ReadFailure \/ ReadResult \/ ReadRequest
  BY <1>6 DEF ReadEvent, ReadFailure, ReadResult, ReadRequest, Takes, DuplexNext
<1>7. CASE Decide \/ ReadEnds
  BY <1>7 DEF Decide, ReadEnds
<1>8. CASE Respond
  BY <1>8, <1>1, <1>2, <1>4 DEF Respond, WriteClosed, WriteBroken
<1>9. CASE CloseSteps
  BY <1>9 DEF CloseSteps, CloseMarks, CloseCancels, CloseTransport, CloseReturns, DuplexNext
<1>10. CASE Environment
  BY <1>10, <1>3, <1>4 DEF Environment, HostInterrupts, CancelPrompt, CancelOpen, ProcessDies,
     FramesEnd, ReaderBreaks, DuplexNext
<1>11. CASE CliReads
  BY <1>11 DEF CliReads, CliGreet, CliBegin, CliStop, CliHears, Reads, DuplexNext
<1>12. CASE CliSays \/ CliAsks \/ CliFinishes
  <2>1. running \in 1..prompts
    BY <1>12 DEF CliSays, CliAsks, Request, CliFinishes, Free, Inv, Bounded, CliBounded
  <2>2. \A kind \in {"text", "permission", "service", "unknown", "result"} :
            [kind |-> kind, turn |-> running] \in F
    BY <2>1 DEF FrameUpTo
  <2>3. \E frame \in F : SendFrame(frame) /\ UNCHANGED <<toCli, pipeClosed, cut, life, ended>>
    BY <1>12, <2>2 DEF CliSays, CliAsks, Request, CliFinishes
  <2> QED
    BY <2>3 DEF DuplexNext
<1> QED
  BY <1>5, <1>6, <1>7, <1>8, <1>9, <1>10, <1>11, <1>12 DEF ConvStep, ReaderSteps, CliStep

(* A duplex carries what was put into it. *)
LEMMA DuplexStep ==
    ASSUME NEW L, NEW F, ErrFrame \in F, DuplexTypeOK(L, F), DuplexNext(L, F, ErrFrame)
    PROVE  DuplexTypeOK(L, F)'
<1> USE DEF DuplexTypeOK
<1>1. CASE \E line \in L : WriteLine(line)
  BY <1>1 DEF WriteLine
<1>2. CASE TakeFrame
  BY <1>2, HeadTailProperties DEF TakeFrame
<1>3. CASE ClosePipe \/ Cut \/ Die
  BY <1>3 DEF ClosePipe, Cut, Die
<1>4. CASE StopReading
  <2>1. \A k \in 0..Len(toHost) : SubSeq(toHost, 1, k) \in Seq(F)
    BY ElementOfSeq, LenProperties, SubSeqProperties
  <2> QED
    BY <1>4, <2>1 DEF StopReading
<1>5. CASE ReadLine /\ UNCHANGED <<toHost, pipeClosed, cut, life, ended>>
  BY <1>5, HeadTailProperties DEF ReadLine
<1>6. CASE \E frame \in F : SendFrame(frame) /\ UNCHANGED <<toCli, pipeClosed, cut, life, ended>>
  BY <1>6 DEF SendFrame
<1>7. CASE ReadError(ErrFrame)
  <2>1. \A k \in 0..Len(toHost) : SubSeq(toHost, 1, k) \in Seq(F)
    BY ElementOfSeq, LenProperties, SubSeqProperties
  <2>2. \A k \in 0..Len(toHost) : Append(SubSeq(toHost, 1, k), ErrFrame) \in Seq(F)
    BY <2>1, AppendProperties
  <2> QED
    BY <1>7, <2>2 DEF ReadError
<1>8. CASE DropError(ErrFrame)
  <2>1. SubSeq(toHost, 1, Len(toHost) - 1) \in Seq(F)
    BY <1>8, ElementOfSeq, LenProperties, SubSeqProperties DEF DropError
  <2> QED
    BY <1>8, <2>1 DEF DropError
<1> QED
  BY <1>1, <1>2, <1>3, <1>4, <1>5, <1>6, <1>7, <1>8 DEF DuplexNext

(* More prompts allow more lines and frames. *)
LEMMA UpToGrows ==
    ASSUME NEW m \in Nat, NEW n \in Nat, m <= n,
           DuplexTypeOK(LineUpTo(m), FrameUpTo(m))
    PROVE  DuplexTypeOK(LineUpTo(n), FrameUpTo(n))
<1>1. LineUpTo(m) \subseteq LineUpTo(n) /\ FrameUpTo(m) \subseteq FrameUpTo(n)
  BY DEF LineUpTo, FrameUpTo
<1> QED
  BY <1>1, SeqMonotonic DEF DuplexTypeOK

LEMMA DuplexKept ==
    ASSUME Inv, ConvStep, UNCHANGED sessVars
    PROVE  DuplexTypeOK(LineUpTo(prompts), FrameUpTo(prompts))'
<1> PICK n : n = prompts
  OBVIOUS
<1>1. DuplexTypeOK(LineUpTo(n), FrameUpTo(n))
  BY DEF Inv, Bounded
<1>2. CASE DuplexNext(LineUpTo(n), FrameUpTo(n), ErrFrame)
  <2>1. DuplexTypeOK(LineUpTo(n), FrameUpTo(n))'
    BY <1>1, <1>2, DuplexStep, ErrFrame \in FrameUpTo(n) DEF FrameUpTo
  <2> QED
    BY <2>1 DEF sessVars, DuplexTypeOK, LineUpTo, FrameUpTo
<1>3. CASE UNCHANGED duplexVars
  BY <1>1, <1>3 DEF sessVars, duplexVars, DuplexTypeOK, LineUpTo, FrameUpTo
<1> QED
  BY <1>2, <1>3, DuplexUse

(* The session accepts one prompt more, or none. *)
LEMMA PromptsGrow ==
    ASSUME Inv, SessionStep
    PROVE  prompts' \in 0..MaxPrompts /\ prompts <= prompts'
<1>1. prompts \in 0..MaxPrompts /\ MaxPrompts \in Nat
  BY Types
<1>2. CASE \E p \in Callers : PromptEnter(p)
  BY <1>1, <1>2 DEF PromptEnter, Accept
<1>3. CASE ~ \E p \in Callers : PromptEnter(p)
  <2>1. prompts' = prompts
    BY <1>3 DEF SessionStep, PromptLeave, Close, Subscribe, Unsubscribe, EmitLock, Tell, EmitReturn
  <2> QED
    BY <1>1, <2>1
<1> QED
  BY <1>2, <1>3

(* Bounded: the session's steps. *)
LEMMA SessionKeepsBounded ==
    ASSUME Inv, SessionStep, UNCHANGED convVars
    PROVE  Bounded'
<1> USE DEF convVars, ownVars, duplexVars, cliVars
<1>1. prompts \in Nat /\ prompts' \in Nat /\ prompts <= prompts'
  BY Types, PromptsGrow
<1>2. DuplexTypeOK(LineUpTo(prompts'), FrameUpTo(prompts'))
  BY <1>1, UpToGrows DEF Inv, Bounded
<1>3. DuplexTypeOK(LineUpTo(prompts), FrameUpTo(prompts))'
  BY <1>2 DEF DuplexTypeOK, LineUpTo, FrameUpTo
<1>4. OwnBounded'
  BY <1>1 DEF Inv, Bounded, OwnBounded
<1>5. CliBounded'
  BY <1>1 DEF Inv, Bounded, CliBounded
<1> QED
  BY <1>3, <1>4, <1>5 DEF Bounded

(* ... those of the conversation ... *)
LEMMA ConvKeepsOwn ==
    ASSUME Inv, ConvStep, UNCHANGED sessVars
    PROVE  OwnBounded'
<1>1. OwnBounded /\ prompts' = prompts /\ prompts \in Nat
  BY Types DEF Inv, Bounded, sessVars
<1>2. \A p \in Callers : ppc[p] # "out" \/ call[p].st # "none" => call[p].n = prompts /\ prompts \in Prompts
  BY Alone
<1>3. CASE \E p \in Callers : PromptSteps(p)
  <2> PICK p \in Callers : PromptSteps(p)
    BY <1>3
  <2>1. CASE PromptBegins(p)
    BY <1>1, <1>2, <2>1 DEF OwnBounded, PromptBegins
  <2>2. CASE PromptCancelled(p) \/ PromptOutlived(p)
    <3>1. /\ pending' = 0 /\ abandoned' = abandoned \cup {prompts} /\ prompts \in Prompts
          /\ \/ ctxDone' = ctxDone
             \/ ctxDone' = [ctxDone EXCEPT ![p] = FALSE]
          /\ \/ ppc' = [ppc EXCEPT ![p] = "giveUp"]
             \/ ppc' = [ppc EXCEPT ![p] = "out"]
          /\ UNCHANGED <<convClosed, convDone, initDone, reply, reading, shut>>
      BY <1>2, <2>2 DEF PromptCancelled, PromptOutlived, Leave
    <3>2. ctxDone' \in [Callers -> BOOLEAN]
      <4>1. ctxDone \in [Callers -> BOOLEAN]
        BY <1>1 DEF OwnBounded
      <4> QED
        BY <3>1, <4>1, Zenon
    <3>4. abandoned' \subseteq Prompts
      BY <1>1, <3>1 DEF OwnBounded
    <3>5. pending' \in 0..prompts
      BY <1>1, <3>1
    <3>3. ppc' \in [Callers -> {"out", "init", "user", "wait", "giveUp"}]
      BY <1>1, <3>1 DEF OwnBounded
    <3> QED
      BY <1>1, <3>1, <3>2, <3>3, <3>4, <3>5 DEF OwnBounded
  <2>3. CASE PromptWrites(p)
    BY <1>1, <2>3 DEF OwnBounded, PromptWrites
  <2>4. CASE PromptRefused(p) \/ PromptWriteFails(p) \/ PromptAnswered(p) \/ PromptGivesUp(p)
    <3>1. /\ pending' \in {0, pending}
          /\ ctxDone' = [ctxDone EXCEPT ![p] = FALSE] /\ ppc' = [ppc EXCEPT ![p] = "out"]
          /\ UNCHANGED <<convClosed, convDone, initDone, reply, reading, shut, abandoned>>
      BY <2>4 DEF PromptRefused, PromptWriteFails, PromptAnswered, PromptGivesUp, Leave
    <3> QED
      BY <1>1, <3>1 DEF OwnBounded
  <2> QED
    BY <2>1, <2>2, <2>3, <2>4 DEF PromptSteps
<1>4. CASE ReaderSteps
  <2>1. TakeFrame => Head(toHost).turn \in 0..prompts
    BY NextFrame
  <2>2. CASE ReadResult
    <3>1. Head(toHost).turn \in 0..prompts
      BY <2>1, <2>2 DEF ReadResult, Takes
    <3> QED
      <4>1. reply' \in [Prompts -> 0..prompts]
        BY <1>1, <2>2, <3>1 DEF OwnBounded, ReadResult
      <4>2. pending' = 0
            /\ UNCHANGED <<convClosed, convDone, initDone, ppc, ctxDone, reading, shut, abandoned>>
        BY <2>2 DEF ReadResult
      <4> QED
        BY <1>1, <4>1, <4>2 DEF OwnBounded
  <2>3. CASE ReadRequest
    <3>1. Head(toHost).turn \in 0..prompts
      BY <2>1, <2>3 DEF ReadRequest, Request, Takes
    <3> QED
      BY <1>1, <2>3, <3>1 DEF OwnBounded, ReadRequest, Idle, Request, Takes
  <2>4. CASE ReadEvent \/ ReadFailure \/ Decide \/ Respond \/ ReadEnds
    BY <1>1, <2>4 DEF OwnBounded, ReadEvent, ReadFailure, Decide, Respond, ReadEnds, ownVars, Idle
  <2> QED
    BY <1>4, <2>2, <2>3, <2>4 DEF ReaderSteps
<1>5. CASE CloseSteps
  BY <1>1, <1>5 DEF OwnBounded, CloseSteps, CloseMarks, CloseCancels, CloseTransport, CloseReturns
<1>6. CASE Environment \/ (CliStep /\ UNCHANGED <<ownVars, portVars>>)
  BY <1>1, <1>6 DEF OwnBounded, Environment, HostInterrupts, CancelPrompt, CancelOpen, ProcessDies,
     FramesEnd, ReaderBreaks, ownVars
<1> QED
  BY <1>3, <1>4, <1>5, <1>6 DEF ConvStep

(* ... and those of the process. *)
LEMMA ConvKeepsCli ==
    ASSUME Inv, ConvStep, UNCHANGED sessVars
    PROVE  CliBounded'
<1>1. /\ CliBounded /\ prompts' = prompts /\ prompts \in 0..MaxPrompts /\ MaxPrompts \in Nat
      /\ LastTurn = MaxPrompts /\ MaxSaid \in Nat /\ MaxAsks \in Nat
  BY Types, SameTurns, CliAssumption DEF Inv, Bounded, sessVars
<1>2. CASE CliReads
  <2>1. toCli # <<>> => Head(toCli).for \in 0..prompts
    <3>1. toCli \in Seq(LineUpTo(prompts))
      BY DEF Inv, Bounded, DuplexTypeOK
    <3>2. toCli # <<>> => Head(toCli) \in LineUpTo(prompts)
      BY <3>1, HeadTailProperties
    <3> QED
      BY <3>2 DEF LineUpTo
  <2>2. toCli # <<>> /\ UNCHANGED <<said, asks>>
    BY <1>2 DEF CliReads, CliGreet, CliBegin, CliStop, CliHears, Reads, ReadLine
  <2>3. running' \in 0..prompts
    BY <1>1, <1>2, <2>1, <2>2 DEF CliBounded, CliReads, CliGreet, CliBegin, CliStop, CliHears
  <2>4. stopping' \in BOOLEAN /\ asking' \in Request \cup {"nothing"} /\ greeted' \in BOOLEAN
    BY <1>1, <1>2 DEF CliBounded, CliReads, CliGreet, CliBegin, CliStop, CliHears
  <2>5. stopping' => running' # 0
    <3>1. CliBegin => stopping = FALSE
      BY <1>1, Zenon DEF CliBounded, CliBegin
    <3> QED
      BY <1>1, <1>2, <3>1 DEF CliBounded, CliReads, CliGreet, CliBegin, CliStop, CliHears
  <2> QED
    BY <1>1, <2>2, <2>3, <2>4, <2>5 DEF CliBounded
<1>3. CASE CliSays \/ CliAsks
  <2>1. running \in 1..LastTurn
    BY <1>1, <1>3 DEF CliSays, CliAsks, Free, CliBounded
  <2>2. /\ CliSays => said[running] + 1 \in 0..MaxSaid
        /\ CliAsks => asks[running] + 1 \in 0..MaxAsks
    BY <1>1, <2>1 DEF CliSays, CliAsks, CliBounded
  <2>3. /\ CliSays => said' \in [1..LastTurn -> 0..MaxSaid] /\ asks' = asks
        /\ CliAsks => asks' \in [1..LastTurn -> 0..MaxAsks] /\ said' = said
    BY <1>1, <2>1, <2>2 DEF CliSays, CliAsks, CliBounded
  <2> QED
    <3>1. UNCHANGED <<running, stopping, greeted>> /\ asking' \in Request \cup {asking}
      BY <1>3 DEF CliSays, CliAsks, Request
    <3> QED
      BY <1>1, <1>3, <2>3, <3>1 DEF CliBounded
<1>5. CASE CliFinishes
  <2>1. running' = 0 /\ stopping' = FALSE /\ UNCHANGED <<asking, said, asks, greeted>>
    BY <1>5 DEF CliFinishes
  <2>2. running' \in 0..prompts'
    BY <1>1, <2>1
  <2> QED
    BY <1>1, <2>1, <2>2, Zenon DEF CliBounded
<1>4. CASE ~CliStep
  <2>1. UNCHANGED cliVars
    BY <1>4 DEF ConvStep, PromptSteps, PromptRefused, PromptBegins, PromptWrites, PromptWriteFails,
       PromptAnswered, PromptCancelled, PromptGivesUp, PromptOutlived, ReaderSteps, ReadEvent,
       ReadFailure, ReadResult, ReadRequest, Decide, Respond, ReadEnds, CloseSteps, CloseMarks, CloseCancels,
       CloseTransport, CloseReturns, Environment, HostInterrupts, CancelPrompt, CancelOpen,
       ProcessDies, FramesEnd, ReaderBreaks
  <2> QED
    BY <1>1, <2>1 DEF CliBounded, cliVars
<1> QED
  BY <1>2, <1>3, <1>4, <1>5 DEF CliStep
-----------------------------------------------------------------------------
(* The channel of the prompt in flight: no step of the session loses it... *)
LEMMA SessionKeepsChannels ==
    ASSUME Inv, SessionStep, UNCHANGED convVars
    PROVE  InPrompt' /\ Channels' /\ PendingHasWaiter'
<1>1. prompts \in Nat /\ call \in [Callers -> CallState] /\ MaxPrompts \in Nat
  BY Types
<1>2. UNCHANGED <<ppc, pending, reply>>
  BY DEF convVars, ownVars
<1>3. CASE \E p \in Callers : PromptEnter(p)
  <2> PICK p \in Callers : PromptEnter(p)
    BY <1>3
  <2>1. \A q \in Callers : call[q].st = "none" /\ ppc[q] = "out"
    BY DEF PromptEnter, Inv, InPrompt, SessionInv, OneInFlight
  <2>2. pending = 0
    BY <2>1 DEF Inv, PendingHasWaiter
  <2>3. /\ prompts' = prompts + 1 /\ prompts + 1 \in Prompts
        /\ call'[p].st = "running" /\ call'[p].n = prompts + 1
        /\ \A q \in Callers \ {p} : call'[q] = call[q]
    BY <1>1 DEF PromptEnter, Accept, Prompts
  <2>4. InPrompt'
    BY <1>2, <2>1, <2>3 DEF InPrompt
  <2>5. reply[prompts + 1] = 0 /\ \A n \in Prompts : n > prompts + 1 => reply[n] = 0
    BY <1>1, <2>3 DEF Inv, Channels, Prompts
  <2>6. Channels'
    BY <1>2, <2>1, <2>3, <2>5 DEF Channels, Expecting
  <2> QED
    BY <1>2, <2>2, <2>4, <2>6 DEF PendingHasWaiter
<1>4. CASE \E p \in Callers : PromptLeave(p)
  <2> PICK p \in Callers : PromptLeave(p)
    BY <1>4
  <2>1. call[p].st = "done"
    BY DEF PromptLeave
  <2>2. \A q \in Callers : ppc[q] = "out"
    BY <2>1, Alone DEF Inv, InPrompt
  <2>3. pending = 0
    BY <2>2 DEF Inv, PendingHasWaiter
  <2>4. /\ prompts' = prompts /\ call'[p] = NoCall
        /\ \A q \in Callers \ {p} : call'[q] = call[q]
    BY <1>1 DEF PromptLeave
  <2> QED
    BY <1>2, <2>2, <2>3, <2>4 DEF Inv, InPrompt, Channels, PendingHasWaiter, Expecting, NoCall
<1>5. CASE ~ \E p \in Callers : PromptEnter(p) \/ PromptLeave(p)
  <2>1. UNCHANGED <<call, prompts>>
    BY <1>5 DEF SessionStep, Close, Subscribe, Unsubscribe, EmitLock, EmitReturn, Tell, portVars
  <2> QED
    BY <1>2, <2>1 DEF Inv, InPrompt, Channels, PendingHasWaiter, Expecting
<1> QED
  BY <1>3, <1>4, <1>5

(* ... and none of a Prompt that goes on or leaves ... *)
LEMMA PromptKeepsChannels ==
    ASSUME Inv, NEW p \in Callers, PromptSteps(p), UNCHANGED sessVars
    PROVE  InPrompt' /\ Channels' /\ PendingHasWaiter'
<1>1. /\ prompts \in Nat /\ call \in [Callers -> CallState] /\ prompts' = prompts
      /\ ppc \in [Callers -> {"out", "init", "user", "wait", "giveUp"}]
  BY Types DEF sessVars
<1>2. call[p].st = "running"
  BY DEF Inv, InPrompt, PromptSteps, PromptRefused, PromptBegins, PromptWrites, PromptWriteFails,
     PromptAnswered, PromptCancelled, PromptGivesUp, PromptOutlived
<1>3. /\ call[p].n = prompts /\ prompts \in Prompts
      /\ \A q \in Callers \ {p} : call[q].st = "none" /\ ppc[q] = "out"
  BY <1>2, Alone
<1>4. reply' = reply
  BY DEF PromptSteps, PromptRefused, PromptBegins, PromptWrites, PromptWriteFails,
     PromptAnswered, PromptCancelled, PromptGivesUp, PromptOutlived
<1>5. ppc[p] \notin Expecting => pending = 0
  BY <1>3 DEF Inv, PendingHasWaiter, Expecting
<1>6. CASE PromptBegins(p)
  <2>1. /\ ppc'[p] \in Expecting /\ pending' = prompts /\ call' = call /\ ppc[p] = "out"
        /\ \A q \in Callers \ {p} : ppc'[q] = ppc[q]
    BY <1>1, <1>3, <1>6 DEF PromptBegins, Expecting, portVars
  <2>2. reply[prompts] = 0
    BY <1>2, <1>3, <2>1 DEF Inv, Channels
  <2> QED
    BY <1>1, <1>2, <1>3, <1>4, <2>1, <2>2 DEF Inv, InPrompt, Channels, PendingHasWaiter, Expecting
<1>7. CASE PromptWrites(p)
  <2>1. /\ ppc[p] \in Expecting /\ ppc'[p] \in Expecting /\ pending' = pending /\ call' = call
        /\ \A q \in Callers \ {p} : ppc'[q] = ppc[q]
    BY <1>1, <1>7 DEF PromptWrites, Expecting, portVars
  <2> QED
    BY <1>1, <1>2, <1>3, <1>4, <2>1 DEF Inv, InPrompt, Channels, PendingHasWaiter, Expecting
<1>8. CASE PromptCancelled(p)
  <2>1. /\ ppc'[p] = "giveUp" /\ pending' = 0 /\ call' = call
        /\ \A q \in Callers \ {p} : ppc'[q] = ppc[q]
    BY <1>1, <1>8 DEF PromptCancelled, portVars
  <2> QED
    BY <1>1, <1>2, <1>3, <1>4, <2>1 DEF Inv, InPrompt, Channels, PendingHasWaiter, Expecting
<1>9. CASE \/ PromptRefused(p) \/ PromptWriteFails(p) \/ PromptAnswered(p)
           \/ PromptGivesUp(p) \/ PromptOutlived(p)
  <2>1. /\ ppc'[p] = "out"
        /\ \A q \in Callers \ {p} : ppc'[q] = ppc[q]
    BY <1>1, <1>9 DEF PromptRefused, PromptWriteFails, PromptAnswered, PromptGivesUp,
       PromptOutlived, Leave
  <2>2. /\ call'[p].st = "done" /\ call'[p].n = call[p].n
        /\ \A q \in Callers \ {p} : call'[q] = call[q]
    <3>1. (\E t : Answer(p, t)) \/ (\E err : Fail(p, err))
      BY <1>9 DEF PromptRefused, PromptWriteFails, PromptAnswered, PromptGivesUp, PromptOutlived
    <3>2. call[p] \in CallState /\ call \in [Callers -> CallState]
      BY <1>1
    <3>3. CASE \E t : Answer(p, t)
      BY <3>2, <3>3 DEF Answer, CallState
    <3>4. CASE \E err : Fail(p, err)
      BY <3>2, <3>4 DEF Fail, CallState
    <3> QED
      BY <3>1, <3>3, <3>4
  <2>3. pending' = 0
    <3>1. CASE PromptAnswered(p)
      <4>1. reply[call[p].n] # 0 /\ pending' = pending
        BY <3>1 DEF PromptAnswered
      <4>2. pending # 0 => reply[pending] = 0 /\ call[p].n = pending
        BY <1>3 DEF Inv, PendingHasWaiter
      <4> QED
        BY <4>1, <4>2
    <3>2. CASE PromptRefused(p) \/ PromptGivesUp(p)
      BY <1>5, <3>2 DEF PromptRefused, PromptGivesUp, Expecting
    <3> QED
      BY <1>9, <3>1, <3>2 DEF PromptWriteFails, PromptOutlived
  <2> QED
    BY <1>1, <1>2, <1>3, <1>4, <2>1, <2>2, <2>3
       DEF Inv, InPrompt, Channels, PendingHasWaiter, Expecting
<1> QED
  BY <1>6, <1>7, <1>8, <1>9 DEF PromptSteps

(* ... and of the read loop and the rest. *)
LEMMA ConvKeepsChannels ==
    ASSUME Inv, ConvStep, UNCHANGED sessVars
    PROVE  InPrompt' /\ Channels' /\ PendingHasWaiter'
<1>1. CASE \E p \in Callers : PromptSteps(p)
  BY <1>1, PromptKeepsChannels
<1>2. CASE ReadResult
  <2>1. Head(toHost).turn # 0
    BY <1>2, NextFrame DEF ReadResult, Takes
  <2>2. /\ pending' = 0 /\ UNCHANGED <<call, ppc, prompts>>
        /\ \A n \in Prompts : reply'[n] = IF n = pending /\ reply[n] = 0 THEN Head(toHost).turn
                                          ELSE reply[n]
    BY <1>2, Types DEF ReadResult, portVars, sessVars, Prompts
  <2>3. pending # 0 =>
            /\ reply[pending] = 0 /\ pending <= prompts
            /\ \A p \in Callers : ppc[p] = "out" => call[p].n # pending \/ call[p].st = "none"
    <3> SUFFICES ASSUME pending # 0
                 PROVE  /\ reply[pending] = 0 /\ pending <= prompts
                        /\ \A p \in Callers : ppc[p] = "out" =>
                              call[p].n # pending \/ call[p].st = "none"
      OBVIOUS
    <3>1. reply[pending] = 0 /\ pending \in 0..prompts
      BY Types DEF Inv, PendingHasWaiter
    <3>2. PICK q \in Callers : ppc[q] \in {"init", "user", "wait"}
      BY DEF Inv, PendingHasWaiter
    <3>3. \A p \in Callers \ {q} : call[p].st = "none"
      BY <3>2, Alone
    <3> QED
      BY <3>1, <3>2, <3>3, Types
  <2>4. \A p \in Callers : call[p].st # "none" \/ ppc[p] # "out" => call[p].n \in Prompts
    BY Alone
  <2>5. \A n \in Prompts : n # 0
    BY DEF Prompts
  <2>6. InPrompt' /\ PendingHasWaiter'
    BY <2>2 DEF Inv, InPrompt, PendingHasWaiter
  <2>7. \A n \in Prompts : n > prompts => reply'[n] = 0
    BY <2>2, <2>3, <2>5, Types DEF Inv, Channels, Prompts
  <2>8. \A p \in Callers : call[p].st = "running" /\ ppc[p] = "out" => reply'[call[p].n] = 0
    BY <2>2, <2>3, <2>4, <2>5 DEF Inv, Channels
  <2>9. \A p \in Callers : ppc[p] \in Expecting => reply'[call[p].n] # 0
    BY <2>1, <2>2, <2>3, <2>4, <2>5 DEF Inv, Channels, Expecting
  <2> QED
    BY <2>2, <2>6, <2>7, <2>8, <2>9 DEF Channels
<1>3. CASE ~ReadResult /\ ~ \E p \in Callers : PromptSteps(p)
  <2>1. UNCHANGED <<ppc, pending, reply, call, prompts>>
    BY <1>3 DEF ConvStep, ReaderSteps, ReadEvent, ReadFailure, ReadRequest, Decide, Respond, ReadEnds, CloseSteps,
       CloseMarks, CloseCancels, CloseTransport, CloseReturns, Environment, HostInterrupts,
       CancelPrompt, CancelOpen, ProcessDies, FramesEnd, ReaderBreaks, ownVars, portVars, sessVars
  <2> QED
    BY <2>1 DEF Inv, InPrompt, Channels, PendingHasWaiter, Expecting
<1> QED
  BY <1>1, <1>2, <1>3

(* Close goes on until it has returned. *)
LEMMA KeepsClosing ==
    ASSUME Inv, Next
    PROVE  Closing'
<1>1. CASE SessionStep /\ UNCHANGED convVars
  BY <1>1 DEF Inv, Closing, SessionStep, PromptEnter, Accept, PromptLeave, Close, Subscribe,
     Unsubscribe, EmitLock, EmitReturn, Tell, portVars, convVars, ownVars
<1>2. CASE CloseSteps
  BY <1>2 DEF Inv, Closing, CloseSteps, CloseMarks, CloseCancels, CloseTransport, CloseReturns,
     portVars
<1>3. CASE ConvStep /\ ~CloseSteps
  <2>1. UNCHANGED <<shut, convClose>>
    BY <1>3 DEF ConvStep, PromptSteps, PromptRefused, PromptBegins, PromptWrites, PromptWriteFails,
       PromptAnswered, PromptCancelled, PromptGivesUp, PromptOutlived, ReaderSteps, ReadEvent,
       ReadFailure, ReadResult, ReadRequest, Decide, Respond, ReadEnds, Environment, HostInterrupts,
       CancelPrompt, CancelOpen, ProcessDies, FramesEnd, ReaderBreaks, ownVars, portVars
  <2> QED
    BY <2>1 DEF Inv, Closing
<1> QED
  BY <1>1, <1>2, <1>3 DEF Next
-----------------------------------------------------------------------------
LEMMA ClaudeStep ==
    ASSUME Inv, [Next]_vars
    PROVE  Inv'
<1>1. CASE SessionStep /\ UNCHANGED convVars
  <2>1. SessionNext
    BY <1>1 DEF SessionNext
  <2>2. SessionInv'
    BY <2>1, StepInv DEF Inv
  <2> QED
    <3>1. Bounded'
      BY <1>1, SessionKeepsBounded
    <3>2. InPrompt' /\ Channels' /\ PendingHasWaiter'
      BY <1>1, SessionKeepsChannels
    <3>3. Next
      BY <1>1 DEF Next
    <3>4. Closing'
      BY <3>3, KeepsClosing
    <3> QED
      BY <2>2, <3>1, <3>2, <3>4 DEF Inv
<1>2. CASE ConvStep /\ UNCHANGED sessVars
  <2>1. SessionInv'
    <3>1. CASE BackendStep
      BY <3>1, StepInv DEF Inv, SessionNext
    <3>2. CASE UNCHANGED svars
      BY <3>2 DEF Inv, SessionInv, SessionTypeOK, PortTypeOK, OneInFlight, CallsAreCaused,
         AnswersAreCaused, svars, sessVars, portVars
    <3> QED
      BY <1>2, <3>1, <3>2, AllowedByPort
  <2>2. Bounded'
    BY <1>2, DuplexKept, ConvKeepsOwn, ConvKeepsCli DEF Bounded
  <2>3. InPrompt' /\ Channels' /\ PendingHasWaiter'
    BY <1>2, ConvKeepsChannels
  <2>4. Next
    BY <1>2 DEF Next
  <2>5. Closing'
    BY <2>4, KeepsClosing
  <2> QED
    BY <2>1, <2>2, <2>3, <2>5 DEF Inv
<1>3. CASE UNCHANGED vars
  <2>1. UNCHANGED <<sessVars, portVars, convVars>>
    BY <1>3 DEF vars
  <2>2. SessionInv'
    BY <2>1 DEF Inv, SessionInv, SessionTypeOK, PortTypeOK, OneInFlight, CallsAreCaused,
       AnswersAreCaused, sessVars, portVars
  <2>3. Bounded'
    BY <2>1 DEF Inv, Bounded, OwnBounded, CliBounded, DuplexTypeOK, LineUpTo, FrameUpTo, convVars,
       ownVars, duplexVars, cliVars, sessVars
  <2> QED
    BY <2>1, <2>2, <2>3 DEF Inv, InPrompt, Closing, Channels, PendingHasWaiter, Expecting,
       convVars, ownVars, sessVars, portVars
<1> QED
  BY <1>1, <1>2, <1>3 DEF Next

LEMMA ClaudeInvariant == Spec => []Inv
  BY InitConv, ClaudeStep, PTL DEF Spec

(* TypeOK: every variable of the session, the conversation, the transport  *)
(* and the process has its type. *)
THEOREM ClaudeTypeCorrect == Spec => []TypeOK
<1>1. Inv => TypeOK
  <2> SUFFICES ASSUME Inv PROVE TypeOK
    OBVIOUS
  <2>1. prompts \in 0..LastTurn /\ LastTurn = MaxPrompts /\ LastTurn \in Nat
    BY Types, SameTurns
  <2>2. LineUpTo(prompts) \subseteq Line /\ FrameUpTo(prompts) \subseteq Frame
    BY <2>1 DEF LineUpTo, FrameUpTo, Line, Frame, Request, TurnNo
  <2>3. DuplexTypeOK(Line, Frame)
    BY <2>2, SeqMonotonic DEF Inv, Bounded, DuplexTypeOK
  <2>4. 0..prompts \subseteq Turns /\ 0..prompts \subseteq TurnNo
    BY <2>1 DEF Turns, TurnNo
  <2>5. CliTypeOK
    BY <2>3, <2>4 DEF Inv, Bounded, CliBounded, CliTypeOK
  <2>6. ConvTypeOK
    BY <2>4, <2>5 DEF Inv, Bounded, OwnBounded, ConvTypeOK
  <2> QED
    BY <2>6 DEF Inv, SessionInv, TypeOK
<1> QED
  BY <1>1, ClaudeInvariant, PTL

(* PendingHasWaiter: the slot in which the read loop finds the waiting     *)
(* Prompt is empty unless that Prompt is there to take what is put in it.  *)
THEOREM SlotIsNeverStale == Spec => []PendingHasWaiter
<1>1. Inv => PendingHasWaiter
  BY DEF Inv
<1> QED
  BY <1>1, ClaudeInvariant, PTL

(* WaiterNotForgotten: a Prompt that waits is in that slot, or has been    *)
(* answered: no other Prompt, and no other case of its select, takes it    *)
(* out.                                                                    *)
THEOREM SlotIsNeverLost == Spec => []WaiterNotForgotten
<1>1. Inv => WaiterNotForgotten
  BY DEF Inv, Channels, WaiterNotForgotten, Expecting
<1> QED
  BY <1>1, ClaudeInvariant, PTL

(* SessionSpec: the composition is a session with a backend of the port,   *)
(* so that what is proved of every such session is true of it.             *)
THEOREM ClaudeIsASession == Spec => SessionSpec
<1>1. Init => SessionInit
  BY DEF Init
<1>2. Inv /\ [Next]_vars => [SessionNext]_svars
  <2> SUFFICES ASSUME Inv, [Next]_vars PROVE [SessionNext]_svars
    OBVIOUS
  <2>1. CASE SessionStep /\ UNCHANGED convVars
    BY <2>1 DEF SessionNext
  <2>2. CASE ConvStep /\ UNCHANGED sessVars
    BY <2>2, AllowedByPort DEF SessionNext
  <2>3. CASE UNCHANGED vars
    BY <2>3 DEF vars, svars
  <2> QED
    BY <2>1, <2>2, <2>3 DEF Next
<1> QED
  BY <1>1, <1>2, ClaudeInvariant, PTL DEF Spec, SessionSpec, svars

(* ... such as that a prompt is never answered from the future. *)
COROLLARY ClaudeAnswersAreCaused == Spec => []AnswersAreCaused
  BY ClaudeIsASession, NoAnswerFromTheFuture, PTL

(***************************************************************************)
(* Which turn goes to which prompt.  No frame of the protocol says whose   *)
(* result it is, so all there is to go by is the order of the lines in the *)
(* two pipes; what follows from that order is proved here: two prompts     *)
(* never get one turn, a prompt gets its own unless an earlier one was     *)
(* given up, an interrupt stops no later turn, and a turn has all of its   *)
(* text and no more.                                                       *)
(***************************************************************************)

Users == {i \in 1..Len(toCli) : toCli[i].kind = "user"}
Stops == {i \in 1..Len(toCli) : toCli[i].kind = "interrupt" /\ toCli[i].for # 0}
Said == {i \in 1..Len(toHost) : toHost[i].kind # "error"}

(* The frames come turn by turn, a result ends its turn, and a reader that *)
(* reports an error reports nothing after it.                              *)
FramesInOrder ==
    /\ \A i, j \in 1..Len(toHost) : i < j => i \in Said
    /\ \A i, j \in Said : i < j => toHost[i].turn <= toHost[j].turn
    /\ \A i, j \in Said : i < j /\ toHost[i].kind = "result" => toHost[i].turn < toHost[j].turn
    /\ \A i \in 1..Len(toHost) : i \notin Said => ended

(* Turns are run in the order in which they were asked for: what was       *)
(* answered comes before what is on its way, that before what runs, and    *)
(* that before what waits to be read.                                      *)
Past(t) ==
    /\ \A k \in Said : t < toHost[k].turn
    /\ running # 0 => t < running
    /\ \A i \in Users : t < toCli[i].for
TurnsInOrder ==
    /\ \A i, j \in Users : i < j => toCli[i].for < toCli[j].for
    /\ \A i \in Said : running # 0 =>
          toHost[i].turn <= running /\ (toHost[i].kind = "result" => toHost[i].turn < running)
    /\ \A i \in Users : /\ running < toCli[i].for
                        /\ \A k \in Said : toHost[k].turn < toCli[i].for
    /\ \A n \in Prompts : Past(reply[n])

(* Nothing is known of a prompt before its message is written.             *)
Unsent(p) == call[p].st = "running" /\ ppc[p] \in {"out", "init", "user"}
Before(n) ==
    /\ running < n
    /\ \A i \in Users : toCli[i].for < n
    /\ \A k \in Said : toHost[k].turn < n
    /\ \A m \in Prompts : reply[m] < n
SentOnce == \A p \in Callers : Unsent(p) => Before(prompts)

(* Every answer is a reply that was sent to that prompt.                   *)
AnswersAreReplies ==
    /\ \A n \in Prompts : answer[n].turn \in {0, reply[n]}
    /\ \A p \in Callers :
          call[p].st = "done" /\ call[p].err = "nil" => call[p].turn = reply[call[p].n] /\ call[p].turn # 0
    /\ \A m, n \in Prompts : reply[m] # 0 /\ reply[m] = reply[n] => m = n

(* A turn that is still to come, and that nobody waits for any more, is    *)
(* that of a prompt that was given up, or was put off by one.              *)
ToCome(t) ==
    \/ running = t
    \/ \E i \in Users : toCli[i].for = t
    \/ \E k \in Said : toHost[k].kind = "result" /\ toHost[k].turn = t
GivenUp(t) == \E a \in abandoned : a <= t
Overdue ==
    /\ \A t \in Prompts : ToCome(t) /\ pending # t => GivenUp(t)
    /\ \A n \in Prompts : reply[n] \notin {0, n} => reply[n] < n /\ GivenUp(reply[n])

(* An interrupt is behind the message of its prompt, or that message was   *)
(* read and no other is before it.                                         *)
StopsInOrder ==
    \A i \in Stops :
        LET m == toCli[i].for IN
        /\ \A j \in Users : j < i => toCli[j].for <= m
        /\ \/ \E j \in Users : j < i /\ toCli[j].for = m
           \/ running \in {0, m} /\ \A j \in Users : j > i
Sent ==
    \A p \in Callers : ppc[p] \in {"wait", "giveUp"} =>
        \/ \E j \in Users : toCli[j].for = call[p].n
        \/ running \in {0, call[p].n} /\ Users = {}

TurnInv ==
    /\ FramesInOrder /\ TurnsInOrder /\ SentOnce
    /\ AnswersAreReplies /\ Overdue
    /\ StopsInOrder /\ Sent
-----------------------------------------------------------------------------
(* What is in the pipes has a type ... *)
LEMMA PipeTypes ==
    ASSUME Inv
    PROVE  /\ prompts \in Nat /\ running \in 0..prompts
           /\ toCli \in Seq(LineUpTo(prompts)) /\ toHost \in Seq(FrameUpTo(prompts))
           /\ Len(toCli) \in Nat /\ Len(toHost) \in Nat
           /\ \A i \in 1..Len(toCli) : toCli[i].for \in 0..prompts
           /\ \A k \in Said : toHost[k].turn \in 1..prompts
           /\ \A n \in Prompts : reply[n] \in 0..prompts
<1>1. /\ toCli \in Seq(LineUpTo(prompts)) /\ toHost \in Seq(FrameUpTo(prompts))
      /\ prompts \in Nat /\ running \in 0..prompts
  BY Types DEF Inv, Bounded, DuplexTypeOK, CliBounded
<1>2. Len(toCli) \in Nat /\ Len(toHost) \in Nat
  BY <1>1, LenProperties
<1>3. ASSUME NEW i \in 1..Len(toCli) PROVE toCli[i].for \in 0..prompts
  <2>1. toCli[i] \in LineUpTo(prompts)
    BY <1>1, ElementOfSeq
  <2> QED
    BY <2>1 DEF LineUpTo
<1>4. ASSUME NEW k \in Said PROVE toHost[k].turn \in 1..prompts
  <2>1. toHost[k] \in FrameUpTo(prompts) /\ toHost[k].kind # "error"
    BY <1>1, ElementOfSeq DEF Said
  <2> QED
    BY <2>1 DEF FrameUpTo, ErrFrame
<1> QED
  BY <1>1, <1>2, <1>3, <1>4, Types

(* ... and every step adds something at one end or takes something from    *)
(* one. *)
LEMMA LineAdded ==
    ASSUME Inv, NEW line, toCli' = Append(toCli, line)
    PROVE  /\ Len(toCli') = Len(toCli) + 1
           /\ toCli'[Len(toCli) + 1] = line
           /\ \A i \in 1..Len(toCli) : toCli'[i] = toCli[i]
           /\ Users' = Users \cup {i \in {Len(toCli) + 1} : line.kind = "user"}
           /\ Stops' = Stops \cup {i \in {Len(toCli) + 1} : line.kind = "interrupt" /\ line.for # 0}
<1>1. /\ Len(toCli') = Len(toCli) + 1 /\ Len(toCli) \in Nat
      /\ toCli'[Len(toCli) + 1] = line
      /\ \A i \in 1..Len(toCli) : toCli'[i] = toCli[i]
  BY PipeTypes, AppendProperties
<1>2. 1..Len(toCli') = 1..Len(toCli) \cup {Len(toCli) + 1}
  BY <1>1
<1>3. Users' = Users \cup {i \in {Len(toCli) + 1} : line.kind = "user"}
  BY <1>1, <1>2, Zenon DEF Users
<1>4. Stops' = Stops \cup {i \in {Len(toCli) + 1} : line.kind = "interrupt" /\ line.for # 0}
  BY <1>1, <1>2, Zenon DEF Stops
<1> QED
  BY <1>1, <1>3, <1>4

LEMMA LineRead ==
    ASSUME Inv, ReadLine
    PROVE  /\ toCli # <<>> /\ 1 \in 1..Len(toCli) /\ Head(toCli) = toCli[1]
           /\ Len(toCli') = Len(toCli) - 1
           /\ \A i \in 1..Len(toCli') : i + 1 \in 1..Len(toCli) /\ toCli'[i] = toCli[i + 1]
           /\ \A i \in Users' : i + 1 \in Users /\ toCli'[i] = toCli[i + 1]
           /\ \A i \in Stops' : i + 1 \in Stops /\ toCli'[i] = toCli[i + 1]
           /\ \A i \in Users : i # 1 => i - 1 \in Users' /\ toCli'[i - 1] = toCli[i]
<1>1. /\ toCli # <<>> /\ Len(toCli) \in Nat \ {0} /\ Head(toCli) = toCli[1]
      /\ Len(toCli') = Len(toCli) - 1
      /\ \A i \in 1..Len(toCli') : toCli'[i] = toCli[i + 1]
  BY PipeTypes, HeadTailProperties, EmptySeq DEF ReadLine
<1>2. \A i \in 1..Len(toCli') : i + 1 \in 1..Len(toCli)
  BY <1>1
<1>3. \A i \in 1..Len(toCli) : i # 1 => i - 1 \in 1..Len(toCli') /\ toCli'[i - 1] = toCli[i]
  BY <1>1
<1>4. \A i \in Users' : i + 1 \in Users /\ toCli'[i] = toCli[i + 1]
  BY <1>1, <1>2 DEF Users
<1>5. \A i \in Stops' : i + 1 \in Stops /\ toCli'[i] = toCli[i + 1]
  BY <1>1, <1>2 DEF Stops
<1>6. \A i \in Users : i # 1 => i - 1 \in Users' /\ toCli'[i - 1] = toCli[i]
  BY <1>1, <1>3 DEF Users
<1> QED
  BY <1>1, <1>2, <1>4, <1>5, <1>6

LEMMA FrameAdded ==
    ASSUME Inv, NEW frame, toHost' = Append(toHost, frame)
    PROVE  /\ Len(toHost') = Len(toHost) + 1
           /\ toHost'[Len(toHost) + 1] = frame
           /\ \A i \in 1..Len(toHost) : toHost'[i] = toHost[i]
           /\ Said' = Said \cup {i \in {Len(toHost) + 1} : frame.kind # "error"}
<1>1. /\ Len(toHost') = Len(toHost) + 1 /\ Len(toHost) \in Nat
      /\ toHost'[Len(toHost) + 1] = frame
      /\ \A i \in 1..Len(toHost) : toHost'[i] = toHost[i]
  BY PipeTypes, AppendProperties
<1>2. 1..Len(toHost') = 1..Len(toHost) \cup {Len(toHost) + 1}
  BY <1>1
<1>3. Said' = Said \cup {i \in {Len(toHost) + 1} : frame.kind # "error"}
  BY <1>1, <1>2, Zenon DEF Said
<1> QED
  BY <1>1, <1>3

LEMMA FrameTaken ==
    ASSUME Inv, TakeFrame
    PROVE  /\ toHost # <<>> /\ 1 \in 1..Len(toHost) /\ Head(toHost) = toHost[1]
           /\ Len(toHost') = Len(toHost) - 1
           /\ \A i \in 1..Len(toHost') : i + 1 \in 1..Len(toHost) /\ toHost'[i] = toHost[i + 1]
           /\ \A i \in Said' : i + 1 \in Said /\ toHost'[i] = toHost[i + 1]
<1>1. /\ toHost # <<>> /\ Len(toHost) \in Nat \ {0} /\ Head(toHost) = toHost[1]
      /\ Len(toHost') = Len(toHost) - 1
      /\ \A i \in 1..Len(toHost') : toHost'[i] = toHost[i + 1]
  BY PipeTypes, HeadTailProperties, EmptySeq DEF TakeFrame
<1>2. \A i \in 1..Len(toHost') : i + 1 \in 1..Len(toHost)
  BY <1>1
<1>4. \A i \in Said' : i + 1 \in Said /\ toHost'[i] = toHost[i + 1]
  BY <1>1, <1>2 DEF Said
<1> QED
  BY <1>1, <1>2, <1>4

(* The transport's reader stops: a prefix of the frames is left, and maybe *)
(* an error after it. *)
LEMMA FramesCut ==
    ASSUME Inv, FramesEnd \/ ReaderBreaks
    PROVE  /\ ended' /\ Len(toHost') \in Nat
           /\ \A i \in 1..Len(toHost') :
                 \/ i \in 1..Len(toHost) /\ toHost'[i] = toHost[i]
                 \/ i = Len(toHost') /\ toHost'[i].kind = "error" /\ ~ended
<1> DEFINE F == FrameUpTo(prompts)
<1>1. toHost \in Seq(F) /\ Len(toHost) \in Nat
  BY PipeTypes
<1>2. ASSUME NEW k \in 0..Len(toHost)
      PROVE  /\ SubSeq(toHost, 1, k) \in Seq(F) /\ Len(SubSeq(toHost, 1, k)) = k
             /\ \A i \in 1..k : i \in 1..Len(toHost) /\ SubSeq(toHost, 1, k)[i] = toHost[i]
  <2>1. \A i \in 1..k : toHost[i] \in F
    BY <1>1, ElementOfSeq
  <2>2. /\ SubSeq(toHost, 1, k) \in Seq(F) /\ Len(SubSeq(toHost, 1, k)) = k
        /\ \A i \in 1..k : SubSeq(toHost, 1, k)[i] = toHost[i]
    BY <1>1, <2>1, SubSeqProperties
  <2> QED
    BY <1>1, <2>2
<1>3. CASE FramesEnd
  <2>1. ended' /\ (toHost' = toHost \/ \E k \in 0..Len(toHost) : toHost' = SubSeq(toHost, 1, k))
    BY <1>3 DEF FramesEnd, StopReading
  <2> QED
    BY <1>1, <1>2, <2>1
<1>4. CASE ReaderBreaks /\ ReadError(ErrFrame)
  <2>1. PICK k \in 0..Len(toHost) : toHost' = Append(SubSeq(toHost, 1, k), ErrFrame)
    BY <1>4 DEF ReadError
  <2>2. /\ ErrFrame \in F /\ ErrFrame.kind = "error"
    BY DEF FrameUpTo, ErrFrame
  <2>3. /\ Len(toHost') = k + 1 /\ toHost'[k + 1] = ErrFrame
        /\ \A i \in 1..k : toHost'[i] = SubSeq(toHost, 1, k)[i]
    BY <1>2, <2>1, <2>2, AppendProperties
  <2> HIDE DEF F
  <2>4. \A i \in 1..(k + 1) : i \in 1..k \/ i = k + 1
    OBVIOUS
  <2>5. ended' /\ ~ended
    BY <1>4 DEF ReadError
  <2> QED
    BY <1>2, <2>2, <2>3, <2>4, <2>5
<1>5. CASE ReaderBreaks /\ DropError(ErrFrame)
  <2>1. Len(toHost) - 1 \in 0..Len(toHost) /\ ended' /\ toHost' = SubSeq(toHost, 1, Len(toHost) - 1)
    BY <1>1, <1>5, EmptySeq DEF DropError
  <2> QED
    BY <1>2, <2>1
<1> QED
  BY <1>3, <1>4, <1>5 DEF ReaderBreaks
-----------------------------------------------------------------------------
turnVars == <<toCli, toHost, ended, running, prompts, call, ppc, pending, reply, answer, abandoned>>

LEMMA NoTurnMoves ==
    ASSUME TurnInv, UNCHANGED turnVars
    PROVE  TurnInv'
<1> USE DEF turnVars
<1>1. UNCHANGED <<Users, Stops, Said>>
  BY DEF Users, Stops, Said
<1>2. FramesInOrder' /\ TurnsInOrder'
  BY <1>1 DEF TurnInv, FramesInOrder, TurnsInOrder, Past
<1>3. SentOnce'
  BY <1>1 DEF TurnInv, SentOnce, Unsent, Before
<1>4. AnswersAreReplies' /\ Overdue'
  BY <1>1 DEF TurnInv, AnswersAreReplies, Overdue, ToCome, GivenUp
<1>5. StopsInOrder' /\ Sent'
  BY <1>1 DEF TurnInv, StopsInOrder, Sent
<1> QED
  BY <1>2, <1>3, <1>4, <1>5 DEF TurnInv

LEMMA InitTurns == Init => TurnInv
<1> SUFFICES ASSUME Init PROVE TurnInv
  OBVIOUS
<1>1. /\ toCli = <<>> /\ toHost = <<>> /\ running = 0 /\ ended = FALSE /\ abandoned = {}
      /\ reply = [n \in Prompts |-> 0] /\ answer = [n \in Prompts |-> NoAnswer]
      /\ call = [p \in Callers |-> NoCall] /\ ppc = [p \in Callers |-> "out"]
  BY DEF Init, SessionInit, PortInit, ConvInit, DuplexInit, CliInit
<1>2. Users = {} /\ Stops = {} /\ Said = {}
  BY <1>1 DEF Users, Stops, Said
<1>3. \A n \in Prompts : n # 0
  BY DEF Prompts
<1>4. FramesInOrder /\ TurnsInOrder /\ SentOnce
  BY <1>1, <1>2 DEF FramesInOrder, TurnsInOrder, Past, SentOnce, Unsent, NoCall
<1>5. AnswersAreReplies /\ Overdue
  BY <1>1, <1>2, <1>3 DEF AnswersAreReplies, Overdue, ToCome, NoAnswer, NoCall
<1>6. StopsInOrder /\ Sent
  BY <1>1, <1>2 DEF StopsInOrder, Sent
<1> QED
  BY <1>4, <1>5, <1>6 DEF TurnInv
-----------------------------------------------------------------------------
(* The prompt that is pending is the one accepted last. *)
LEMMA PendingIsLast ==
    ASSUME Inv, pending # 0
    PROVE  pending = prompts /\ prompts \in Prompts
<1> PICK p \in Callers : ppc[p] \in {"init", "user", "wait"} /\ call[p].n = pending
  BY DEF Inv, PendingHasWaiter
<1> QED
  BY Alone

(* The session's own steps: a prompt is accepted, or takes its answer. *)
LEMMA SessionKeepsTurns ==
    ASSUME Inv, TurnInv, SessionStep, UNCHANGED convVars
    PROVE  TurnInv'
<1> USE DEF TurnInv, convVars, ownVars, duplexVars, cliVars
<1>1. /\ UNCHANGED <<toCli, toHost, running, ended, ppc, pending, reply, abandoned>>
      /\ UNCHANGED <<Users, Stops, Said>>
  BY DEF Users, Stops, Said
<1>2. FramesInOrder' /\ TurnsInOrder' /\ Overdue' /\ StopsInOrder'
  BY <1>1 DEF FramesInOrder, TurnsInOrder, Past, Overdue, ToCome, GivenUp, StopsInOrder
<1>3. CASE \E p \in Callers : PromptEnter(p)
  <2> PICK p \in Callers : PromptEnter(p)
    BY <1>3
  <2>1. /\ \A q \in Callers : call[q].st = "none" /\ ppc[q] = "out"
        /\ prompts \in Nat /\ call \in [Callers -> CallState]
    BY Types DEF PromptEnter, Inv, InPrompt, SessionInv, OneInFlight
  <2>2. /\ prompts' = prompts + 1 /\ answer' = answer
        /\ call'[p].st = "running"
        /\ \A q \in Callers \ {p} : call'[q] = call[q]
    BY <2>1 DEF PromptEnter, Accept
  <2>3. Before(prompts + 1)
    BY <2>1, PipeTypes DEF Before, Users
  <2>4. SentOnce'
    BY <1>1, <2>2, <2>3 DEF SentOnce, Before
  <2>5. AnswersAreReplies'
    BY <1>1, <2>2 DEF AnswersAreReplies
  <2>6. Sent'
    BY <1>1, <2>1 DEF Sent
  <2> QED
    BY <1>2, <2>4, <2>5, <2>6
<1>4. CASE \E p \in Callers : PromptLeave(p)
  <2> PICK p \in Callers : PromptLeave(p)
    BY <1>4
  <2>1. /\ call[p].st = "done" /\ call[p].n \in Prompts /\ prompts \in Nat
        /\ call \in [Callers -> CallState]
    BY Types, Alone DEF PromptLeave
  <2>9. answer \in [Prompts -> [turn : Turns, text : Seq(Turns)]]
    BY DEF Inv, SessionInv, SessionTypeOK
  <2>2. /\ call' = [call EXCEPT ![p] = NoCall] /\ prompts' = prompts
        /\ \/ call[p].err # "nil" /\ answer' = answer
           \/ /\ call[p].err = "nil"
              /\ answer' = [answer EXCEPT ![call[p].n] = [turn |-> call[p].turn, text |-> text]]
    BY DEF PromptLeave
  <2>3. /\ call'[p] = NoCall
        /\ \A q \in Callers \ {p} : call'[q] = call[q]
    BY <2>1, <2>2
  <2>4. SentOnce'
    BY <1>1, <2>2, <2>3 DEF SentOnce, Unsent, Before, NoCall
  <2>5. ASSUME NEW n \in Prompts PROVE answer'[n].turn \in {answer[n].turn, reply[n]}
    <3>1. call[p].err = "nil" => call[p].turn = reply[call[p].n]
      BY <2>1 DEF AnswersAreReplies
    <3>2. answer'[n] = answer[n]
          \/ /\ n = call[p].n /\ call[p].err = "nil"
             /\ answer'[n] = [turn |-> call[p].turn, text |-> text]
      BY <2>2, <2>9
    <3> QED
      BY <3>1, <3>2
  <2>6. AnswersAreReplies'
    BY <1>1, <2>3, <2>5 DEF AnswersAreReplies, NoCall
  <2>7. ppc[p] = "out"
    BY <2>1 DEF Inv, InPrompt
  <2>8. Sent'
    BY <1>1, <2>3, <2>7 DEF Sent
  <2> QED
    BY <1>2, <2>4, <2>6, <2>8
<1>5. CASE ~ \E p \in Callers : PromptEnter(p) \/ PromptLeave(p)
  <2>1. UNCHANGED <<call, prompts, answer>>
    BY <1>5 DEF SessionStep, Close, Subscribe, Unsubscribe, EmitLock, EmitReturn, Tell, portVars
  <2> QED
    BY <1>1, <2>1, NoTurnMoves DEF turnVars
<1> QED
  BY <1>3, <1>4, <1>5

(* What a caller inside Conversation.Prompt does without writing. *)
LEMMA QuietPromptKeepsTurns ==
    ASSUME Inv, TurnInv, NEW p \in Callers, UNCHANGED sessVars,
           \/ PromptRefused(p) \/ PromptBegins(p) \/ PromptWriteFails(p) \/ PromptAnswered(p)
           \/ PromptCancelled(p) \/ PromptOutlived(p)
    PROVE  TurnInv'
<1> USE DEF TurnInv
<1>1. /\ prompts \in Nat /\ call \in [Callers -> CallState] /\ pending \in 0..prompts
      /\ ppc \in [Callers -> {"out", "init", "user", "wait", "giveUp"}]
      /\ abandoned \subseteq Prompts
  BY Types DEF Inv, Bounded, OwnBounded
<1>2. call[p].st = "running"
  BY DEF Inv, InPrompt, PromptRefused, PromptBegins, PromptWriteFails, PromptAnswered,
     PromptCancelled, PromptOutlived
<1>3. /\ call[p].n = prompts /\ prompts \in Prompts
      /\ \A q \in Callers \ {p} : call[q].st = "none" /\ ppc[q] = "out"
  BY <1>2, Alone
<1>4. /\ UNCHANGED <<toCli, toHost, running, ended, reply, answer, prompts>>
      /\ UNCHANGED <<Users, Stops, Said>>
  <2>1. UNCHANGED <<toCli, toHost, running, ended, reply, answer, prompts>>
    BY DEF PromptRefused, PromptBegins, PromptWriteFails, PromptAnswered, PromptCancelled,
       PromptOutlived, sessVars, duplexVars, cliVars, WriteClosed, WriteBroken
  <2> QED
    BY <2>1 DEF Users, Stops, Said
<1>5. FramesInOrder' /\ TurnsInOrder' /\ StopsInOrder'
  BY <1>4 DEF FramesInOrder, TurnsInOrder, Past, StopsInOrder
<1>6. \A q \in Callers \ {p} : call'[q] = call[q] /\ ppc'[q] = ppc[q]
  BY <1>1 DEF PromptRefused, PromptBegins, PromptWriteFails, PromptAnswered, PromptCancelled,
     PromptOutlived, portVars, Fail, Answer, Leave
<1>7. \/ call' = call
      \/ \E err \in Failures : Fail(p, err)
      \/ Answer(p, reply[prompts]) /\ reply[prompts] # 0
  BY <1>3 DEF PromptRefused, PromptBegins, PromptWriteFails, PromptAnswered, PromptCancelled,
     PromptOutlived, portVars, Failures
<1>8. /\ call'[p].n = call[p].n
      /\ call'[p].st = "done" /\ call'[p].err = "nil" => call'[p].turn = reply[prompts] /\ call'[p].turn # 0
  BY <1>1, <1>2, <1>7 DEF Fail, Answer, CallState, Failures
<1>9. AnswersAreReplies'
  BY <1>3, <1>4, <1>6, <1>8 DEF AnswersAreReplies
<1>10. SentOnce'
  <2>1. Unsent(p)' => Unsent(p)
    <3>1. CASE PromptBegins(p)
      BY <1>2, <3>1 DEF PromptBegins, Unsent
    <3>2. CASE PromptCancelled(p)
      BY <1>1, <3>2 DEF PromptCancelled, Unsent
    <3>3. CASE call'[p].st = "done"
      BY <3>3 DEF Unsent
    <3>4. (\E err \in Failures : Fail(p, err)) \/ Answer(p, reply[prompts]) => call'[p].st = "done"
      <4>1. ASSUME NEW err \in Failures, Fail(p, err) PROVE call'[p].st = "done"
        BY <1>1, <4>1 DEF Fail
      <4>2. ASSUME Answer(p, reply[prompts]) PROVE call'[p].st = "done"
        BY <1>1, <4>2 DEF Answer
      <4> QED
        BY <4>1, <4>2
    <3>5. PromptRefused(p) \/ PromptWriteFails(p) \/ PromptAnswered(p) \/ PromptOutlived(p)
             => (\E err \in Failures : Fail(p, err)) \/ Answer(p, reply[prompts])
      BY <1>3 DEF PromptRefused, PromptWriteFails, PromptAnswered, PromptOutlived, Failures
    <3> QED
      BY <3>1, <3>2, <3>3, <3>4, <3>5
  <2>2. \A q \in Callers : Unsent(q)' => Unsent(q)
    BY <1>6, <2>1 DEF Unsent
  <2>3. Before(prompts)' <=> Before(prompts)
    BY <1>4 DEF Before
  <2> QED
    BY <1>4, <2>2, <2>3 DEF SentOnce
<1>11. Sent'
  <2>1. ppc'[p] \in {"wait", "giveUp"} => ppc[p] = "wait"
    BY <1>1 DEF PromptRefused, PromptBegins, PromptWriteFails, PromptAnswered, PromptCancelled,
       PromptOutlived, Leave
  <2> QED
    BY <1>4, <1>6, <1>8, <2>1 DEF Sent
<1>12. Overdue'
  <2>1. \A t \in Prompts : GivenUp(t) => GivenUp(t)'
    BY DEF GivenUp, PromptRefused, PromptBegins, PromptWriteFails, PromptAnswered, PromptCancelled,
       PromptOutlived
  <2>2. \A t \in Prompts : ToCome(t)' <=> ToCome(t)
    BY <1>4 DEF ToCome
  <2>3. \A n \in Prompts : reply[n] \notin {0, n} => reply[n] \in Prompts
    BY <1>1, Types, PipeTypes DEF Prompts
  <2>4. \A n \in Prompts : reply'[n] \notin {0, n} => reply'[n] < n /\ GivenUp(reply[n])'
    BY <1>4, <2>1, <2>3 DEF Overdue
  <2>5. ASSUME NEW t \in Prompts, ToCome(t), pending' # t PROVE GivenUp(t)'
    <3>1. CASE pending # t
      BY <2>1, <2>5, <3>1 DEF Overdue
    <3>2. CASE pending = t /\ (PromptCancelled(p) \/ PromptOutlived(p))
      <4>1. t = prompts
        BY <3>2, PendingIsLast DEF Prompts
      <4> QED
        BY <1>3, <3>2, <4>1 DEF PromptCancelled, PromptOutlived, GivenUp, Prompts
    <3>3. CASE pending = t /\ PromptWriteFails(p)
      <4>1. t = prompts
        BY <3>3, PendingIsLast DEF Prompts
      <4>2. Unsent(p)
        BY <1>2, <3>3 DEF Unsent, PromptWriteFails
      <4>3. Before(prompts)
        BY <4>2 DEF SentOnce
      <4> QED
        BY <1>1, <2>5, <4>1, <4>3 DEF Before, ToCome, Prompts
    <3>4. CASE pending = t /\ PromptBegins(p)
      <4>1. t = prompts
        BY <3>4, PendingIsLast DEF Prompts
      <4> QED
        BY <1>3, <2>5, <3>4, <4>1 DEF PromptBegins
    <3>5. CASE PromptRefused(p) \/ PromptAnswered(p)
      BY <2>5, <3>1, <3>5 DEF PromptRefused, PromptAnswered
    <3> QED
      BY <3>1, <3>2, <3>3, <3>4, <3>5
  <2> QED
    BY <2>2, <2>4, <2>5 DEF Overdue
<1> QED
  BY <1>5, <1>9, <1>10, <1>11, <1>12
-----------------------------------------------------------------------------
(* A line that is no user message puts nothing off. *)
LEMMA OtherLineWritten ==
    ASSUME Inv, TurnInv, NEW line, toCli' = Append(toCli, line), line.kind # "user",
           UNCHANGED <<toHost, ended, running, pending, reply, abandoned, prompts>>
    PROVE  /\ FramesInOrder' /\ TurnsInOrder' /\ Overdue'
           /\ Before(prompts)' <=> Before(prompts)
           /\ Users' = Users /\ Said' = Said
<1> USE DEF TurnInv
<1>1. /\ Users' = Users
      /\ \A i \in 1..Len(toCli) : toCli'[i] = toCli[i]
  BY LineAdded
<1>2. \A i \in Users : toCli'[i] = toCli[i]
  BY <1>1 DEF Users
<1>3. Said' = Said
  BY DEF Said
<1>4. FramesInOrder'
  BY <1>3 DEF FramesInOrder
<1>5. TurnsInOrder'
  BY <1>1, <1>2, <1>3 DEF TurnsInOrder, Past
<1>6. Overdue'
  BY <1>1, <1>2, <1>3 DEF Overdue, ToCome, GivenUp
<1>7. Before(prompts)' <=> Before(prompts)
  BY <1>1, <1>2, <1>3 DEF Before
<1> QED
  BY <1>1, <1>3, <1>4, <1>5, <1>6, <1>7

(* initialize, an answer, an interrupt of the host's own: StopsInOrder is  *)
(* not about them. *)
LEMMA PlainLineWritten ==
    ASSUME Inv, TurnInv, NEW line, toCli' = Append(toCli, line), line.kind # "user",
           line.kind = "interrupt" => line.for = 0, UNCHANGED running
    PROVE  StopsInOrder'
<1>1. /\ Users' = Users /\ Stops' = Stops
      /\ \A i \in 1..Len(toCli) : toCli'[i] = toCli[i]
  <2>1. ~(line.kind = "interrupt" /\ line.for # 0)
    OBVIOUS
  <2> QED
    BY <2>1, LineAdded
<1>2. \A i \in Users \cup Stops : toCli'[i] = toCli[i] /\ i \in Nat
  BY <1>1, PipeTypes DEF Users, Stops
<1>3. ASSUME NEW i \in Stops
      PROVE  /\ \A j \in Users : j < i => toCli'[j].for <= toCli'[i].for
             /\ \/ \E j \in Users : j < i /\ toCli'[j].for = toCli'[i].for
                \/ running' \in {0, toCli'[i].for} /\ \A j \in Users : j > i
  <2>1. /\ \A j \in Users : j < i => toCli[j].for <= toCli[i].for
        /\ \/ \E j \in Users : j < i /\ toCli[j].for = toCli[i].for
           \/ running \in {0, toCli[i].for} /\ \A j \in Users : j > i
    BY DEF TurnInv, StopsInOrder
  <2> QED
    BY <1>2, <2>1
<1> QED
  BY <1>1, <1>3, Zenon DEF StopsInOrder

(* The handshake and the user message of a Prompt. *)
LEMMA PromptWritesInOrder ==
    ASSUME Inv, TurnInv, NEW p \in Callers, PromptWrites(p), UNCHANGED sessVars
    PROVE  TurnInv'
<1>1. /\ prompts \in Nat /\ call[p].st = "running" /\ call' = call /\ prompts' = prompts
      /\ UNCHANGED <<toHost, running, ended, reply, answer, pending, abandoned>>
      /\ ppc \in [Callers -> {"out", "init", "user", "wait", "giveUp"}]
  BY Types DEF PromptWrites, Inv, InPrompt, portVars, sessVars, cliVars, WriteLine
<1>2. /\ call[p].n = prompts /\ prompts \in Prompts
      /\ \A q \in Callers \ {p} : call[q].st = "none" /\ ppc[q] = "out"
  BY <1>1, Alone
<1>3. \A q \in Callers \ {p} : ppc'[q] = "out"
  BY <1>1, <1>2 DEF PromptWrites
<1>4. AnswersAreReplies'
  BY <1>1 DEF TurnInv, AnswersAreReplies
<1>5. Unsent(p)
  BY <1>1 DEF Unsent, PromptWrites
<1>6. Before(prompts)
  BY <1>5 DEF TurnInv, SentOnce
<1>7. CASE ppc[p] = "init"
  <2>1. PICK line \in {[kind |-> "initialize", for |-> 0]} :
            toCli' = Append(toCli, line) /\ ppc' = [ppc EXCEPT ![p] = "user"]
    BY <1>7 DEF PromptWrites, WriteLine
  <2>2. line.kind # "user" /\ line.kind # "interrupt"
    BY <2>1
  <2>3. /\ FramesInOrder' /\ TurnsInOrder' /\ Overdue'
        /\ Before(prompts)' <=> Before(prompts)
    BY <1>1, <2>1, <2>2, OtherLineWritten
  <2>4. StopsInOrder'
    BY <1>1, <2>1, <2>2, PlainLineWritten
  <2>5. SentOnce'
    BY <1>1, <1>6, <2>3 DEF SentOnce
  <2>6. Sent'
    BY <1>1, <1>3, <2>1 DEF Sent
  <2> QED
    BY <1>4, <2>3, <2>4, <2>5, <2>6 DEF TurnInv
<1>8. CASE ppc[p] = "user"
  <2>1. PICK line \in {[kind |-> "user", for |-> prompts]} :
            toCli' = Append(toCli, line) /\ ppc' = [ppc EXCEPT ![p] = "wait"]
    BY <1>2, <1>8 DEF PromptWrites, WriteLine
  <2> DEFINE last == Len(toCli) + 1
  <2>2. /\ Users' = Users \cup {last} /\ Stops' = Stops
        /\ \A i \in 1..Len(toCli) : toCli'[i] = toCli[i]
        /\ toCli'[last] = line /\ line.for = prompts
    <3>1. line.kind = "user" /\ line.for = prompts
      BY <2>1
    <3>2. /\ Users' = Users \cup {i \in {last} : line.kind = "user"}
          /\ Stops' = Stops \cup {i \in {last} : line.kind = "interrupt" /\ line.for # 0}
          /\ \A i \in 1..Len(toCli) : toCli'[i] = toCli[i]
          /\ toCli'[last] = line
      BY <2>1, LineAdded
    <3> QED
      BY <3>1, <3>2
  <2>3. /\ \A i \in Users \cup Stops : toCli'[i] = toCli[i] /\ i \in Nat /\ i < last
        /\ last \in Nat /\ last \notin Users
    BY <2>2, PipeTypes DEF Users, Stops
  <2> HIDE DEF last
  <2>4. Said' = Said
    BY <1>1 DEF Said
  <2>5. FramesInOrder'
    BY <1>1, <2>4 DEF TurnInv, FramesInOrder
  <2>6. TurnsInOrder'
    <3>1. \A i, j \in Users' : i < j => toCli'[i].for < toCli'[j].for
      BY <1>6, <2>2, <2>3 DEF TurnInv, TurnsInOrder, Past, Before
    <3>2. \A i \in Users' : /\ running < toCli'[i].for
                            /\ \A k \in Said : toHost[k].turn < toCli'[i].for
      BY <1>6, <2>2, <2>3 DEF TurnInv, TurnsInOrder, Past, Before
    <3>3. \A n \in Prompts, i \in Users' : reply[n] < toCli'[i].for
      BY <1>6, <2>2, <2>3 DEF TurnInv, TurnsInOrder, Past, Before
    <3> QED
      BY <1>1, <2>4, <3>1, <3>2, <3>3 DEF TurnInv, TurnsInOrder, Past
  <2>7. SentOnce'
    <3>1. ~Unsent(p)'
      BY <1>1, <2>1 DEF Unsent
    <3> QED
      BY <1>1, <1>2, <3>1 DEF SentOnce, Unsent
  <2>8. Overdue'
    <3>1. \A t \in Prompts : ToCome(t)' => ToCome(t) \/ t = prompts
      BY <1>1, <2>2, <2>3, <2>4 DEF ToCome
    <3>2. pending = prompts \/ GivenUp(prompts)
      <4>1. CASE pending # prompts
        <5>1. reply[prompts] # 0
          BY <1>2, <1>8, <4>1 DEF Inv, Channels, Expecting
        <5>2. reply[prompts] < prompts /\ reply[prompts] \in 0..prompts
          BY <1>2, <1>6, PipeTypes DEF Before
        <5>3. GivenUp(reply[prompts])
          BY <1>1, <1>2, <5>1, <5>2 DEF TurnInv, Overdue
        <5>4. abandoned \subseteq Nat
          BY DEF Inv, Bounded, OwnBounded, Prompts
        <5> QED
          BY <1>1, <5>2, <5>3, <5>4 DEF GivenUp
      <4> QED
        BY <4>1
    <3>3. \A t : GivenUp(t)' <=> GivenUp(t)
      BY <1>1 DEF GivenUp
    <3> QED
      BY <1>1, <3>1, <3>2, <3>3 DEF TurnInv, Overdue
  <2>9. StopsInOrder'
    BY <1>1, <2>2, <2>3 DEF TurnInv, StopsInOrder
  <2>10. Sent'
    BY <1>1, <1>2, <1>3, <2>2 DEF Sent
  <2> QED
    BY <1>4, <2>5, <2>6, <2>7, <2>8, <2>9, <2>10 DEF TurnInv
<1> QED
  BY <1>7, <1>8 DEF PromptWrites

(* The interrupt of a Prompt that gives up. *)
LEMMA GivesUpInOrder ==
    ASSUME Inv, TurnInv, NEW p \in Callers, PromptGivesUp(p), UNCHANGED sessVars
    PROVE  TurnInv'
<1>1. /\ prompts \in Nat /\ call[p].st = "running" /\ prompts' = prompts
      /\ UNCHANGED <<toHost, running, ended, reply, answer, pending, abandoned>>
      /\ ppc \in [Callers -> {"out", "init", "user", "wait", "giveUp"}]
      /\ call \in [Callers -> CallState] /\ ppc[p] = "giveUp" /\ Fail(p, "ctx") /\ Leave(p)
      /\ WriteInterrupt(call[p].n)
  BY Types DEF PromptGivesUp, Inv, InPrompt, sessVars, cliVars, WriteInterrupt, WriteLine,
     WriteClosed, WriteBroken, duplexVars
<1>2. /\ call[p].n = prompts /\ prompts \in Prompts
      /\ \A q \in Callers \ {p} : call[q].st = "none" /\ ppc[q] = "out"
  BY <1>1, Alone
<1>3. /\ \A q \in Callers : ppc'[q] = "out"
      /\ call'[p].st = "done" /\ call'[p].err = "ctx"
      /\ \A q \in Callers \ {p} : call'[q].st = "none"
  BY <1>1, <1>2 DEF Fail, Leave, CallState
<1>4. AnswersAreReplies' /\ SentOnce' /\ Sent'
  BY <1>1, <1>3 DEF TurnInv, AnswersAreReplies, SentOnce, Unsent, Sent
<1>5. CASE UNCHANGED duplexVars
  <2>1. UNCHANGED <<toCli, Users, Stops, Said>>
    BY <1>5 DEF duplexVars, Users, Stops, Said
  <2> QED
    BY <1>1, <1>4, <2>1 DEF TurnInv, FramesInOrder, TurnsInOrder, Past, Overdue, ToCome, GivenUp, StopsInOrder
<1>6. CASE WriteLine([kind |-> "interrupt", for |-> prompts])
  <2>1. PICK line \in {[kind |-> "interrupt", for |-> prompts]} : toCli' = Append(toCli, line)
    BY <1>6 DEF WriteLine
  <2> DEFINE last == Len(toCli) + 1
  <2>2. line.kind = "interrupt" /\ line.for = prompts /\ prompts # 0
    BY <1>2, <2>1 DEF Prompts
  <2>3. /\ Users' = Users /\ Stops' = Stops \cup {last}
        /\ \A i \in 1..Len(toCli) : toCli'[i] = toCli[i]
        /\ toCli'[last] = line
    BY <2>1, <2>2, LineAdded
  <2>4. /\ \A i \in Users \cup Stops : toCli'[i] = toCli[i] /\ i \in Nat /\ i < last
        /\ \A i \in Users : toCli[i].for <= prompts
        /\ last \in Nat
    BY <2>3, PipeTypes DEF Users, Stops
  <2> HIDE DEF last
  <2>5. FramesInOrder' /\ TurnsInOrder' /\ Overdue'
    BY <1>1, <2>1, <2>2, OtherLineWritten
  <2>6. \/ \E j \in Users : toCli[j].for = prompts
        \/ running \in {0, prompts} /\ Users = {}
    BY <1>1, <1>2 DEF TurnInv, Sent
  <2>7. StopsInOrder'
    BY <1>1, <2>2, <2>3, <2>4, <2>6 DEF TurnInv, StopsInOrder
  <2> QED
    BY <1>4, <2>5, <2>7 DEF TurnInv
<1> QED
  BY <1>1, <1>2, <1>5, <1>6 DEF WriteInterrupt, WriteClosed, WriteBroken

(* The answers of the read loop and the interrupts of the host. *)
LEMMA PlainLineKeepsTurns ==
    ASSUME Inv, TurnInv, Respond \/ HostInterrupts, UNCHANGED sessVars
    PROVE  TurnInv'
<1>1. UNCHANGED <<toHost, running, ended, reply, answer, pending, abandoned, ppc, call, prompts>>
  BY DEF Respond, HostInterrupts, ownVars, portVars, sessVars, cliVars, WriteInterrupt, WriteLine,
     WriteClosed, WriteBroken, duplexVars
<1>2. CASE toCli' = toCli
  BY <1>1, <1>2, NoTurnMoves DEF turnVars
<1>3. CASE toCli' # toCli
  <2>1. PICK line \in {[kind |-> "answer", for |-> reading.turn], [kind |-> "interrupt", for |-> 0]} :
            toCli' = Append(toCli, line)
    BY <1>3 DEF Respond, HostInterrupts, WriteInterrupt, WriteLine, WriteClosed, WriteBroken, duplexVars
  <2>2. line.kind # "user" /\ (line.kind = "interrupt" => line.for = 0)
    BY <2>1
  <2>3. /\ FramesInOrder' /\ TurnsInOrder' /\ Overdue'
        /\ Before(prompts)' <=> Before(prompts)
        /\ Users' = Users /\ Said' = Said
    BY <1>1, <2>1, <2>2, OtherLineWritten
  <2>4. StopsInOrder'
    BY <1>1, <2>1, <2>2, PlainLineWritten
  <2>5. SentOnce' /\ AnswersAreReplies'
    BY <1>1, <2>3 DEF TurnInv, SentOnce, Unsent, AnswersAreReplies
  <2>6. \A i \in Users : toCli'[i] = toCli[i]
    BY <2>1, LineAdded DEF Users
  <2>7. Sent'
    BY <1>1, <2>3, <2>6 DEF TurnInv, Sent
  <2> QED
    BY <2>3, <2>4, <2>5, <2>7 DEF TurnInv
<1> QED
  BY <1>2, <1>3
-----------------------------------------------------------------------------
(* Frames that are gone put nothing off either: d of them were taken, or   *)
(* some were lost at the other end. *)
LEMMA FewerFrames ==
    ASSUME Inv, TurnInv, NEW d \in {0, 1},
           \A i \in Said' : i + d \in Said /\ toHost'[i] = toHost[i + d] /\ i \in Nat,
           UNCHANGED <<toCli, running, prompts>>
    PROVE  /\ \A i, j \in Said' : i < j => toHost'[i].turn <= toHost'[j].turn
           /\ \A i, j \in Said' : i < j /\ toHost'[i].kind = "result" => toHost'[i].turn < toHost'[j].turn
           /\ (\A n \in Prompts : Past(reply[n]))' => TurnsInOrder'
           /\ \A t : Past(t) => Past(t)'
           /\ reply' = reply /\ Before(prompts) => Before(prompts)'
           /\ \A t : ToCome(t)' => ToCome(t)
           /\ Users' = Users /\ Stops' = Stops
<1>1. Users' = Users /\ Stops' = Stops
  BY DEF Users, Stops
<1>2. FramesInOrder /\ TurnsInOrder
  BY DEF TurnInv
<1>3. ASSUME NEW i \in Said', NEW j \in Said', i < j
      PROVE  /\ toHost'[i].turn <= toHost'[j].turn
             /\ toHost'[i].kind = "result" => toHost'[i].turn < toHost'[j].turn
  <2>1. /\ i + d \in Said /\ j + d \in Said /\ i + d < j + d
        /\ toHost'[i] = toHost[i + d] /\ toHost'[j] = toHost[j + d]
    BY <1>3
  <2> QED
    BY <1>2, <2>1 DEF FramesInOrder
<1>4. \A k \in Said' : \E m \in Said : toHost'[k] = toHost[m]
  OBVIOUS
<1>5. UNCHANGED <<toCli, running, prompts>>
  OBVIOUS
<1>6. ASSUME (\A n \in Prompts : Past(reply[n]))' PROVE TurnsInOrder'
  <2>1. ASSUME NEW i \in Said', running # 0
        PROVE  toHost'[i].turn <= running /\ (toHost'[i].kind = "result" => toHost'[i].turn < running)
    BY <1>2, <1>4, <2>1, Zenon DEF TurnsInOrder
  <2>2. \A i \in Users, k \in Said' : toHost'[k].turn < toCli[i].for
    BY <1>2, <1>4, Zenon DEF TurnsInOrder
  <2> QED
    BY <1>1, <1>2, <1>5, <1>6, <2>1, <2>2, Zenon DEF TurnsInOrder
<1>9. ASSUME NEW t, Past(t) PROVE Past(t)'
  <2>1. \A k \in Said' : t < toHost'[k].turn
    BY <1>4, <1>9, Zenon DEF Past
  <2> QED
    BY <1>1, <1>5, <1>9, <2>1, Zenon DEF Past
<1>7. ASSUME reply' = reply, Before(prompts) PROVE Before(prompts)'
  <2>1. \A k \in Said' : toHost'[k].turn < prompts
    BY <1>4, <1>7, Zenon DEF Before
  <2> QED
    BY <1>1, <1>5, <1>7, <2>1, Zenon DEF Before
<1>8. ASSUME NEW t, ToCome(t)' PROVE ToCome(t)
  BY <1>1, <1>4, <1>5, <1>8, Zenon DEF ToCome
<1> QED
  BY <1>1, <1>3, <1>6, <1>7, <1>8, <1>9

LEMMA FramesTakenInOrder ==
    ASSUME Inv, TurnInv, TakeFrame, UNCHANGED <<running, prompts>>
    PROVE  /\ FramesInOrder'
           /\ (\A n \in Prompts : Past(reply[n]))' => TurnsInOrder'
           /\ \A t : Past(t) => Past(t)'
           /\ reply' = reply /\ Before(prompts) => Before(prompts)'
           /\ \A t : ToCome(t)' => ToCome(t)
           /\ Users' = Users /\ Stops' = Stops
<1>1. UNCHANGED <<toCli, running, ended, prompts>> /\ FramesInOrder
  BY DEF TakeFrame, TurnInv
<1>2. /\ Len(toHost') = Len(toHost) - 1 /\ Len(toHost) \in Nat
      /\ \A i \in 1..Len(toHost') : i + 1 \in 1..Len(toHost) /\ toHost'[i] = toHost[i + 1]
      /\ \A i \in Said' : i + 1 \in Said /\ toHost'[i] = toHost[i + 1] /\ i \in Nat
  <2>1. \A i \in Said' : i \in Nat
    BY DEF Said
  <2> QED
    BY <1>1, <2>1, FrameTaken, PipeTypes
<1>3. /\ \A i, j \in Said' : i < j => toHost'[i].turn <= toHost'[j].turn
      /\ \A i, j \in Said' : i < j /\ toHost'[i].kind = "result" => toHost'[i].turn < toHost'[j].turn
      /\ (\A n \in Prompts : Past(reply[n]))' => TurnsInOrder'
      /\ \A t : Past(t) => Past(t)'
      /\ reply' = reply /\ Before(prompts) => Before(prompts)'
      /\ \A t : ToCome(t)' => ToCome(t)
      /\ Users' = Users /\ Stops' = Stops
  BY <1>1, <1>2, FewerFrames, 1 \in {0, 1}
<1>4. ASSUME NEW i \in 1..Len(toHost'), NEW j \in 1..Len(toHost'), i < j PROVE i \in Said'
  <2>1. i + 1 \in Said
    BY <1>1, <1>2, <1>4 DEF FramesInOrder
  <2> QED
    BY <1>2, <2>1 DEF Said
<1>5. ASSUME NEW i \in 1..Len(toHost'), i \notin Said' PROVE ended'
  <2>1. i + 1 \in 1..Len(toHost) /\ i + 1 \notin Said
    BY <1>2, <1>5 DEF Said
  <2> QED
    BY <1>1, <2>1 DEF FramesInOrder
<1>6. FramesInOrder'
  BY <1>3, <1>4, <1>5 DEF FramesInOrder
<1> QED
  BY <1>3, <1>6

(* The read loop takes a frame that is no result ... *)
LEMMA OtherFrameTaken ==
    ASSUME Inv, TurnInv, ReadEvent \/ ReadFailure \/ ReadRequest, UNCHANGED sessVars
    PROVE  TurnInv'
<1>1. /\ TakeFrame
      /\ UNCHANGED <<toCli, running, ended, ppc, call, prompts, reply, answer, pending, abandoned>>
  BY DEF ReadEvent, ReadFailure, ReadRequest, Request, Takes, TakeFrame, ownVars, cliVars, sessVars, portVars
<1>2. /\ FramesInOrder'
      /\ (\A n \in Prompts : Past(reply[n]))' => TurnsInOrder'
      /\ \A t : Past(t) => Past(t)'
      /\ Before(prompts) => Before(prompts)'
      /\ \A t : ToCome(t)' => ToCome(t)
      /\ Users' = Users /\ Stops' = Stops
  BY <1>1, FramesTakenInOrder
<1>3. TurnsInOrder'
  BY <1>1, <1>2 DEF TurnInv, TurnsInOrder
<1>5. SentOnce' /\ AnswersAreReplies'
  BY <1>1, <1>2 DEF TurnInv, SentOnce, Unsent, AnswersAreReplies
<1>6. Overdue'
  BY <1>1, <1>2 DEF TurnInv, Overdue, GivenUp
<1>7. StopsInOrder' /\ Sent'
  BY <1>1, <1>2 DEF TurnInv, StopsInOrder, Sent
<1> QED
  BY <1>2, <1>3, <1>5, <1>6, <1>7 DEF TurnInv

(* ... and a result, which goes to the pending prompt: it is either its    *)
(* own, and the last there will be, or an older one. *)
LEMMA ResultTaken ==
    ASSUME Inv, TurnInv, ReadResult, UNCHANGED sessVars
    PROVE  TurnInv'
<1>1. /\ TakeFrame /\ Head(toHost).kind = "result" /\ pending' = 0
      /\ UNCHANGED <<toCli, running, ended, ppc, call, prompts, answer, abandoned>>
  BY DEF ReadResult, Takes, TakeFrame, ownVars, cliVars, sessVars, portVars
<1>2. /\ FramesInOrder'
      /\ (\A n \in Prompts : Past(reply[n]))' => TurnsInOrder'
      /\ \A t : Past(t) => Past(t)'
      /\ \A t : ToCome(t)' => ToCome(t)
      /\ Users' = Users /\ Stops' = Stops
  BY <1>1, FramesTakenInOrder
<1>3. PICK r : r = Head(toHost).turn
  OBVIOUS
<1>4. /\ 1 \in Said /\ toHost[1].kind = "result" /\ toHost[1].turn = r
      /\ \A k \in Said' : k + 1 \in Said /\ toHost'[k] = toHost[k + 1] /\ 1 < k + 1
      /\ r \in 1..prompts /\ prompts \in 0..MaxPrompts /\ MaxPrompts \in Nat
  <2>1. /\ 1 \in 1..Len(toHost) /\ Head(toHost) = toHost[1]
        /\ \A k \in Said' : k + 1 \in Said /\ toHost'[k] = toHost[k + 1]
    BY <1>1, FrameTaken
  <2>2. 1 \in Said
    BY <1>1, <2>1 DEF Said
  <2>3. \A k \in Said' : 1 < k + 1
    BY DEF Said
  <2> QED
    BY <1>1, <1>3, <2>1, <2>2, <2>3, PipeTypes, Types
<1>5. r \in Prompts /\ ToCome(r)
  BY <1>4 DEF Prompts, ToCome
<1>6. Past(r)'
  <2>1. \A k \in Said' : r < toHost'[k].turn
    BY <1>4 DEF TurnInv, FramesInOrder
  <2>2. running # 0 => r < running
    BY <1>4 DEF TurnInv, TurnsInOrder
  <2>3. \A i \in Users : r < toCli[i].for
    BY <1>4 DEF TurnInv, TurnsInOrder
  <2> QED
    BY <1>1, <1>2, <2>1, <2>2, <2>3 DEF Past
<1>7. \A n \in Prompts : reply[n] < r
  BY <1>4 DEF TurnInv, TurnsInOrder, Past
<1>8. pending # 0 => reply[pending] = 0 /\ pending = prompts /\ prompts \in Prompts
  BY PendingIsLast DEF Inv, PendingHasWaiter
<1>9. /\ reply \in [Prompts -> 0..prompts] /\ pending \in 0..prompts
      /\ \A n \in Prompts : reply'[n] = IF n = pending THEN r ELSE reply[n]
  <2>1. reply \in [Prompts -> 0..prompts] /\ pending \in 0..prompts
    BY Types
  <2>2. 0 \notin Prompts
    BY DEF Prompts
  <2> QED
    BY <1>3, <1>8, <2>1, <2>2 DEF ReadResult
<1>10. TurnsInOrder'
  <2>1. \A n \in Prompts : Past(reply[n])
    BY DEF TurnInv, TurnsInOrder
  <2>2. (\A n \in Prompts : Past(reply[n]))'
    <3>1. ASSUME NEW n \in Prompts, NEW t, t = reply'[n] PROVE Past(t)'
      BY <1>2, <1>6, <1>9, <2>1, <3>1
    <3> QED
      BY <3>1
  <2> QED
    BY <1>2, <2>2
<1>11. SentOnce'
  <2>1. ASSUME Before(prompts) PROVE Before(prompts)'
    <3>1. \A n \in Prompts : reply'[n] < prompts
      BY <1>4, <1>9, <2>1 DEF Before
    <3>2. \A k \in Said' : toHost'[k].turn < prompts
      BY <1>4, <2>1 DEF Before
    <3> QED
      BY <1>1, <1>2, <2>1, <3>1, <3>2 DEF Before
  <2> QED
    BY <1>1, <2>1 DEF TurnInv, SentOnce, Unsent
<1>12. AnswersAreReplies'
  <2>4. \A n \in Prompts : reply[n] # 0 => reply'[n] = reply[n]
    BY <1>8, <1>9 DEF Prompts
  <2>1. ASSUME NEW n \in Prompts PROVE answer[n].turn \in {0, reply'[n]}
    <3>1. answer[n].turn \in {0, reply[n]}
      BY DEF TurnInv, AnswersAreReplies
    <3> QED
      BY <2>4, <3>1
  <2>2. ASSUME NEW p \in Callers, call[p].st = "done", call[p].err = "nil"
        PROVE  call[p].turn = reply'[call[p].n] /\ call[p].turn # 0
    <3>1. call[p].n \in Prompts
      BY <2>2, Alone
    <3>2. call[p].turn = reply[call[p].n] /\ call[p].turn # 0
      BY <2>2 DEF TurnInv, AnswersAreReplies
    <3> QED
      BY <2>4, <3>1, <3>2
  <2>3. \A m, n \in Prompts : reply'[m] # 0 /\ reply'[m] = reply'[n] => m = n
    <3>1. \A m, n \in Prompts : reply[m] # 0 /\ reply[m] = reply[n] => m = n
      BY DEF TurnInv, AnswersAreReplies
    <3>2. \A n \in Prompts : reply[n] # r
      BY <1>4, <1>7
    <3> QED
      BY <1>9, <3>1, <3>2
  <2> QED
    BY <1>1, <2>1, <2>2, <2>3 DEF AnswersAreReplies
<1>13. Overdue'
  <2>1. pending # r => GivenUp(r)
    BY <1>5 DEF TurnInv, Overdue
  <2>2. \A t : GivenUp(t)' <=> GivenUp(t)
    BY <1>1 DEF GivenUp
  <2>3. ASSUME NEW t \in Prompts, ToCome(t)' PROVE GivenUp(t)
    <3>1. CASE pending # t
      BY <1>2, <2>3, <3>1 DEF TurnInv, Overdue
    <3>2. CASE pending = t
      <4>1. r < t
        BY <1>1, <1>6, <2>3 DEF Past, ToCome, Prompts
      <4>2. GivenUp(r)
        BY <1>4, <2>1, <3>2, <4>1
      <4>3. abandoned \subseteq Nat /\ t \in Nat /\ r \in Nat
        BY <1>4 DEF Inv, Bounded, OwnBounded, Prompts
      <4> QED
        BY <4>1, <4>2, <4>3 DEF GivenUp
    <3> QED
      BY <3>1, <3>2
  <2>4. ASSUME NEW n \in Prompts, reply'[n] \notin {0, n} PROVE reply'[n] < n /\ GivenUp(reply'[n])
    <3>1. CASE n # pending
      BY <1>9, <2>4, <3>1 DEF TurnInv, Overdue
    <3>2. CASE n = pending
      BY <1>4, <1>8, <1>9, <2>1, <2>4, <3>2 DEF Prompts
    <3> QED
      BY <3>1, <3>2
  <2>5. ASSUME NEW n \in Prompts, NEW t, t = reply'[n], t \notin {0, n} PROVE t < n /\ GivenUp(t)'
    BY <2>2, <2>4, <2>5
  <2> QED
    BY <1>1, <2>2, <2>3, <2>5 DEF Overdue
<1>14. StopsInOrder' /\ Sent'
  BY <1>1, <1>2 DEF TurnInv, StopsInOrder, Sent
<1> QED
  BY <1>2, <1>10, <1>11, <1>12, <1>13, <1>14 DEF TurnInv

(* Frames are lost. *)
LEMMA LostFramesKeepTurns ==
    ASSUME Inv, TurnInv, FramesEnd \/ ReaderBreaks, UNCHANGED sessVars
    PROVE  TurnInv'
<1>1. UNCHANGED <<toCli, running, ppc, call, prompts, reply, answer, pending, abandoned>>
  BY DEF FramesEnd, ReaderBreaks, StopReading, ReadError, DropError, ownVars, cliVars, sessVars, portVars
<1>2. /\ ended' /\ Len(toHost') \in Nat
      /\ \A i \in 1..Len(toHost') :
            \/ i \in 1..Len(toHost) /\ toHost'[i] = toHost[i]
            \/ i = Len(toHost') /\ toHost'[i].kind = "error" /\ ~ended
  BY FramesCut
<1>3. \A i \in Said' : i + 0 \in Said /\ toHost'[i] = toHost[i + 0] /\ i \in Nat
  BY <1>2, PipeTypes DEF Said
<1>4. /\ \A i, j \in Said' : i < j => toHost'[i].turn <= toHost'[j].turn
      /\ \A i, j \in Said' : i < j /\ toHost'[i].kind = "result" => toHost'[i].turn < toHost'[j].turn
      /\ (\A n \in Prompts : Past(reply[n]))' => TurnsInOrder'
      /\ \A t : Past(t) => Past(t)'
      /\ Before(prompts) => Before(prompts)'
      /\ \A t : ToCome(t)' => ToCome(t)
      /\ Users' = Users /\ Stops' = Stops
  BY <1>1, <1>3, FewerFrames, 0 \in {0, 1}
<1>9. TurnsInOrder'
  BY <1>1, <1>4 DEF TurnInv, TurnsInOrder
<1>5. FramesInOrder'
  <2>1. FramesInOrder
    BY DEF TurnInv
  <2>2. ASSUME NEW i \in 1..Len(toHost'), NEW j \in 1..Len(toHost'), i < j PROVE i \in Said'
    <3>1. i \in 1..Len(toHost) /\ toHost'[i] = toHost[i] /\ i # Len(toHost')
      BY <1>2, <2>2
    <3>2. CASE j \in 1..Len(toHost)
      <4>1. i \in Said
        BY <2>1, <2>2, <3>1, <3>2 DEF FramesInOrder
      <4> QED
        BY <3>1, <4>1 DEF Said
    <3>3. CASE j \notin 1..Len(toHost)
      <4>1. ~ended
        BY <1>2, <3>3
      <4>2. i \in Said
        BY <2>1, <3>1, <4>1 DEF FramesInOrder
      <4> QED
        BY <3>1, <4>2 DEF Said
    <3> QED
      BY <3>2, <3>3
  <2> QED
    BY <1>2, <1>4, <2>2 DEF FramesInOrder
<1>6. SentOnce' /\ AnswersAreReplies'
  BY <1>1, <1>4 DEF TurnInv, SentOnce, Unsent, AnswersAreReplies
<1>7. Overdue'
  BY <1>1, <1>4 DEF TurnInv, Overdue, GivenUp
<1>8. StopsInOrder' /\ Sent'
  BY <1>1, <1>4 DEF TurnInv, StopsInOrder, Sent
<1> QED
  BY <1>5, <1>6, <1>7, <1>8, <1>9 DEF TurnInv
-----------------------------------------------------------------------------
(* The process reads a line that begins no turn ... *)
LEMMA OtherLineRead ==
    ASSUME Inv, TurnInv, CliGreet \/ CliStop \/ CliHears, UNCHANGED <<ownVars, portVars, sessVars>>
    PROVE  TurnInv'
<1>1. /\ ReadLine /\ Head(toCli).kind # "user"
      /\ UNCHANGED <<toHost, running, ended, ppc, call, prompts, reply, answer, pending, abandoned>>
  BY DEF CliGreet, CliStop, CliHears, Reads, ownVars, sessVars, portVars
<1>2. /\ \A i \in Users' : i + 1 \in Users /\ toCli'[i] = toCli[i + 1]
      /\ \A i \in Stops' : i + 1 \in Stops /\ toCli'[i] = toCli[i + 1]
      /\ \A i \in Users : i # 1 => i - 1 \in Users' /\ toCli'[i - 1] = toCli[i]
      /\ 1 \notin Users
      /\ \A i \in Users \cup Stops \cup Users' \cup Stops' : i \in Nat
  <2>1. Head(toCli) = toCli[1]
    BY <1>1, LineRead
  <2> QED
    BY <1>1, <2>1, LineRead DEF Users, Stops
<1>3. Said' = Said
  BY <1>1 DEF Said
<1>4. \A i \in Users' : \E j \in Users : toCli'[i] = toCli[j]
  BY <1>2
<1>5. FramesInOrder' /\ AnswersAreReplies'
  BY <1>1, <1>3 DEF TurnInv, FramesInOrder, AnswersAreReplies
<1>6. TurnsInOrder'
  <2>1. ASSUME NEW i \in Users', NEW j \in Users', i < j PROVE toCli'[i].for < toCli'[j].for
    <3>1. i + 1 \in Users /\ j + 1 \in Users /\ i + 1 < j + 1
      BY <1>2, <2>1
    <3> QED
      BY <1>2, <3>1 DEF TurnInv, TurnsInOrder
  <2>2. \A i \in Users' : /\ running < toCli'[i].for
                          /\ \A k \in Said : toHost[k].turn < toCli'[i].for
                          /\ \A n \in Prompts : reply[n] < toCli'[i].for
    BY <1>4, Zenon DEF TurnInv, TurnsInOrder, Past
  <2> QED
    BY <1>1, <1>3, <2>1, <2>2, Zenon DEF TurnInv, TurnsInOrder, Past
<1>7. SentOnce'
  <2>1. Before(prompts) => Before(prompts)'
    BY <1>1, <1>3, <1>4, Zenon DEF Before
  <2> QED
    BY <1>1, <2>1 DEF TurnInv, SentOnce, Unsent
<1>8. Overdue'
  <2>1. \A t : ToCome(t)' => ToCome(t)
    BY <1>1, <1>3, <1>4, Zenon DEF ToCome
  <2> QED
    BY <1>1, <2>1 DEF TurnInv, Overdue, GivenUp
<1>9. StopsInOrder'
  <2>1. ASSUME NEW i \in Stops'
        PROVE  /\ \A j \in Users' : j < i => toCli'[j].for <= toCli'[i].for
               /\ \/ \E j \in Users' : j < i /\ toCli'[j].for = toCli'[i].for
                  \/ running \in {0, toCli'[i].for} /\ \A j \in Users' : j > i
    <3>1. i + 1 \in Stops /\ toCli'[i] = toCli[i + 1] /\ i \in Nat
      BY <1>2
    <3>2. /\ \A j \in Users : j < i + 1 => toCli[j].for <= toCli'[i].for
          /\ \/ \E j \in Users : j < i + 1 /\ toCli[j].for = toCli'[i].for
             \/ running \in {0, toCli'[i].for} /\ \A j \in Users : j > i + 1
      BY <3>1 DEF TurnInv, StopsInOrder
    <3>3. \A j \in Users' : j < i => toCli'[j].for <= toCli'[i].for
      BY <1>2, <3>1, <3>2
    <3>4. CASE \E j \in Users : j < i + 1 /\ toCli[j].for = toCli'[i].for
      <4> PICK j \in Users : j < i + 1 /\ toCli[j].for = toCli'[i].for
        BY <3>4
      <4>1. j - 1 \in Users' /\ toCli'[j - 1] = toCli[j] /\ j - 1 < i
        BY <1>2, <3>1
      <4> QED
        BY <3>3, <4>1
    <3>5. CASE running \in {0, toCli'[i].for} /\ \A j \in Users : j > i + 1
      BY <1>2, <3>1, <3>3, <3>5
    <3> QED
      BY <3>2, <3>4, <3>5
  <2> QED
    BY <1>1, <2>1, Zenon DEF StopsInOrder
<1>10. Sent'
  BY <1>1, <1>2 DEF TurnInv, Sent
<1> QED
  BY <1>5, <1>6, <1>7, <1>8, <1>9, <1>10 DEF TurnInv

(* ... or one that does. *)
LEMMA UserLineRead ==
    ASSUME Inv, TurnInv, CliBegin, UNCHANGED <<ownVars, portVars, sessVars>>
    PROVE  TurnInv'
<1>1. /\ ReadLine /\ running = 0
      /\ UNCHANGED <<toHost, ended, ppc, call, prompts, reply, answer, pending, abandoned>>
  BY DEF CliBegin, Reads, ownVars, sessVars, portVars
<1>2. /\ \A i \in Users' : i + 1 \in Users /\ toCli'[i] = toCli[i + 1]
      /\ \A i \in Stops' : i + 1 \in Stops /\ toCli'[i] = toCli[i + 1]
      /\ \A i \in Users : i # 1 => i - 1 \in Users' /\ toCli'[i - 1] = toCli[i]
      /\ 1 \in Users /\ running' = toCli[1].for
      /\ \A i \in Users \cup Stops \cup Users' \cup Stops' : i \in Nat
      /\ \A i \in Users' \cup Stops' : i >= 1
      /\ prompts \in Nat /\ \A i \in Users : toCli[i].for \in 0..prompts
      /\ Users' \cap Stops' = {}
  <2>1. Head(toCli) = toCli[1] /\ 1 \in 1..Len(toCli)
    BY <1>1, LineRead
  <2> QED
    BY <1>1, <2>1, LineRead, PipeTypes DEF Users, Stops, CliBegin, Reads
<1>3. Said' = Said
  BY <1>1 DEF Said
<1>4. \A i \in Users' : \E j \in Users : toCli'[i] = toCli[j]
  BY <1>2
<1>5. FramesInOrder' /\ AnswersAreReplies'
  BY <1>1, <1>3 DEF TurnInv, FramesInOrder, AnswersAreReplies
<1>6. \A i \in Users' : running' < toCli'[i].for
  <2>1. ASSUME NEW i \in Users' PROVE running' < toCli'[i].for
    <3>1. i + 1 \in Users /\ 1 < i + 1 /\ toCli'[i] = toCli[i + 1]
      BY <1>2
    <3> QED
      BY <1>2, <3>1 DEF TurnInv, TurnsInOrder
  <2> QED
    BY <2>1
<1>7. TurnsInOrder'
  <2>1. ASSUME NEW i \in Users', NEW j \in Users', i < j PROVE toCli'[i].for < toCli'[j].for
    <3>1. i + 1 \in Users /\ j + 1 \in Users /\ i + 1 < j + 1
      BY <1>2, <2>1
    <3> QED
      BY <1>2, <3>1 DEF TurnInv, TurnsInOrder
  <2>2. \A i \in Users' : /\ \A k \in Said : toHost[k].turn < toCli'[i].for
                          /\ \A n \in Prompts : reply[n] < toCli'[i].for
    BY <1>4, Zenon DEF TurnInv, TurnsInOrder, Past
  <2>3. /\ \A k \in Said : toHost[k].turn < running'
        /\ \A n \in Prompts : reply[n] < running'
    BY <1>2 DEF TurnInv, TurnsInOrder, Past
  <2>4. \A k \in Said : toHost[k].turn \in Nat
    BY PipeTypes
  <2>5. \A k \in Said : toHost[k].turn <= running'
    BY <1>2, <2>3, <2>4
  <2>6. (\A n \in Prompts : Past(reply[n]))'
    BY <1>1, <1>3, <2>2, <2>3, Zenon DEF TurnInv, TurnsInOrder, Past
  <2> QED
    BY <1>1, <1>3, <1>6, <2>1, <2>2, <2>3, <2>5, <2>6, Zenon DEF TurnInv, TurnsInOrder
<1>8. SentOnce'
  <2>1. Before(prompts) => Before(prompts)'
    BY <1>1, <1>2, <1>3, <1>4, Zenon DEF Before
  <2> QED
    BY <1>1, <2>1 DEF TurnInv, SentOnce, Unsent
<1>9. Overdue'
  <2>1. ASSUME NEW t, ToCome(t)' PROVE ToCome(t)
    <3>1. running' = t => \E i \in Users : toCli[i].for = t
      BY <1>2
    <3>2. (\E i \in Users' : toCli'[i].for = t) => \E i \in Users : toCli[i].for = t
      BY <1>4, Zenon
    <3> QED
      BY <1>1, <1>3, <2>1, <3>1, <3>2, Zenon DEF ToCome
  <2> QED
    BY <1>1, <2>1 DEF TurnInv, Overdue, GivenUp
<1>10. StopsInOrder'
  <2>1. ASSUME NEW i \in Stops'
        PROVE  /\ \A j \in Users' : j < i => toCli'[j].for <= toCli'[i].for
               /\ \/ \E j \in Users' : j < i /\ toCli'[j].for = toCli'[i].for
                  \/ running' \in {0, toCli'[i].for} /\ \A j \in Users' : j > i
    <3>1. i + 1 \in Stops /\ toCli'[i] = toCli[i + 1] /\ i \in Nat /\ i >= 1
      BY <1>2
    <3>2. /\ \A j \in Users : j < i + 1 => toCli[j].for <= toCli'[i].for
          /\ \/ \E j \in Users : j < i + 1 /\ toCli[j].for = toCli'[i].for
             \/ running \in {0, toCli'[i].for} /\ \A j \in Users : j > i + 1
      BY <3>1 DEF TurnInv, StopsInOrder
    <3>3. \A j \in Users' : j < i => toCli'[j].for <= toCli'[i].for
      BY <1>2, <3>1, <3>2
    <3>4. PICK j \in Users : j < i + 1 /\ toCli[j].for = toCli'[i].for
      BY <1>2, <3>1, <3>2
    <3>5. CASE j # 1
      <4>1. j - 1 \in Users' /\ toCli'[j - 1] = toCli[j] /\ j - 1 < i
        BY <1>2, <3>1, <3>4, <3>5
      <4> QED
        BY <3>3, <3>4, <4>1
    <3>6. CASE j = 1
      <4>1. running' = toCli'[i].for
        BY <1>2, <3>4, <3>6
      <4>2. ASSUME NEW k \in Users', k < i PROVE FALSE
        <5>1. toCli'[k].for <= toCli'[i].for /\ running' < toCli'[k].for
          BY <1>6, <3>3, <4>2
        <5>2. toCli'[k].for \in Nat /\ running' \in Nat
          BY <1>2
        <5> QED
          BY <4>1, <5>1, <5>2
      <4>3. \A k \in Users' : k # i
        BY <1>2
      <4> QED
        BY <1>2, <3>1, <3>3, <4>1, <4>2, <4>3
    <3> QED
      BY <3>5, <3>6
  <2> QED
    BY <1>1, <2>1, Zenon DEF StopsInOrder
<1>11. Sent'
  <2>1. ASSUME NEW p \in Callers, ppc[p] \in {"wait", "giveUp"}
        PROVE  \/ \E j \in Users' : toCli'[j].for = call[p].n
               \/ running' \in {0, call[p].n} /\ Users' = {}
    <3>1. PICK j \in Users : toCli[j].for = call[p].n
      BY <1>2, <2>1 DEF TurnInv, Sent
    <3>2. call[p].n = prompts
      BY <2>1, Alone
    <3>3. CASE j # 1
      BY <1>2, <3>1, <3>3
    <3>4. CASE j = 1
      <4>1. ASSUME NEW i \in Users' PROVE FALSE
        <5>1. running' = prompts /\ running' < toCli'[i].for
          BY <1>2, <1>6, <3>1, <3>2, <3>4
        <5>2. toCli'[i].for \in 0..prompts
          BY <1>2
        <5> QED
          BY <1>2, <5>1, <5>2
      <4> QED
        BY <1>2, <3>1, <3>4, <4>1
    <3> QED
      BY <3>3, <3>4
  <2> QED
    BY <1>1, <2>1 DEF Sent
<1> QED
  BY <1>5, <1>7, <1>8, <1>9, <1>10, <1>11 DEF TurnInv

(* The process writes a frame. *)
LEMMA FrameWritten ==
    ASSUME Inv, TurnInv, CliSays \/ CliAsks \/ CliFinishes, UNCHANGED <<ownVars, portVars, sessVars>>
    PROVE  TurnInv'
<1>1. /\ UNCHANGED <<toCli, ended, ppc, call, prompts, reply, answer, pending, abandoned>>
      /\ running # 0 /\ running' \in {0, running}
      /\ \E kind \in {"text", "permission", "service", "unknown", "result"} :
            /\ SendFrame([kind |-> kind, turn |-> running])
            /\ kind = "result" => running' = 0
  BY DEF CliSays, CliAsks, Request, CliFinishes, Free, ownVars, sessVars, portVars, Inv, Bounded, CliBounded
<1>2. PICK kind \in {"text", "permission", "service", "unknown", "result"} :
          /\ SendFrame([kind |-> kind, turn |-> running])
          /\ kind = "result" => running' = 0
          /\ kind # "result" => running' = running
  BY <1>1 DEF CliSays, CliAsks, Request, CliFinishes
<1>3. Users' = Users /\ Stops' = Stops
  BY <1>1 DEF Users, Stops
<1>4. running \in Nat /\ \A k \in Said : toHost[k].turn \in Nat /\ k \in Nat
  BY PipeTypes DEF Said
<1>5. PICK frame \in {[kind |-> kind, turn |-> running]} : toHost' = IF ended THEN toHost ELSE Append(toHost, frame)
  BY <1>2 DEF SendFrame
<1>6. frame.kind = kind /\ frame.turn = running /\ frame.kind # "error"
  BY <1>2, <1>5
<1> DEFINE last == Len(toHost) + 1
<1>7. \/ ended /\ toHost' = toHost /\ Said' = Said
      \/ /\ ~ended /\ Said' = Said \cup {last} /\ toHost'[last] = frame
         /\ Said = 1..Len(toHost) /\ 1..Len(toHost') = 1..last
         /\ \A k \in Said : toHost'[k] = toHost[k]
  <2>1. CASE ended
    <3>1. toHost' = toHost
      BY <1>5, <2>1
    <3> QED
      BY <2>1, <3>1 DEF Said
  <2>2. CASE ~ended
    <3>1. toHost' = Append(toHost, frame)
      BY <1>5, <2>2
    <3>2. /\ Said' = Said \cup {i \in {last} : frame.kind # "error"} /\ toHost'[last] = frame
          /\ Len(toHost') = last
          /\ \A k \in 1..Len(toHost) : toHost'[k] = toHost[k]
      BY <3>1, FrameAdded
    <3>3. Said = 1..Len(toHost)
      BY <2>2 DEF TurnInv, FramesInOrder, Said
    <3> QED
      BY <1>6, <2>2, <3>2, <3>3
  <2> QED
    BY <2>1, <2>2
<1>8. /\ last \in Nat /\ 1..last = 1..Len(toHost) \cup {last}
      /\ \A k \in Said : k < last
  BY PipeTypes DEF Said
<1> HIDE DEF last
<1>9. \A k \in Said' : (k \in Said /\ toHost'[k] = toHost[k]) \/ (k = last /\ toHost'[k] = frame)
  BY <1>7
<1>10. \A k \in Said : toHost[k].turn <= running /\ (toHost[k].kind = "result" => toHost[k].turn < running)
  BY <1>1 DEF TurnInv, TurnsInOrder
<1>11. FramesInOrder'
  <2>1. CASE ended
    BY <1>1, <1>7, <2>1 DEF TurnInv, FramesInOrder
  <2>2. CASE ~ended
    <3>1. \A i \in 1..Len(toHost') : i \in Said'
      BY <1>7, <1>8, <2>2
    <3>2. ASSUME NEW i \in Said', NEW j \in Said', i < j
          PROVE  /\ toHost'[i].turn <= toHost'[j].turn
                 /\ toHost'[i].kind = "result" => toHost'[i].turn < toHost'[j].turn
      <4>1. i \in Said /\ toHost'[i] = toHost[i]
        BY <1>7, <1>8, <2>2, <3>2
      <4>2. CASE j \in Said
        BY <1>9, <1>8, <3>2, <4>1, <4>2 DEF TurnInv, FramesInOrder
      <4>3. CASE j \notin Said
        BY <1>6, <1>9, <1>10, <4>1, <4>3
      <4> QED
        BY <4>2, <4>3
    <3> QED
      BY <1>1, <2>2, <3>1, <3>2 DEF FramesInOrder
  <2> QED
    BY <2>1, <2>2
<1>12. TurnsInOrder'
  <2>1. \A k \in Said' : running' # 0 => /\ toHost'[k].turn <= running'
                                         /\ toHost'[k].kind = "result" => toHost'[k].turn < running'
    BY <1>1, <1>2, <1>4, <1>6, <1>9, <1>10
  <2>2. \A i \in Users : /\ running < toCli[i].for
                         /\ \A k \in Said' : toHost'[k].turn < toCli[i].for
    BY <1>6, <1>9 DEF TurnInv, TurnsInOrder
  <2>3. \A i \in Users : running' < toCli[i].for
    BY <1>1, <1>4, <2>2, PipeTypes DEF Users
  <2>4. ASSUME NEW n \in Prompts, NEW t, t = reply[n] PROVE Past(t)'
    <3>1. Past(t) /\ t < running
      BY <1>1, <2>4 DEF TurnInv, TurnsInOrder, Past
    <3>2. \A k \in Said' : t < toHost'[k].turn
      BY <1>6, <1>9, <3>1 DEF Past
    <3>3. running' # 0 => t < running'
      BY <1>1, <3>1
    <3> QED
      BY <1>1, <1>3, <3>1, <3>2, <3>3 DEF Past
  <2>5. (\A n \in Prompts : Past(reply[n]))'
    BY <1>1, <2>4
  <2> QED
    BY <1>1, <1>3, <2>1, <2>2, <2>3, <2>5 DEF TurnInv, TurnsInOrder
<1>13. SentOnce'
  <2>1. ASSUME Before(prompts) PROVE Before(prompts)'
    <3>1. \A k \in Said' : toHost'[k].turn < prompts
      BY <1>6, <1>9, <2>1 DEF Before
    <3>2. running' < prompts
      BY <1>1, <1>4, <2>1, PipeTypes DEF Before
    <3> QED
      BY <1>1, <1>3, <2>1, <3>1, <3>2 DEF Before
  <2> QED
    BY <1>1, <2>1 DEF TurnInv, SentOnce, Unsent
<1>14. Overdue'
  <2>1. ASSUME NEW t \in Prompts, ToCome(t)' PROVE ToCome(t)
    <3>1. t # 0
      BY DEF Prompts
    <3>2. CASE \E k \in Said' : toHost'[k].kind = "result" /\ toHost'[k].turn = t
      BY <1>6, <1>9, <3>2 DEF ToCome
    <3>3. CASE running' = t
      BY <1>1, <3>1, <3>3 DEF ToCome
    <3>4. CASE \E i \in Users' : toCli'[i].for = t
      BY <1>1, <1>3, <3>4 DEF ToCome
    <3> QED
      BY <2>1, <3>2, <3>3, <3>4 DEF ToCome
  <2> QED
    BY <1>1, <2>1 DEF TurnInv, Overdue, GivenUp
<1>15. AnswersAreReplies'
  BY <1>1 DEF TurnInv, AnswersAreReplies
<1>16. StopsInOrder' /\ Sent'
  <2>1. \A m : running \in {0, m} => running' \in {0, m}
    BY <1>1
  <2> QED
    BY <1>1, <1>3, <2>1 DEF TurnInv, StopsInOrder, Sent
<1> QED
  BY <1>11, <1>12, <1>13, <1>14, <1>15, <1>16 DEF TurnInv
-----------------------------------------------------------------------------
LEMMA TurnStep ==
    ASSUME Inv, TurnInv, [Next]_vars
    PROVE  TurnInv'
<1>1. CASE SessionStep /\ UNCHANGED convVars
  BY <1>1, SessionKeepsTurns
<1>2. CASE ConvStep /\ UNCHANGED sessVars
  <2>1. CASE \E p \in Callers : PromptSteps(p)
    BY <1>2, <2>1, QuietPromptKeepsTurns, PromptWritesInOrder, GivesUpInOrder DEF PromptSteps
  <2>2. CASE ReadEvent \/ ReadFailure \/ ReadRequest
    BY <1>2, <2>2, OtherFrameTaken
  <2>3. CASE ReadResult
    BY <1>2, <2>3, ResultTaken
  <2>4. CASE Respond \/ HostInterrupts
    BY <1>2, <2>4, PlainLineKeepsTurns
  <2>5. CASE FramesEnd \/ ReaderBreaks
    BY <1>2, <2>5, LostFramesKeepTurns
  <2>6. CASE CliStep /\ UNCHANGED <<ownVars, portVars>>
    BY <1>2, <2>6, OtherLineRead, UserLineRead, FrameWritten DEF CliStep, CliReads
  <2>7. CASE \/ Decide \/ ReadEnds \/ CloseSteps \/ CancelOpen \/ ProcessDies
             \/ \E p \in Callers : CancelPrompt(p)
    <3>1. UNCHANGED turnVars
      BY <1>2, <2>7 DEF Decide, ReadEnds, CloseSteps, CloseMarks, CloseCancels, CloseTransport,
         CloseReturns, CancelOpen, ProcessDies, CancelPrompt, ClosePipe, Cut, Die, turnVars,
         duplexVars, cliVars, ownVars, portVars, sessVars
    <3> QED
      BY <3>1, NoTurnMoves
  <2> QED
    BY <1>2, <2>1, <2>2, <2>3, <2>4, <2>5, <2>6, <2>7 DEF ConvStep, ReaderSteps, Environment
<1>3. CASE UNCHANGED vars
  <2>1. UNCHANGED turnVars
    BY <1>3 DEF vars, turnVars, sessVars, portVars, convVars, ownVars, duplexVars, cliVars
  <2> QED
    BY <2>1, NoTurnMoves
<1> QED
  BY <1>1, <1>2, <1>3 DEF Next

LEMMA TurnInvariant == Spec => [](Inv /\ TurnInv)
<1>1. Inv /\ TurnInv /\ [Next]_vars => (Inv /\ TurnInv)'
  BY ClaudeStep, TurnStep
<1>2. Init => Inv /\ TurnInv
  BY InitConv, InitTurns
<1> QED
  BY <1>1, <1>2, PTL DEF Spec

(* ResultUsedOnce: every result is the outcome of at most one Prompt,      *)
(* whatever is cancelled, closed, killed or lost.                          *)
THEOREM NoTurnServesTwo == Spec => []ResultUsedOnce
<1>1. Inv /\ TurnInv => ResultUsedOnce
  <2> SUFFICES ASSUME TurnInv, NEW m \in Prompts, NEW n \in Prompts,
                      answer[m].turn # 0, answer[m].turn = answer[n].turn
               PROVE  m = n
    BY DEF ResultUsedOnce
  <2> QED
    BY DEF TurnInv, AnswersAreReplies
<1> QED
  BY <1>1, TurnInvariant, PTL

(* MatchesUntilAbandoned: the Turn a Prompt returns is its own, unless an  *)
(* earlier prompt was sent and given up, and then it is no older than that *)
(* one's.                                                                  *)
THEOREM OwnTurnUntilAbandoned == Spec => []MatchesUntilAbandoned
<1>1. Inv /\ TurnInv => MatchesUntilAbandoned
  <2> SUFFICES ASSUME Inv, TurnInv, NEW n \in Prompts, answer[n].turn \notin {0, n}
               PROVE  \E a \in abandoned : a < n /\ a <= answer[n].turn
    BY DEF MatchesUntilAbandoned
  <2>1. answer[n].turn = reply[n]
    BY DEF TurnInv, AnswersAreReplies
  <2>2. reply[n] < n /\ GivenUp(reply[n])
    BY <2>1 DEF TurnInv, Overdue
  <2>3. reply[n] \in Nat /\ n \in Nat /\ abandoned \subseteq Nat
    BY Types DEF Prompts, Inv, Bounded, OwnBounded
  <2> QED
    BY <2>1, <2>2, <2>3 DEF GivenUp
<1> QED
  BY <1>1, TurnInvariant, PTL

(* NoFriendlyFire: the interrupt that a Prompt writes when it gives up can *)
(* stop no turn of a later prompt, however late the process reads it.      *)
THEOREM InterruptsStopTheirOwn == Spec => []NoFriendlyFire
<1>1. Inv /\ TurnInv => NoFriendlyFire
  <2> SUFFICES ASSUME Inv, TurnInv, toCli # <<>>, Head(toCli).kind = "interrupt",
                      Head(toCli).for # 0, running # 0
               PROVE  running = Head(toCli).for
    BY DEF NoFriendlyFire
  <2>1. 1 \in 1..Len(toCli) /\ Head(toCli) = toCli[1]
    BY PipeTypes, HeadTailProperties, EmptySeq
  <2>2. 1 \in Stops /\ \A j \in Users : ~(j < 1)
    BY <2>1 DEF Stops, Users
  <2> QED
    BY <2>1, <2>2 DEF TurnInv, StopsInOrder
<1> QED
  BY <1>1, TurnInvariant, PTL
-----------------------------------------------------------------------------
(* What a Prompt returns with its Turn is all of its text, for as long as  *)
(* no prompt was given up: everything on its way is then of the prompt     *)
(* that is pending.                                                        *)
Texts   == {k \in 1..Len(toHost) : toHost[k].kind = "text"}
Telling == emit[Reader].st # "quiet" /\ emit[Reader].ev.kind = "text"
Asked   == IF emit[Reader].st = "asked" /\ emit[Reader].ev.kind = "text" THEN 1 ELSE 0
Complete == \E k \in Said : toHost[k].kind = "result"

(* The read loop tells no end of a turn and a caller no text; the ends of  *)
(* turns that were told, or are being told, are of prompts that are over.  *)
Over(t) == t <= prompts /\ (inFlight => t < prompts)
EventsInOrder ==
    /\ emit[Reader].ev.kind # "turn"
    /\ \A p \in Callers : emit[p].ev.kind # "text" /\ Over(emit[p].ev.turn)
    /\ \A l \in Listeners : Over(heard[l].turn)

OfThePending ==
    /\ \A k \in Said : toHost[k].turn = pending
    /\ Telling => emit[Reader].ev.turn = pending /\ pending # 0

(* Of the prompt in flight, what its turn said so far was added to the     *)
(* text, or is about to be, or waits in the pipe; unless the reader has    *)
(* stopped before the result, which then never comes.                      *)
Accounted ==
    /\ \A n \in Prompts : n > prompts => said[n] = 0
    /\ \A p \in Callers : Unsent(p) => ~Telling /\ text = <<>> /\ said[prompts] = 0
    /\ inFlight => \A i \in DOMAIN text : text[i] = prompts
    /\ pending # 0 /\ (ended => Complete) => said[pending] = Len(text) + Asked + Cardinality(Texts)
    /\ \A p \in Callers : call[p].st # "none" /\ reply[prompts] # 0 => said[prompts] = Len(text)

TextInv ==
    /\ EventsInOrder
    /\ abandoned = {} => OfThePending /\ Accounted
    /\ TextComplete
-----------------------------------------------------------------------------
LEMMA TextTypes ==
    ASSUME Inv
    PROVE  /\ emit \in [Goroutines -> EmitState] /\ heard \in [Listeners -> [text : Turns, turn : Turns]]
           /\ text \in Seq(Turns) /\ inFlight \in BOOLEAN
           /\ answer \in [Prompts -> [turn : Turns, text : Seq(Turns)]]
           /\ said \in [Prompts -> 0..MaxSaid] /\ MaxSaid \in Nat
           /\ Reader \notin Callers /\ Goroutines = Callers \cup {Reader}
           /\ \A n \in Prompts : n \in Nat /\ n # 0
           /\ abandoned \subseteq Prompts
<1>1. /\ emit \in [Goroutines -> EmitState] /\ heard \in [Listeners -> [text : Turns, turn : Turns]]
      /\ text \in Seq(Turns) /\ inFlight \in BOOLEAN
  BY DEF Inv, SessionInv, SessionTypeOK, PortTypeOK
<1>2. answer \in [Prompts -> [turn : Turns, text : Seq(Turns)]]
  BY DEF Inv, SessionInv, SessionTypeOK
<1>3. said \in [Prompts -> 0..MaxSaid] /\ MaxSaid \in Nat
  BY CliAssumption, SameTurns DEF Inv, Bounded, CliBounded, Prompts
<1>4. Reader \notin Callers /\ Goroutines = Callers \cup {Reader}
  BY PortAssumption DEF Goroutines
<1>5. (\A n \in Prompts : n \in Nat /\ n # 0) /\ abandoned \subseteq Prompts
  BY PortAssumption DEF Inv, Bounded, OwnBounded, Prompts
<1> QED
  BY <1>1, <1>2, <1>3, <1>4, <1>5

(* The texts in the pipe are finitely many, and taking the first frame     *)
(* moves the others up. *)
LEMMA TextsFinite ==
    ASSUME Inv
    PROVE  IsFiniteSet(Texts) /\ Cardinality(Texts) \in Nat
<1>1. IsFiniteSet(1..Len(toHost))
  BY PipeTypes, FS_Interval
<1>2. Texts \in SUBSET (1..Len(toHost))
  BY DEF Texts
<1>3. IsFiniteSet(Texts)
  BY <1>1, <1>2, FS_Subset
<1> QED
  BY <1>3, FS_CardinalityType

LEMMA MovedUp ==
    ASSUME NEW S, NEW T, IsFiniteSet(S), S \subseteq Int,
           \A k \in T : k \in Int /\ k + 1 \in S,
           \A k \in S : k - 1 \in T
    PROVE  Cardinality(T) = Cardinality(S)
<1> DEFINE f == [k \in S |-> k - 1]
<1>1. f \in [S -> T]
  OBVIOUS
<1>2. \A a, b \in S : f[a] = f[b] => a = b
  OBVIOUS
<1>3. \A k \in T : k + 1 \in S /\ f[k + 1] = k
  OBVIOUS
<1>4. f \in Bijection(S, T)
  BY <1>1, <1>2, <1>3 DEF Bijection, Injection, Surjection, IsInjective
<1>5. ExistsBijection(S, T)
  BY <1>4 DEF ExistsBijection
<1> QED
  BY <1>5, FS_Bijection

LEMMA TextsTaken ==
    ASSUME Inv, TakeFrame
    PROVE  /\ Cardinality(Texts') = Cardinality(Texts) - (IF Head(toHost).kind = "text" THEN 1 ELSE 0)
           /\ Complete' => Complete
<1>1. /\ 1 \in 1..Len(toHost) /\ Head(toHost) = toHost[1] /\ Len(toHost) \in Nat
      /\ Len(toHost') = Len(toHost) - 1
      /\ \A i \in 1..Len(toHost') : i + 1 \in 1..Len(toHost) /\ toHost'[i] = toHost[i + 1]
      /\ \A i \in Said' : i + 1 \in Said /\ toHost'[i] = toHost[i + 1]
  BY FrameTaken, PipeTypes
<1> DEFINE S == Texts \ {1}
<1>2. IsFiniteSet(S) /\ Cardinality(S) = IF 1 \in Texts THEN Cardinality(Texts) - 1 ELSE Cardinality(Texts)
  BY TextsFinite, FS_RemoveElement
<1>3. 1 \in Texts <=> Head(toHost).kind = "text"
  BY <1>1 DEF Texts
<1>4. S \subseteq Int
  BY DEF Texts
<1>5. \A k \in Texts' : k \in Int /\ k + 1 \in S
  BY <1>1 DEF Texts
<1>6. \A k \in S : k - 1 \in Texts'
  BY <1>1 DEF Texts
<1>7. Cardinality(Texts') = Cardinality(S)
  <2> HIDE DEF S
  <2> QED
    BY <1>2, <1>4, <1>5, <1>6, MovedUp
<1>8. Complete' => Complete
  BY <1>1 DEF Complete
<1> QED
  BY <1>2, <1>3, <1>7, <1>8, TextsFinite

(* Nothing was given up: what is on its way is of the pending prompt, and  *)
(* a reply is the prompt's own. *)
LEMMA NoneGivenUp ==
    ASSUME Inv, TurnInv, abandoned = {}
    PROVE  /\ \A t \in Prompts : ToCome(t) => pending = t
           /\ \A n \in Prompts : reply[n] \in {0, n}
  BY DEF TurnInv, Overdue, GivenUp

LEMMA PendingInFlight ==
    ASSUME Inv
    PROVE  /\ pending # 0 => pending = prompts /\ prompts \in Prompts /\ reply[prompts] = 0 /\ inFlight
           /\ inFlight => prompts \in Prompts
           /\ \A p \in Callers : call[p].st # "none" => inFlight /\ call[p].n = prompts
           /\ ~inFlight => \A p \in Callers : call[p].st = "none" /\ ppc[p] = "out"
           /\ \A p \in Callers : call[p].st # "none" /\ ppc[p] = "out" => pending = 0
<1>1. \A p \in Callers : call[p].st # "none" => inFlight /\ call[p].n = prompts /\ prompts \in Prompts
  BY Alone DEF Inv, SessionInv, OneInFlight
<1>2. pending # 0 => pending = prompts /\ prompts \in Prompts /\ reply[prompts] = 0
  BY PendingIsLast DEF Inv, PendingHasWaiter
<1>3. inFlight => \E p \in Callers : call[p].st # "none"
  BY DEF Inv, SessionInv, OneInFlight
<1>4. pending # 0 => \E p \in Callers : ppc[p] \in {"init", "user", "wait"} /\ call[p].st # "none"
  BY DEF Inv, PendingHasWaiter, InPrompt
<1>5. ~inFlight => \A p \in Callers : call[p].st = "none" /\ ppc[p] = "out"
  BY <1>1 DEF Inv, InPrompt
<1>6. ASSUME NEW p \in Callers, call[p].st # "none", ppc[p] = "out" PROVE pending = 0
  BY <1>4, <1>6, Alone
<1> QED
  BY <1>1, <1>2, <1>3, <1>4, <1>5, <1>6
-----------------------------------------------------------------------------
LEMMA InitTexts == Init => TextInv
<1> SUFFICES ASSUME Init PROVE TextInv
  OBVIOUS
<1>1. /\ emit = [g \in Goroutines |-> Quiet] /\ heard = [l \in Listeners |-> Silence]
      /\ toHost = <<>> /\ pending = 0 /\ prompts = 0 /\ inFlight = FALSE
      /\ said = [n \in 1..LastTurn |-> 0] /\ call = [p \in Callers |-> NoCall]
      /\ answer = [n \in Prompts |-> NoAnswer]
  BY DEF Init, SessionInit, PortInit, ConvInit, DuplexInit, CliInit
<1>2. emit[Reader] = Quiet /\ \A p \in Callers : emit[p] = Quiet
  BY <1>1 DEF Goroutines
<1>3. EventsInOrder
  <2>1. /\ emit[Reader].ev = [kind |-> "other", turn |-> 0]
        /\ \A p \in Callers : emit[p].ev = [kind |-> "other", turn |-> 0]
    BY <1>2 DEF Quiet
  <2>2. \A l \in Listeners : heard[l].turn = 0
    BY <1>1 DEF Silence
  <2>3. Over(0)
    BY <1>1 DEF Over
  <2> QED
    BY <2>1, <2>2, <2>3 DEF EventsInOrder
<1>4. OfThePending
  BY <1>1, <1>2 DEF OfThePending, Said, Telling, Quiet
<1>5. Accounted
  BY <1>1, SameTurns DEF Accounted, Unsent, NoCall, Prompts
<1>6. TextComplete
  BY <1>1 DEF TextComplete, NoAnswer
<1> QED
  BY <1>3, <1>4, <1>5, <1>6 DEF TextInv

textVars == <<toHost, ended, emit, heard, inFlight, prompts, said, text, reply, answer>>

(* A Prompt that goes on, or leaves, without giving up. *)
LEMMA NoTextMoves ==
    ASSUME TextInv, UNCHANGED textVars, abandoned \subseteq abandoned', pending' = pending,
           \A p \in Callers : /\ Unsent(p)' => Unsent(p)
                              /\ call'[p].st # "none" => call[p].st # "none"
    PROVE  TextInv'
<1> USE DEF textVars
<1>1. UNCHANGED <<Said, Texts, Telling, Asked, Complete>>
  BY DEF Said, Texts, Telling, Asked, Complete
<1>2. EventsInOrder'
  BY DEF TextInv, EventsInOrder, Over
<1>3. abandoned' = {} => abandoned = {}
  OBVIOUS
<1>4. OfThePending => OfThePending'
  BY <1>1 DEF OfThePending
<1>5. Accounted => Accounted'
  BY <1>1 DEF Accounted
<1>6. TextComplete'
  BY <1>3 DEF TextInv, TextComplete
<1> QED
  BY <1>2, <1>3, <1>4, <1>5, <1>6 DEF TextInv

(* A prompt is accepted: nothing of an earlier one is left to be told. *)
LEMMA EnterKeepsTexts ==
    ASSUME Inv, TextInv, NEW p \in Callers, PromptEnter(p), UNCHANGED convVars
    PROVE  TextInv'
<1>1. /\ ~inFlight /\ prompts' = prompts + 1 /\ text' = <<>> /\ inFlight' = TRUE
      /\ UNCHANGED <<toHost, ended, emit, heard, said, reply, answer, abandoned, pending>>
  BY DEF PromptEnter, Accept, convVars, ownVars, duplexVars, cliVars
<1>2. pending = 0 /\ prompts \in Nat /\ prompts + 1 \in Prompts
  BY PendingInFlight, <1>1, Types DEF PromptEnter, Accept, Prompts
<1>3. UNCHANGED <<Said, Texts, Telling, Asked, Complete>>
  BY <1>1 DEF Said, Texts, Telling, Asked, Complete
<1>4. EventsInOrder'
  <2>1. ASSUME NEW t \in Turns, Over(t) PROVE Over(t)'
    BY <1>1, <1>2, <2>1, Types DEF Over, Turns
  <2>2. /\ \A q \in Callers : emit[q].ev.turn \in Turns
        /\ \A l \in Listeners : heard[l].turn \in Turns
    BY TextTypes DEF EmitState, Event
  <2> QED
    BY <1>1, <2>1, <2>2 DEF TextInv, EventsInOrder
<1>5. ASSUME abandoned = {} PROVE OfThePending' /\ Accounted'
  <2>1. OfThePending /\ Accounted
    BY <1>5 DEF TextInv
  <2>2. OfThePending' /\ ~Telling
    BY <1>1, <1>2, <1>3, <2>1 DEF OfThePending
  <2>3. said[prompts + 1] = 0 /\ \A n \in Prompts : n > prompts + 1 => said[n] = 0
    BY <1>2, <2>1, TextTypes DEF Accounted
  <2>4. reply[prompts + 1] = 0
    BY <1>2 DEF Inv, Channels
  <2>5. DOMAIN text' = {}
    BY <1>1
  <2> QED
    BY <1>1, <1>2, <1>3, <2>2, <2>3, <2>4, <2>5 DEF Accounted
<1>6. TextComplete'
  BY <1>1 DEF TextInv, TextComplete
<1> QED
  BY <1>1, <1>4, <1>5, <1>6 DEF TextInv

(* Prompt returns: with its Turn goes the text. *)
LEMMA LeaveKeepsTexts ==
    ASSUME Inv, TurnInv, TextInv, NEW p \in Callers, PromptLeave(p), UNCHANGED convVars
    PROVE  TextInv'
<1>1. /\ inFlight' = FALSE /\ call[p].st = "done" /\ call' = [call EXCEPT ![p] = NoCall]
      /\ UNCHANGED <<toHost, ended, text, prompts, heard, said, reply, abandoned, pending, ppc>>
  BY DEF PromptLeave, convVars, ownVars, duplexVars, cliVars
<1>2. /\ ppc[p] = "out" /\ pending = 0 /\ call[p].n = prompts /\ prompts \in Prompts /\ inFlight
      /\ \A q \in Callers \ {p} : call[q].st = "none"
      /\ prompts \in Nat /\ Reader # p /\ Reader \in Goroutines /\ p \in Goroutines
  BY <1>1, PendingInFlight, Alone, TextTypes DEF Inv, InPrompt
<1>3. \A q \in Callers : call'[q].st = "none"
  BY <1>1, <1>2, Types DEF NoCall
<1>4. \/ UNCHANGED <<answer, emit>>
      \/ /\ call[p].err = "nil"
         /\ answer' = [answer EXCEPT ![prompts] = [turn |-> call[p].turn, text |-> text]]
         /\ emit' = [emit EXCEPT ![p] = [st |-> "asked", ev |-> [kind |-> "turn", turn |-> prompts], todo |-> {}]]
  BY <1>2 DEF PromptLeave, AskEmit
<1>5. /\ emit'[Reader] = emit[Reader]
      /\ \A q \in Callers : \/ emit'[q] = emit[q]
                            \/ emit'[q].ev = [kind |-> "turn", turn |-> prompts]
  BY <1>2, <1>4, TextTypes
<1>6. EventsInOrder'
  <2>1. \A t : Over(t) => Over(t)'
    BY <1>1 DEF Over
  <2>2. Over(prompts)'
    BY <1>1, <1>2 DEF Over
  <2>3. \A q \in Callers : emit'[q].ev.kind # "text" /\ Over(emit[q].ev.turn)'
    <3>1. ASSUME NEW q \in Callers, NEW t, t = emit'[q].ev.turn PROVE emit'[q].ev.kind # "text" /\ Over(t)'
      <4>1. CASE emit'[q] = emit[q]
        BY <2>1, <3>1, <4>1 DEF TextInv, EventsInOrder
      <4>2. CASE emit'[q].ev = [kind |-> "turn", turn |-> prompts]
        BY <1>1, <2>2, <3>1, <4>2
      <4> QED
        BY <1>5, <4>1, <4>2
    <3> QED
      BY <3>1
  <2> QED
    BY <1>1, <1>5, <2>1, <2>3 DEF TextInv, EventsInOrder
<1>7. ASSUME abandoned = {} PROVE OfThePending' /\ Accounted' /\ TextComplete'
  <2>1. OfThePending /\ Accounted /\ TextComplete
    BY <1>7 DEF TextInv
  <2>2. UNCHANGED <<Said, Telling>>
    BY <1>1, <1>5 DEF Said, Telling
  <2>3. OfThePending'
    BY <1>1, <1>5, <2>1, <2>2 DEF OfThePending
  <2>4. Accounted'
    BY <1>1, <1>2, <1>3, <2>1 DEF Accounted, Unsent
  <2>5. call[p].err = "nil" => Len(text) = said[prompts] /\ \A i \in DOMAIN text : text[i] = prompts
    <3>1. call[p].err = "nil" => reply[prompts] # 0
      BY <1>1, <1>2 DEF TurnInv, AnswersAreReplies
    <3> QED
      BY <1>1, <1>2, <2>1, <3>1 DEF Accounted
  <2>6. ASSUME NEW n \in Prompts, answer'[n].turn # 0
        PROVE  Len(answer'[n].text) = said[n] /\ \A i \in DOMAIN answer'[n].text : answer'[n].text[i] = n
    <3>1. \/ answer'[n] = answer[n]
          \/ n = prompts /\ call[p].err = "nil" /\ answer'[n] = [turn |-> call[p].turn, text |-> text]
      BY <1>2, <1>4, TextTypes
    <3>2. CASE answer'[n] = answer[n]
      BY <1>7, <2>1, <2>6, <3>2 DEF TextComplete
    <3>3. CASE n = prompts /\ call[p].err = "nil" /\ answer'[n] = [turn |-> call[p].turn, text |-> text]
      BY <2>5, <3>3
    <3> QED
      BY <3>1, <3>2, <3>3
  <2> QED
    BY <1>1, <2>3, <2>4, <2>6 DEF TextComplete
<1>8. TextComplete'
  BY <1>1, <1>7 DEF TextComplete
<1> QED
  BY <1>1, <1>6, <1>7, <1>8 DEF TextInv

(* Emit: the text of the event is added before anybody is told. *)
LEMMA EmitKeepsTexts ==
    ASSUME Inv, TextInv, NEW g \in Goroutines, UNCHANGED convVars,
           EmitLock(g) \/ EmitReturn(g) \/ \E l \in Listeners : Tell(g, l)
    PROVE  TextInv'
<1>1. UNCHANGED <<toHost, ended, inFlight, prompts, said, reply, answer, abandoned, pending, ppc, call>>
  BY DEF EmitLock, EmitReturn, Tell, convVars, ownVars, duplexVars, cliVars
<1>2. UNCHANGED <<Said, Texts, Complete>> /\ \A p \in Callers : Unsent(p)' <=> Unsent(p)
  BY <1>1 DEF Said, Texts, Complete, Unsent
<1>3. \A t : Over(t) => Over(t)'
  BY <1>1 DEF Over
<1>4. /\ \A h \in Goroutines \ {g} : emit'[h] = emit[h]
      /\ emit[g].st # "quiet"
      /\ \/ emit'[g].ev = emit[g].ev
         \/ emit'[g].st = "quiet" /\ emit'[g].ev = [kind |-> "other", turn |-> 0]
      /\ ~EmitLock(g) => emit[g].st # "asked" /\ emit'[g].st # "asked"
  <2>1. emit \in [Goroutines -> EmitState] /\ emit[g] \in EmitState
    BY TextTypes
  <2>2. CASE EmitLock(g)
    BY <2>1, <2>2 DEF EmitLock, EmitState
  <2>3. CASE EmitReturn(g)
    BY <2>1, <2>3 DEF EmitReturn, Quiet
  <2>4. CASE \E l \in Listeners : Tell(g, l)
    BY <2>1, <2>4 DEF Tell, EmitState
  <2> QED
    BY <2>2, <2>3, <2>4
<1>8. ASSUME NEW m \in Listeners
      PROVE  \/ heard'[m].turn = heard[m].turn
             \/ emit[g].ev.kind = "turn" /\ heard'[m].turn = emit[g].ev.turn
  <2>1. CASE heard' = heard
    BY <2>1
  <2>2. CASE heard' # heard
    <3>1. PICK l \in Listeners : Tell(g, l)
      BY <2>2 DEF EmitLock, EmitReturn
    <3>2. heard' = [heard EXCEPT ![l] =
                       [text |-> IF emit[g].ev.kind = "text" THEN emit[g].ev.turn ELSE @.text,
                        turn |-> IF emit[g].ev.kind = "turn" THEN emit[g].ev.turn ELSE @.turn]]
      BY <3>1 DEF Tell
    <3>3. heard \in [Listeners -> [text : Turns, turn : Turns]]
      BY TextTypes
    <3> QED
      BY <3>2, <3>3
  <2> QED
    BY <2>1, <2>2
<1>5. EventsInOrder'
  <2>1. Over(0)'
    BY <1>1, PendingInFlight, Types DEF Over, Prompts
  <2>2. emit'[Reader].ev.kind # "turn"
    <3>1. emit[Reader].ev.kind # "turn"
      BY DEF TextInv, EventsInOrder
    <3>2. emit'[Reader].ev = emit[Reader].ev \/ emit'[Reader].ev = [kind |-> "other", turn |-> 0]
      BY <1>4, TextTypes
    <3> QED
      BY <3>1, <3>2
  <2>3. ASSUME NEW p \in Callers, NEW t, t = emit'[p].ev.turn PROVE emit'[p].ev.kind # "text" /\ Over(t)'
    <3>1. emit'[p].ev = emit[p].ev \/ emit'[p].ev = [kind |-> "other", turn |-> 0]
      BY <1>4, TextTypes
    <3> QED
      BY <1>3, <2>1, <2>3, <3>1 DEF TextInv, EventsInOrder
  <2>4. ASSUME NEW m \in Listeners, NEW t, t = heard'[m].turn PROVE Over(t)'
    <3>1. \/ heard'[m].turn = heard[m].turn
          \/ emit[g].ev.kind = "turn" /\ heard'[m].turn = emit[g].ev.turn
      BY <1>8
    <3>2. emit[g].ev.kind = "turn" => g \in Callers
      BY TextTypes DEF TextInv, EventsInOrder
    <3> QED
      BY <1>3, <2>4, <3>1, <3>2 DEF TextInv, EventsInOrder
  <2> QED
    BY <2>2, <2>3, <2>4 DEF EventsInOrder
<1>6. TextComplete'
  BY <1>1 DEF TextInv, TextComplete
<1>7. ASSUME abandoned = {} PROVE OfThePending' /\ Accounted'
  <2>1. OfThePending /\ Accounted
    BY <1>7 DEF TextInv
  <2>2. Telling' => Telling /\ emit'[Reader].ev = emit[Reader].ev
    BY <1>4, TextTypes DEF Telling
  <2>3. OfThePending'
    BY <1>1, <1>2, <2>1, <2>2 DEF OfThePending
  <2>4. CASE g = Reader /\ EmitLock(g) /\ emit[g].ev.kind = "text"
    <3>1. Telling /\ Asked = 1
      BY <2>4 DEF Telling, Asked, EmitLock
    <3>2. pending = prompts /\ pending # 0 /\ inFlight /\ reply[prompts] = 0 /\ emit[g].ev.turn = prompts
      BY <2>1, <2>4, <3>1, PendingInFlight DEF OfThePending
    <3>3. text' = Append(text, prompts)
      BY <2>4, <3>2 DEF EmitLock
    <3>4. /\ Len(text') = Len(text) + 1 /\ Len(text) \in Nat /\ text'[Len(text) + 1] = prompts
          /\ DOMAIN text = 1..Len(text) /\ DOMAIN text' = 1..Len(text')
          /\ \A i \in DOMAIN text : text'[i] = text[i]
      <4>1. text \in Seq(Turns) /\ prompts \in Turns
        BY TextTypes, Types DEF Turns
      <4> QED
        BY <3>3, <4>1, AppendProperties, LenProperties
    <3>5. Asked' = 0
      BY <2>4, TextTypes DEF Asked, EmitLock
    <3>6. \A i \in DOMAIN text' : text'[i] = prompts
      BY <2>1, <3>2, <3>4 DEF Accounted
    <3>7. \A p \in Callers : ~Unsent(p)
      BY <2>1, <3>1 DEF Accounted
    <3>8. said[pending] \in Nat /\ Cardinality(Texts) \in Nat
      BY <3>2, PendingInFlight, TextTypes, TextsFinite
    <3>9. (ended => Complete) => said[pending] = Len(text') + Asked' + Cardinality(Texts)
      BY <2>1, <3>1, <3>2, <3>4, <3>5, <3>8 DEF Accounted
    <3> QED
      BY <1>1, <1>2, <2>1, <2>3, <3>2, <3>6, <3>7, <3>9 DEF Accounted
  <2>5. CASE ~(g = Reader /\ EmitLock(g) /\ emit[g].ev.kind = "text")
    <3>1. text' = text
      <4>1. CASE EmitLock(g)
        BY <2>5, <4>1, TextTypes DEF EmitLock, TextInv, EventsInOrder
      <4>2. CASE ~EmitLock(g)
        BY <4>2 DEF EmitReturn, Tell
      <4> QED
        BY <4>1, <4>2
    <3>2. Asked' = Asked
      <4>1. CASE g # Reader
        BY <1>4, <4>1, TextTypes DEF Asked
      <4>2. CASE g = Reader /\ ~EmitLock(g)
        BY <1>4, <4>2 DEF Asked
      <4>3. CASE g = Reader /\ EmitLock(g)
        BY <2>5, <4>3, TextTypes DEF Asked, EmitLock
      <4> QED
        BY <4>1, <4>2, <4>3
    <3> QED
      BY <1>1, <1>2, <2>1, <2>2, <2>3, <3>1, <3>2 DEF Accounted
  <2> QED
    BY <2>4, <2>5
<1> QED
  BY <1>1, <1>5, <1>6, <1>7 DEF TextInv

LEMMA SessionKeepsTexts ==
    ASSUME Inv, TurnInv, TextInv, SessionStep, UNCHANGED convVars
    PROVE  TextInv'
<1>1. CASE \E p \in Callers : PromptEnter(p) \/ PromptLeave(p)
  BY <1>1, EnterKeepsTexts, LeaveKeepsTexts
<1>2. CASE \E g \in Goroutines : EmitLock(g) \/ EmitReturn(g) \/ \E l \in Listeners : Tell(g, l)
  BY <1>2, EmitKeepsTexts
<1>3. CASE Close \/ \E l \in Listeners : Subscribe(l) \/ Unsubscribe(l)
  <2>1. UNCHANGED textVars /\ UNCHANGED <<abandoned, pending, call, ppc>>
    BY <1>3 DEF Close, Subscribe, Unsubscribe, textVars, portVars, convVars, ownVars, duplexVars, cliVars
  <2> QED
    BY <2>1, NoTextMoves DEF Unsent
<1> QED
  BY <1>1, <1>2, <1>3 DEF SessionStep

(* The prompt that begins, or gives up before it is sent, finds nothing of *)
(* an earlier one. *)
LEMMA PromptKeepsTexts ==
    ASSUME Inv, TurnInv, TextInv, NEW p \in Callers, PromptSteps(p), UNCHANGED sessVars
    PROVE  TextInv'
<1>1. /\ call[p].st = "running" /\ prompts \in Nat /\ call \in [Callers -> CallState]
      /\ ppc \in [Callers -> {"out", "init", "user", "wait", "giveUp"}]
  BY Types DEF Inv, InPrompt, PromptSteps, PromptRefused, PromptBegins, PromptWrites, PromptWriteFails,
     PromptAnswered, PromptCancelled, PromptGivesUp, PromptOutlived
<1>2. /\ UNCHANGED textVars
  BY DEF textVars, sessVars, portVars, duplexVars, cliVars, PromptSteps, PromptRefused, PromptBegins,
     PromptWrites, PromptWriteFails, PromptAnswered, PromptCancelled, PromptGivesUp, PromptOutlived,
     WriteLine, WriteClosed, WriteBroken, WriteInterrupt
<1>3. \A q \in Callers \ {p} : call[q].st = "none" /\ call'[q] = call[q]
  BY <1>1, Alone DEF PromptSteps, PromptRefused, PromptBegins, PromptWrites, PromptWriteFails,
     PromptAnswered, PromptCancelled, PromptGivesUp, PromptOutlived, Answer, Fail, portVars
<1>4. \A q \in Callers : call'[q].st # "none" => call[q].st # "none"
  BY <1>1, <1>3
<1>5. CASE PromptRefused(p) \/ PromptAnswered(p) \/ PromptWrites(p) \/ PromptGivesUp(p)
  <2>1. pending' = pending /\ abandoned' = abandoned
    BY <1>5 DEF PromptRefused, PromptAnswered, PromptWrites, PromptGivesUp
  <2>2. Unsent(p)' => Unsent(p)
    <3>1. CASE PromptWrites(p)
      BY <1>1, <3>1 DEF Unsent, PromptWrites
    <3>2. CASE \E err : Fail(p, err)
      BY <1>1, <3>2 DEF Unsent, Fail, CallState
    <3>3. CASE \E t : Answer(p, t)
      BY <1>1, <3>3 DEF Unsent, Answer, CallState
    <3> QED
      BY <1>5, <3>1, <3>2, <3>3 DEF PromptRefused, PromptAnswered, PromptGivesUp
  <2>3. \A q \in Callers : Unsent(q)' => Unsent(q)
    BY <1>3, <2>2 DEF Unsent
  <2> QED
    BY <1>2, <1>4, <2>1, <2>3, NoTextMoves
<1>6. CASE PromptBegins(p) \/ PromptWriteFails(p) \/ PromptCancelled(p) \/ PromptOutlived(p)
  <2>1. UNCHANGED <<Said, Texts, Telling, Asked, Complete>>
    BY <1>2 DEF Said, Texts, Telling, Asked, Complete, textVars
  <2>2. EventsInOrder'
    BY <1>2 DEF TextInv, EventsInOrder, Over, textVars
  <2>3. abandoned' = {} => abandoned = {}
    BY <1>6 DEF PromptBegins, PromptWriteFails, PromptCancelled, PromptOutlived
  <2>4. TextComplete'
    BY <1>2, <2>3 DEF TextInv, TextComplete, textVars
  <2>5. ASSUME abandoned' = {} PROVE OfThePending' /\ Accounted'
    <3>1. Unsent(p) /\ (PromptBegins(p) \/ PromptWriteFails(p))
      BY <1>1, <1>6, <2>5 DEF Unsent, PromptBegins, PromptWriteFails, PromptCancelled, PromptOutlived
    <3>2. OfThePending /\ Accounted
      BY <2>3, <2>5 DEF TextInv
    <3>3. ~Telling /\ text = <<>> /\ said[prompts] = 0
      BY <3>1, <3>2 DEF Accounted
    <3>4. Said = {}
      <4>1. \A k \in Said : toHost[k].turn < prompts /\ toHost[k].turn = pending /\ toHost[k].turn # 0
        BY <3>1, <3>2, PipeTypes DEF TurnInv, SentOnce, Before, OfThePending
      <4> QED
        BY <1>1, <4>1, PendingInFlight
    <3>5. Texts = {} /\ Asked = 0 /\ Cardinality({}) = 0
      BY <3>3, <3>4, FS_EmptySet DEF Texts, Said, Telling, Asked
    <3>6. pending' \in {0, prompts}
      BY <1>1, <3>1, Alone DEF PromptBegins, PromptWriteFails
    <3>7. OfThePending'
      BY <2>1, <3>3, <3>4 DEF OfThePending
    <3>8. Len(text') = 0
      BY <1>2, <3>3 DEF textVars
    <3>9. \A q \in Callers \ {p} : ~Unsent(q)'
      BY <1>3 DEF Unsent
    <3> QED
      BY <1>2, <1>4, <2>1, <3>2, <3>3, <3>5, <3>6, <3>7, <3>8, <3>9 DEF Accounted, textVars
  <2> QED
    BY <2>2, <2>4, <2>5 DEF TextInv
<1> QED
  BY <1>5, <1>6 DEF PromptSteps

(* The read loop, inside no Emit, takes a frame that is no result: a text  *)
(* becomes an event. *)
LEMMA FrameBecomesEvent ==
    ASSUME Inv, TurnInv, TextInv, ReadEvent \/ ReadFailure \/ ReadRequest, UNCHANGED sessVars
    PROVE  TextInv'
<1>1. /\ TakeFrame /\ emit[Reader].st = "quiet" /\ Head(toHost).kind # "result"
      /\ UNCHANGED <<ended, call, ppc, reply, answer, pending, abandoned, heard, inFlight, prompts, said, text>>
  BY DEF ReadEvent, ReadFailure, ReadRequest, Request, Takes, TakeFrame, ownVars, cliVars, sessVars, portVars
<1>2. /\ 1 \in 1..Len(toHost) /\ Head(toHost) = toHost[1]
      /\ \A i \in Said' : i + 1 \in Said /\ toHost'[i] = toHost[i + 1]
      /\ Cardinality(Texts') = Cardinality(Texts) - (IF Head(toHost).kind = "text" THEN 1 ELSE 0)
      /\ Complete' => Complete
  BY <1>1, FrameTaken, TextsTaken
<1>3. PICK f : f = Head(toHost)
  OBVIOUS
<1>4. /\ f.kind = "text" => 1 \in Said /\ toHost[1] = f
      /\ \/ emit' = emit /\ f.kind # "text"
         \/ AskEmit(Reader, [kind |-> "other", turn |-> 0]) /\ f.kind # "text"
         \/ AskEmit(Reader, f) /\ f.kind = "text"
  BY <1>2, <1>3 DEF ReadEvent, ReadFailure, ReadRequest, Request, Takes, Said, portVars
<1>5. /\ \A p \in Callers : emit'[p] = emit[p]
      /\ \/ emit'[Reader] = emit[Reader] /\ f.kind # "text"
         \/ emit'[Reader].ev = [kind |-> "other", turn |-> 0] /\ f.kind # "text"
         \/ emit'[Reader].st = "asked" /\ emit'[Reader].ev = f /\ f.kind = "text"
  BY <1>4, TextTypes DEF AskEmit
<1>6. /\ ~Telling /\ Asked = 0
      /\ Telling' <=> f.kind = "text"
      /\ Asked' = IF f.kind = "text" THEN 1 ELSE 0
  BY <1>1, <1>5 DEF Telling, Asked
<1>7. EventsInOrder'
  <2>1. \A t : Over(t) => Over(t)'
    BY <1>1 DEF Over
  <2>2. emit[Reader].ev.kind # "turn" /\ \A p \in Callers : emit[p].ev.kind # "text" /\ Over(emit[p].ev.turn)
    BY DEF TextInv, EventsInOrder
  <2>3. emit'[Reader].ev.kind # "turn"
    BY <1>5, <2>2
  <2> QED
    BY <1>1, <1>5, <2>1, <2>2, <2>3 DEF TextInv, EventsInOrder
<1>8. TextComplete'
  BY <1>1 DEF TextInv, TextComplete
<1>9. ASSUME abandoned = {} PROVE OfThePending' /\ Accounted'
  <2>1. OfThePending /\ Accounted
    BY <1>9 DEF TextInv
  <2>2. \A k \in Said' : toHost'[k].turn = pending
    BY <1>2, <2>1 DEF OfThePending
  <2>3. f.kind = "text" => f.turn = pending /\ pending # 0 /\ pending = prompts /\ inFlight /\ reply[prompts] = 0
    BY <1>4, <2>1, PipeTypes, PendingInFlight DEF OfThePending
  <2>4. OfThePending'
    BY <1>1, <1>5, <1>6, <2>2, <2>3 DEF OfThePending
  <2>5. f.kind = "text" => \A p \in Callers : ~Unsent(p)
    <3> SUFFICES ASSUME f.kind = "text", NEW p \in Callers, Unsent(p) PROVE FALSE
      OBVIOUS
    <3>1. f.turn < prompts
      BY <1>4 DEF TurnInv, SentOnce, Before
    <3> QED
      BY <2>3, <3>1, Types
  <2>6. \A p \in Callers : Unsent(p)' <=> Unsent(p)
    BY <1>1 DEF Unsent
  <2>7. ASSUME pending # 0, ended => Complete'
        PROVE  said[pending] = Len(text) + Asked' + Cardinality(Texts')
    <3>1. said[pending] = Len(text) + 0 + Cardinality(Texts)
      BY <1>2, <1>6, <2>1, <2>7 DEF Accounted
    <3>2. Len(text) \in Nat /\ Cardinality(Texts) \in Nat
      BY TextTypes, TextsFinite, LenProperties
    <3> QED
      BY <1>2, <1>3, <1>6, <3>1, <3>2
  <2>8. Accounted'
    BY <1>1, <1>6, <2>1, <2>5, <2>6, <2>7 DEF Accounted
  <2> QED
    BY <2>4, <2>8
<1> QED
  BY <1>1, <1>7, <1>8, <1>9 DEF TextInv

(* It takes a result: what its turn said was all told. *)
LEMMA ResultEndsText ==
    ASSUME Inv, TurnInv, TextInv, ReadResult, UNCHANGED sessVars
    PROVE  TextInv'
<1>1. /\ TakeFrame /\ emit[Reader].st = "quiet" /\ Head(toHost).kind = "result" /\ pending' = 0
      /\ UNCHANGED <<ended, call, ppc, emit, answer, abandoned, heard, inFlight, prompts, said, text>>
      /\ pending = 0 => reply' = reply
  BY DEF ReadResult, Takes, TakeFrame, ownVars, cliVars, sessVars, portVars
<1>2. /\ 1 \in Said /\ toHost[1].kind = "result" /\ toHost[1].turn # 0
      /\ \A i \in Said' : i + 1 \in Said /\ 1 < i + 1 /\ toHost'[i] = toHost[i + 1]
  <2>1. /\ 1 \in 1..Len(toHost) /\ Head(toHost) = toHost[1]
        /\ \A i \in Said' : i + 1 \in Said /\ toHost'[i] = toHost[i + 1]
    BY <1>1, FrameTaken
  <2>2. 1 \in Said
    BY <1>1, <2>1 DEF Said
  <2>3. \A i \in Said' : 1 < i + 1
    BY DEF Said
  <2> QED
    BY <1>1, <2>1, <2>2, <2>3, PipeTypes
<1>3. ~Telling /\ Asked = 0 /\ UNCHANGED <<Telling, Asked>>
  BY <1>1 DEF Telling, Asked
<1>4. EventsInOrder' /\ TextComplete'
  BY <1>1 DEF TextInv, EventsInOrder, Over, TextComplete
<1>5. ASSUME abandoned = {} PROVE OfThePending' /\ Accounted'
  <2>1. OfThePending /\ Accounted
    BY <1>5 DEF TextInv
  <2>2. toHost[1].turn = pending /\ pending # 0
    BY <1>2, <2>1 DEF OfThePending
  <2>3. pending = prompts /\ prompts \in Prompts
    BY <2>2, PendingInFlight
  <2>4. ASSUME NEW k \in Said, 1 < k PROVE FALSE
    <3>1. toHost[1].turn < toHost[k].turn /\ toHost[k].turn = pending
      BY <1>2, <2>1, <2>4 DEF TurnInv, FramesInOrder, OfThePending
    <3> QED
      BY <2>2, <3>1, Types
  <2>5. Said' = {}
    BY <1>2, <2>4
  <2>6. Texts = {}
    <3> SUFFICES ASSUME NEW k \in Texts PROVE FALSE
      OBVIOUS
    <3>1. k \in Said /\ k # 1 /\ k \in Nat /\ k >= 1
      BY <1>2 DEF Texts, Said
    <3> QED
      BY <2>4, <3>1
  <2>7. said[prompts] = Len(text)
    <3>1. Complete
      BY <1>2 DEF Complete
    <3>2. said[pending] = Len(text) + 0 + Cardinality({})
      BY <1>3, <2>1, <2>2, <2>6, <3>1 DEF Accounted
    <3>3. Len(text) \in Nat
      BY TextTypes, LenProperties
    <3> QED
      BY <2>3, <3>2, <3>3, FS_EmptySet
  <2>8. OfThePending'
    BY <1>3, <2>5 DEF OfThePending
  <2>9. \A p \in Callers : Unsent(p)' <=> Unsent(p)
    BY <1>1 DEF Unsent
  <2>10. Accounted'
    BY <1>1, <1>3, <2>1, <2>7, <2>9 DEF Accounted
  <2> QED
    BY <2>8, <2>10
<1> QED
  BY <1>1, <1>4, <1>5 DEF TextInv

(* It tells of a permission that was denied. *)
LEMMA DecideKeepsTexts ==
    ASSUME Inv, TextInv, Decide, UNCHANGED sessVars
    PROVE  TextInv'
<1>1. /\ UNCHANGED <<toHost, ended, call, ppc, reply, answer, pending, abandoned, heard, inFlight,
                     prompts, said, text>>
      /\ emit' = emit \/ AskEmit(Reader, [kind |-> "other", turn |-> reading.turn])
  BY DEF Decide, sessVars, duplexVars, cliVars
<1>2. CASE emit' = emit
  <2>1. UNCHANGED textVars
    BY <1>1, <1>2 DEF textVars
  <2> QED
    BY <1>1, <2>1, NoTextMoves DEF Unsent
<1>3. CASE AskEmit(Reader, [kind |-> "other", turn |-> reading.turn])
  <2>1. /\ \A p \in Callers : emit'[p] = emit[p]
        /\ emit[Reader].st = "quiet" /\ emit'[Reader].ev.kind = "other"
    BY <1>3, TextTypes DEF AskEmit
  <2>2. ~Telling /\ ~Telling' /\ Asked = 0 /\ Asked' = 0
    BY <2>1 DEF Telling, Asked
  <2>3. UNCHANGED <<Said, Texts, Complete>> /\ \A p \in Callers : Unsent(p)' <=> Unsent(p)
    BY <1>1 DEF Said, Texts, Complete, Unsent
  <2>4. EventsInOrder'
    BY <1>1, <2>1 DEF TextInv, EventsInOrder, Over
  <2>5. TextComplete'
    BY <1>1 DEF TextInv, TextComplete
  <2>6. OfThePending => OfThePending'
    BY <1>1, <2>2, <2>3 DEF OfThePending
  <2>7. Accounted => Accounted'
    BY <1>1, <2>2, <2>3 DEF Accounted
  <2> QED
    BY <1>1, <2>4, <2>5, <2>6, <2>7 DEF TextInv
<1> QED
  BY <1>1, <1>2, <1>3

(* Frames are lost: never one that comes before a result that is not. *)
LEMMA LossKeepsTexts ==
    ASSUME Inv, TurnInv, TextInv, FramesEnd \/ ReaderBreaks, UNCHANGED sessVars
    PROVE  TextInv'
<1>1. UNCHANGED <<call, ppc, emit, reply, answer, pending, abandoned, heard, inFlight, prompts, said, text>>
  BY DEF FramesEnd, ReaderBreaks, StopReading, ReadError, DropError, ownVars, cliVars, sessVars, portVars
<1>2. /\ ended' /\ Len(toHost') \in Nat
      /\ \A i \in 1..Len(toHost') :
            \/ i \in 1..Len(toHost) /\ toHost'[i] = toHost[i]
            \/ i = Len(toHost') /\ toHost'[i].kind = "error" /\ ~ended
  BY FramesCut
<1>3. \A i \in Said' : i \in Said /\ toHost'[i] = toHost[i]
  BY <1>2 DEF Said
<1>4. UNCHANGED <<Telling, Asked>> /\ \A p \in Callers : Unsent(p)' <=> Unsent(p)
  BY <1>1 DEF Telling, Asked, Unsent
<1>5. EventsInOrder' /\ TextComplete'
  BY <1>1 DEF TextInv, EventsInOrder, Over, TextComplete
<1>6. ASSUME abandoned = {} PROVE OfThePending' /\ Accounted'
  <2>1. OfThePending /\ Accounted
    BY <1>6 DEF TextInv
  <2>2. OfThePending'
    BY <1>1, <1>3, <1>4, <2>1 DEF OfThePending
  <2>3. ASSUME Complete' PROVE Complete /\ Texts' = Texts
    <3>1. PICK r \in Said' : toHost'[r].kind = "result"
      BY <2>3 DEF Complete
    <3>2. r \in Said /\ toHost[r].kind = "result" /\ r \in 1..Len(toHost')
      BY <1>3, <3>1 DEF Said
    <3>3. ASSUME NEW k \in Texts PROVE k \in Texts'
      <4>1. k \in Said /\ k \in Nat /\ k >= 1
        BY DEF Texts, Said
      <4>2. ~(r < k)
        <5>1. r < k => toHost[r].turn < toHost[k].turn
          BY <3>2, <4>1 DEF TurnInv, FramesInOrder
        <5>2. toHost[r].turn = pending /\ toHost[k].turn = pending
          BY <2>1, <3>2, <4>1 DEF OfThePending
        <5> QED
          BY <5>1, <5>2, Types
      <4>3. k \in 1..Len(toHost') /\ (k = Len(toHost') => k = r)
        BY <1>2, <3>2, <4>1, <4>2
      <4>4. toHost'[k] = toHost[k]
        BY <1>2, <3>1, <4>3
      <4> QED
        BY <4>3, <4>4 DEF Texts
    <3>4. \A k \in Texts' : k \in Texts
      BY <1>2 DEF Texts
    <3> QED
      BY <3>2, <3>3, <3>4 DEF Complete
  <2>4. Accounted'
    BY <1>1, <1>2, <1>4, <2>1, <2>3 DEF Accounted
  <2> QED
    BY <2>2, <2>4
<1> QED
  BY <1>1, <1>5, <1>6 DEF TextInv

(* The process says one thing more, or something else. *)
LEMMA WrittenIsAccounted ==
    ASSUME Inv, TurnInv, TextInv, CliSays \/ CliAsks \/ CliFinishes,
           UNCHANGED <<ownVars, portVars, sessVars>>
    PROVE  TextInv'
<1>1. /\ UNCHANGED <<ended, call, ppc, emit, reply, answer, pending, abandoned, heard, inFlight, prompts, text>>
      /\ running # 0 /\ running \in 0..prompts /\ prompts \in 0..MaxPrompts /\ MaxPrompts \in Nat
  BY PipeTypes, Types
     DEF CliSays, CliAsks, Request, CliFinishes, Free, ownVars, sessVars, portVars, Inv, Bounded, CliBounded
<1>2. running \in Prompts /\ ToCome(running)
  BY <1>1 DEF Prompts, ToCome
<1>3. PICK frame \in {[kind |-> kind, turn |-> running] : kind \in {"text", "permission", "service", "unknown", "result"}} :
          /\ toHost' = IF ended THEN toHost ELSE Append(toHost, frame)
          /\ frame.kind = "text" => said' = [said EXCEPT ![running] = @ + 1]
          /\ frame.kind # "text" => said' = said
  BY DEF CliSays, CliAsks, Request, CliFinishes, SendFrame
<1>4. frame.turn = running /\ frame.kind # "error"
  BY <1>3
<1>5. UNCHANGED <<Telling, Asked>> /\ \A p \in Callers : Unsent(p)' <=> Unsent(p)
  BY <1>1 DEF Telling, Asked, Unsent
<1>6. \A n \in Prompts : n # running => said'[n] = said[n]
  BY <1>3, TextTypes
<1>7. EventsInOrder'
  BY <1>1 DEF TextInv, EventsInOrder, Over
<1>8. ASSUME abandoned = {} PROVE OfThePending' /\ Accounted' /\ TextComplete'
  <2>1. OfThePending /\ Accounted /\ TextComplete
    BY <1>8 DEF TextInv
  <2>2. pending = running /\ pending = prompts /\ reply[prompts] = 0 /\ inFlight
    BY <1>1, <1>2, <1>8, NoneGivenUp, PendingInFlight
  <2>3. \A p \in Callers : ~Unsent(p)
    BY <1>1, <2>2 DEF TurnInv, SentOnce, Before
  <2>4. TextComplete'
    <3>1. \A n \in Prompts : answer[n].turn # 0 => n # running
      BY <2>2 DEF TurnInv, AnswersAreReplies
    <3> QED
      BY <1>1, <1>6, <2>1, <3>1 DEF TextComplete
  <2>5. \A n \in Prompts : n > prompts => said'[n] = 0
    BY <1>1, <1>6, <2>1, <2>2 DEF Accounted, Prompts
  <2>6. ~Complete
    BY <1>1, <2>1, <2>2, PipeTypes DEF Complete, TurnInv, TurnsInOrder, OfThePending
  <2>7. CASE ended
    <3>1. toHost' = toHost
      BY <1>3, <2>7
    <3>2. UNCHANGED <<Said, Texts, Complete>>
      BY <3>1 DEF Said, Texts, Complete
    <3>3. OfThePending'
      BY <1>1, <1>5, <2>1, <3>1, <3>2 DEF OfThePending
    <3>4. Accounted'
      BY <1>1, <1>5, <2>1, <2>2, <2>3, <2>5, <2>6, <2>7, <3>2 DEF Accounted
    <3> QED
      BY <2>4, <3>3, <3>4
  <2>8. CASE ~ended
    <3> DEFINE last == Len(toHost) + 1
    <3>1. toHost' = Append(toHost, frame)
      BY <1>3, <2>8
    <3>2. /\ Said' = Said \cup {i \in {last} : frame.kind # "error"} /\ toHost'[last] = frame
          /\ Len(toHost') = last
          /\ \A k \in 1..Len(toHost) : toHost'[k] = toHost[k]
      BY <3>1, FrameAdded
    <3>3. last \in Nat /\ 1..last = 1..Len(toHost) \cup {last} /\ last \notin 1..Len(toHost)
      BY PipeTypes
    <3>4. OfThePending'
      <4>1. \A k \in Said' : toHost'[k].turn = pending
        BY <1>4, <2>1, <2>2, <3>2 DEF OfThePending, Said
      <4> QED
        BY <1>1, <1>5, <2>1, <4>1 DEF OfThePending
    <3>5. Cardinality(Texts') = Cardinality(Texts) + (IF frame.kind = "text" THEN 1 ELSE 0)
      <4> HIDE DEF last
      <4>1. Texts' = IF frame.kind = "text" THEN Texts \cup {last} ELSE Texts
        BY <3>2, <3>3 DEF Texts
      <4>2. last \notin Texts
        BY <3>3 DEF Texts
      <4>3. Cardinality(Texts \cup {last}) = Cardinality(Texts) + 1
        BY <4>2, TextsFinite, FS_AddElement
      <4> QED
        BY <4>1, <4>3, TextsFinite
    <3>6. said[running] = Len(text) + Asked + Cardinality(Texts)
      BY <1>1, <2>1, <2>2, <2>8 DEF Accounted
    <3>7. said'[running] = said[running] + (IF frame.kind = "text" THEN 1 ELSE 0)
      BY <1>2, <1>3, TextTypes
    <3>8. Len(text) \in Nat /\ Cardinality(Texts) \in Nat /\ Asked \in Nat
      BY TextTypes, TextsFinite, LenProperties DEF Asked
    <3>9. said'[running] = Len(text) + Asked + Cardinality(Texts')
      BY <3>5, <3>6, <3>7, <3>8
    <3>10. Accounted'
      BY <1>1, <1>5, <2>1, <2>2, <2>3, <2>5, <3>9 DEF Accounted
    <3> QED
      BY <2>4, <3>4, <3>10
  <2> QED
    BY <2>7, <2>8
<1>9. TextComplete'
  BY <1>1, <1>8 DEF TextComplete
<1> QED
  BY <1>1, <1>7, <1>8, <1>9 DEF TextInv

LEMMA TextStep ==
    ASSUME Inv, TurnInv, TextInv, [Next]_vars
    PROVE  TextInv'
<1>1. CASE SessionStep /\ UNCHANGED convVars
  BY <1>1, SessionKeepsTexts
<1>2. CASE ConvStep /\ UNCHANGED sessVars
  <2>1. CASE \E p \in Callers : PromptSteps(p)
    BY <1>2, <2>1, PromptKeepsTexts
  <2>2. CASE ReadEvent \/ ReadFailure \/ ReadRequest
    BY <1>2, <2>2, FrameBecomesEvent
  <2>3. CASE ReadResult
    BY <1>2, <2>3, ResultEndsText
  <2>4. CASE Decide
    BY <1>2, <2>4, DecideKeepsTexts
  <2>5. CASE FramesEnd \/ ReaderBreaks
    BY <1>2, <2>5, LossKeepsTexts
  <2>6. CASE (CliSays \/ CliAsks \/ CliFinishes) /\ UNCHANGED <<ownVars, portVars>>
    BY <1>2, <2>6, WrittenIsAccounted
  <2>7. CASE \/ CliReads /\ UNCHANGED <<ownVars, portVars>>
             \/ Respond \/ ReadEnds \/ CloseSteps \/ HostInterrupts \/ CancelOpen \/ ProcessDies
             \/ \E p \in Callers : CancelPrompt(p)
    <3>1. UNCHANGED textVars /\ UNCHANGED <<abandoned, pending, call, ppc>>
      BY <1>2, <2>7 DEF CliReads, CliGreet, CliBegin, CliStop, CliHears, Reads, ReadLine, Respond,
         ReadEnds, CloseSteps, CloseMarks, CloseCancels, CloseTransport, CloseReturns, HostInterrupts,
         CancelOpen, ProcessDies, CancelPrompt, WriteInterrupt, WriteLine, WriteClosed, WriteBroken,
         ClosePipe, Cut, Die, textVars, duplexVars, cliVars, ownVars, portVars, sessVars
    <3> QED
      BY <3>1, NoTextMoves DEF Unsent
  <2> QED
    BY <1>2, <2>1, <2>2, <2>3, <2>4, <2>5, <2>6, <2>7 DEF ConvStep, ReaderSteps, Environment, CliStep
<1>3. CASE UNCHANGED vars
  <2>1. UNCHANGED textVars /\ UNCHANGED <<abandoned, pending, call, ppc>>
    BY <1>3 DEF vars, textVars, sessVars, portVars, convVars, ownVars, duplexVars, cliVars
  <2> QED
    BY <2>1, NoTextMoves DEF Unsent
<1> QED
  BY <1>1, <1>2, <1>3 DEF Next

LEMMA TextInvariant == Spec => [](Inv /\ TurnInv /\ TextInv)
<1>1. Init => Inv /\ TurnInv /\ TextInv
  BY InitConv, InitTurns, InitTexts
<1>2. Inv /\ TurnInv /\ TextInv /\ [Next]_vars => (Inv /\ TurnInv /\ TextInv)'
  BY ClaudeStep, TurnStep, TextStep
<1> QED
  BY <1>1, <1>2, PTL DEF Spec

(* TextComplete: as long as no prompt was given up, the text of a Turn is  *)
(* everything the agent said in that turn and nothing it said in another,  *)
(* whatever the read loop and the callers of Prompt and Emit interleave.   *)
THEOREM TurnTextIsComplete == Spec => []TextComplete
<1>1. TextInv => TextComplete
  BY DEF TextInv
<1> QED
  BY <1>1, TextInvariant, PTL

(* NoTextAfterTurnEvent: and no listener is told of a text after it was    *)
(* told of the end of its turn.                                            *)
THEOREM TurnEventClosesTurn == Spec => NoTextAfterTurnEvent
<1>1. Inv /\ TextInv /\ [Next]_vars =>
         [\A g \in Goroutines, l \in Listeners :
             Tell(g, l) /\ emit[g].ev.kind = "text" /\ abandoned = {}
                 => emit[g].ev.turn > heard[l].turn]_vars
  <2> SUFFICES ASSUME Inv, TextInv, NEW g \in Goroutines, NEW l \in Listeners,
                      Tell(g, l), emit[g].ev.kind = "text", abandoned = {}
               PROVE  emit[g].ev.turn > heard[l].turn
    OBVIOUS
  <2>1. g = Reader
    BY TextTypes DEF TextInv, EventsInOrder
  <2>2. Telling
    BY <2>1 DEF Telling, Tell
  <2>3. emit[g].ev.turn = pending /\ pending = prompts /\ inFlight
    BY <2>1, <2>2, PendingInFlight DEF TextInv, OfThePending
  <2>4. heard[l].turn < prompts
    BY <2>3 DEF TextInv, EventsInOrder, Over
  <2>5. heard[l].turn \in Nat /\ prompts \in Nat
    BY TextTypes, Types DEF Turns
  <2> QED
    BY <2>3, <2>4, <2>5
<1> QED
  BY <1>1, TextInvariant, PTL DEF Spec, NoTextAfterTurnEvent
=============================================================================
