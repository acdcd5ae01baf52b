--------------------------- MODULE AnthropicProofs ---------------------------
(***************************************************************************)
(* What the API backend guarantees for any number of callers, listeners,   *)
(* prompts, round trips and tool calls: the types, that it is a backend of *)
(* the port, and that the history it sends is one the endpoint takes.      *)
(***************************************************************************)
EXTENDS Anthropic, SessionProofs, SequenceTheorems

Looping == {"loop", "sending", "reported", "tools"}

\* The calls of the last response wait for their results.
Open(p) == at[p] \in {"reported", "tools"} /\ todo + results > 0

\* What a history owes at message i (see WellFormed).
Follows(h, i) ==
    /\ h[i].role = "assistant" /\ h[i].calls > 0 =>
          i < Len(h) /\ h[i + 1] = [role |-> "results", calls |-> h[i].calls]
    /\ h[i].role = "results" =>
          i > 1 /\ h[i - 1] = [role |-> "assistant", calls |-> h[i].calls]
Awaits(h, k) ==
    /\ Len(h) > 0
    /\ h[Len(h)] = [role |-> "assistant", calls |-> k]
    /\ \A i \in 1..Len(h) - 1 : Follows(h, i)

(* The inductive invariant: that of every session; the types of the loop;  *)
(* what holds of a caller by its place in the loop, which makes its        *)
(* counters stay in bounds; and the history, which is well formed but      *)
(* while the tools of the last response run.                               *)
OwnTypes ==
    /\ convClosed \in BOOLEAN /\ ready \in BOOLEAN /\ denied \in BOOLEAN /\ imaged \in BOOLEAN
    /\ cancelFn \in Turns /\ cancelled \subseteq Prompts
    /\ at \in [Callers -> {"out", "begun"} \cup Looping]
    /\ history \in Seq(Message)
Counts ==
    /\ sent \in 0..MaxSends
    /\ todo \in 0..MaxCalls /\ results \in 0..MaxCalls /\ todo + results <= MaxCalls
    /\ spoken \in [Prompts -> 0..MaxSends]
    /\ \A n \in Prompts : n > prompts => spoken[n] = 0
Place(p) ==
    /\ call[p].st # "none" => call[p].n \in Prompts
    /\ at[p] # "out" => call[p].st = "running"
    /\ at[p] = "sending" => sent < MaxSends
    /\ at[p] = "reported" => results = 0
    /\ at[p] = "tools" => todo + results > 0
    /\ at[p] \in Looping => spoken[call[p].n] <= sent
    /\ call[p].st = "running" /\ at[p] \notin Looping => spoken[call[p].n] = 0
HistoryInv ==
    ~imaged => /\ (\A p \in Callers : ~Open(p)) => WellFormed(history)
               /\ \A p \in Callers : Open(p) => Awaits(history, todo + results)
Inv == SessionInv /\ OwnTypes /\ Counts /\ (\A p \in Callers : Place(p)) /\ HistoryInv
-----------------------------------------------------------------------------
LEMMA LoopInit == Init => Inv
<1> SUFFICES ASSUME Init PROVE Inv
  OBVIOUS
<1>1. SessionInv
  BY InitInv DEF Init
<1>2. 0 \in Turns /\ 0 \in 0..MaxSends /\ 0 \in 0..MaxCalls
  BY PortAssumption, AnthropicAssumption DEF Turns
<1>3. at = [p \in Callers |-> "out"] /\ spoken = [n \in Prompts |-> 0] /\ history = <<>>
  BY DEF Init
<1>4. OwnTypes
  <2>1. convClosed = FALSE /\ ready = FALSE /\ denied = FALSE /\ imaged = FALSE /\ cancelFn = 0 /\ cancelled = {}
    BY Zenon DEF Init
  <2>2. <<>> \in Seq(Message)
    OBVIOUS
  <2>3. at \in [Callers -> {"out", "begun"} \cup Looping]
    BY <1>3
  <2> QED
    BY <1>2, <1>3, <2>1, <2>2, <2>3, Zenon DEF OwnTypes
<1>5. Counts
  BY <1>2, <1>3, AnthropicAssumption DEF Init, Counts
<1>6. \A p \in Callers : Place(p)
  BY <1>3 DEF Place, Looping, Init, SessionInit, PortInit, NoCall
<1>7. HistoryInv
  BY <1>3 DEF HistoryInv, Open, WellFormed
<1> QED
  BY <1>1, <1>4, <1>5, <1>6, <1>7 DEF Inv

(* ------------------------------- histories ------------------------------ *)

LEMMA FollowsAll ==
    ASSUME NEW h \in Seq(Message)
    PROVE  WellFormed(h) <=> \A i \in 1..Len(h) : Follows(h, i)
  BY LenProperties, Zenon DEF WellFormed, Follows

\* What a message owes it does not owe again when others come after.
LEMMA StillFollows ==
    ASSUME NEW h \in Seq(Message), NEW m \in Message, NEW i \in 1..Len(h), Follows(h, i)
    PROVE  Follows(Append(h, m), i)
<1> DEFINE g == Append(h, m)
<1>1. Len(h) \in Nat /\ Len(g) = Len(h) + 1 /\ \A j \in 1..Len(h) : g[j] = h[j]
  BY AppendProperties, LenProperties
<1>2. g[i] = h[i] /\ (i < Len(h) => g[i + 1] = h[i + 1]) /\ (i > 1 => g[i - 1] = h[i - 1])
  <2>1. i < Len(h) => i + 1 \in 1..Len(h)
    BY <1>1
  <2>2. i > 1 => i - 1 \in 1..Len(h)
    BY <1>1
  <2> HIDE DEF g
  <2> QED
    BY <1>1, <2>1, <2>2
<1>3. i < Len(h) => i < Len(g)
  BY <1>1
<1> HIDE DEF g
<1>4. Follows(g, i)
  BY <1>2, <1>3 DEF Follows
<1> QED
  BY <1>4 DEF g

LEMMA Appended ==
    ASSUME NEW h \in Seq(Message), NEW m \in Message
    PROVE  /\ Append(h, m) \in Seq(Message)
           /\ Len(Append(h, m)) = Len(h) + 1 /\ Len(h) \in Nat
           /\ Append(h, m)[Len(h) + 1] = m
           /\ \A i \in 1..Len(h) : Append(h, m)[i] = h[i]
  BY AppendProperties, LenProperties

\* A history without debts gets one by a response that asks for tools.
LEMMA NoDebt ==
    ASSUME NEW h \in Seq(Message), WellFormed(h), NEW m \in Message
    PROVE  /\ m.role \notin {"assistant", "results"} \/ (m.role = "assistant" /\ m.calls = 0) => WellFormed(Append(h, m))
           /\ m.role = "assistant" => Awaits(Append(h, m), m.calls)
<1> DEFINE g == Append(h, m)
<1>1. g \in Seq(Message) /\ Len(g) = Len(h) + 1 /\ Len(h) \in Nat /\ g[Len(h) + 1] = m
  BY Appended
<1>2. \A i \in 1..Len(h) : Follows(h, i)
  BY FollowsAll
<1>3. \A i \in 1..Len(h) : Follows(g, i)
  BY <1>2, StillFollows
<1> HIDE DEF g
<1>4. ASSUME m.role \notin {"assistant", "results"} \/ (m.role = "assistant" /\ m.calls = 0)
      PROVE  WellFormed(g)
  <2>1. Follows(g, Len(h) + 1)
    BY <1>1, <1>4 DEF Follows
  <2>2. \A i \in 1..Len(g) : i \in 1..Len(h) \/ i = Len(h) + 1
    BY <1>1
  <2> QED
    BY <1>1, <1>3, <2>1, <2>2, FollowsAll
<1>5. ASSUME m.role = "assistant"
      PROVE  Awaits(g, m.calls)
  <2>1. m = [role |-> "assistant", calls |-> m.calls]
    BY <1>5 DEF Message
  <2>2. Len(g) > 0 /\ g[Len(g)] = m /\ Len(g) - 1 = Len(h)
    BY <1>1
  <2> QED
    BY <1>3, <2>1, <2>2 DEF Awaits
<1> QED
  BY <1>4, <1>5 DEF g

\* ... and the results pay it.
LEMMA DebtPaid ==
    ASSUME NEW h \in Seq(Message), NEW k \in 1..MaxCalls, Awaits(h, k)
    PROVE  WellFormed(Append(h, [role |-> "results", calls |-> k]))
<1> DEFINE m == [role |-> "results", calls |-> k]
           g == Append(h, m)
<1>1. m \in Message
  BY AnthropicAssumption DEF Message
<1>2. /\ g \in Seq(Message) /\ Len(g) = Len(h) + 1 /\ Len(h) \in Nat /\ g[Len(h) + 1] = m
      /\ \A i \in 1..Len(h) : g[i] = h[i]
  BY <1>1, Appended
<1>3. Len(h) > 0 /\ h[Len(h)] = [role |-> "assistant", calls |-> k] /\ \A i \in 1..Len(h) - 1 : Follows(h, i)
  BY DEF Awaits
<1>4. \A i \in 1..Len(h) - 1 : Follows(g, i)
  <2>1. \A i \in 1..Len(h) - 1 : i \in 1..Len(h)
    BY <1>2
  <2> QED
    BY <1>1, <1>3, <2>1, StillFollows
<1>5. g[Len(h)] = [role |-> "assistant", calls |-> k] /\ g[Len(h) + 1] = [role |-> "results", calls |-> k]
  BY <1>2, <1>3
<1> HIDE DEF g
<1>6. Follows(g, Len(h)) /\ Follows(g, Len(h) + 1)
  <2>1. Len(h) < Len(g) /\ Len(h) + 1 > 1 /\ (Len(h) + 1) - 1 = Len(h)
    BY <1>2, <1>3
  <2> QED
    BY <1>5, <2>1 DEF Follows
<1>7. \A i \in 1..Len(g) : i \in 1..Len(h) - 1 \/ i = Len(h) \/ i = Len(h) + 1
  BY <1>2
<1>8. WellFormed(g)
  BY <1>2, <1>4, <1>6, <1>7, FollowsAll
<1> QED
  BY <1>8 DEF g

(* --------------------------- who is in the loop -------------------------- *)

LEMMA OwnCall ==
    ASSUME Inv, NEW p \in Callers, call[p].st # "none"
    PROVE  /\ call[p].n \in Prompts /\ call[p].n = prompts /\ prompts \in Nat
           /\ \A q \in Callers \ {p} : call[q].st = "none" /\ at[q] = "out"
<1>1. pc[p] = "inConv" /\ call[p].n = prompts
  BY DEF Inv, SessionInv, OneInFlight
<1>2. prompts \in Nat /\ call[p].n \in Prompts
  BY <1>1, PortAssumption DEF Inv, SessionInv, SessionTypeOK, Turns, Place
<1>3. \A q \in Callers \ {p} : call[q].st = "none"
  BY <1>1 DEF Inv, SessionInv, OneInFlight
<1> QED
  BY <1>1, <1>2, <1>3 DEF Inv, Place

(* Where a step of caller p can be taken, and that nobody else is there. *)
LEMMA OwnPlace ==
    ASSUME Inv, NEW p \in Callers, at[p] # "out"
    PROVE  /\ call[p].st = "running" /\ call[p].n \in Prompts /\ call[p].n = prompts /\ prompts \in Nat
           /\ \A q \in Callers \ {p} : call[q].st = "none" /\ at[q] = "out"
<1>1. call[p].st = "running"
  BY DEF Inv, Place
<1> QED
  BY <1>1, OwnCall

Backend(p) == OwnSteps(p) \/ SendFails(p) \/ Responses(p)

\* The steps of caller p, by what they mean to the session.
Ends(p) == LimitReached(p) \/ Reported(p) \/ ToolsDone(p)
Breaks(p) == PromptRefused(p) \/ SendRefused(p) \/ SendFails(p) \/ RunToolWithImages(p)
Tells(p) == PromptStarts(p) \/ RunTool(p) \/ Responses(p) \/ \E b \in BOOLEAN : Deny(p, b)
Hidden(p) == PromptBegins(p) \/ Send(p)

LEMMA Kinds ==
    ASSUME NEW p \in Callers, Backend(p)
    PROVE  Ends(p) \/ Breaks(p) \/ Tells(p) \/ Hidden(p)
  BY DEF Backend, OwnSteps, ToolSteps, Ends, Breaks, Tells, Hidden

(* The backend is one of the port: a step of the loop, of Interrupt or of  *)
(* Close is one the port allows, or none the session can see. *)
LEMMA AllowedByPort ==
    ASSUME Inv, Next
    PROVE  SessionNext \/ UNCHANGED svars
<1> USE DEF svars, portVars
<1>1. ASSUME NEW p \in Callers, Ends(p)
      PROVE  BackendAnswers(p) \/ UNCHANGED svars
  <2>1. at[p] # "out" /\ UNCHANGED <<sessVars, emit, convClose>>
    BY <1>1 DEF Ends, LimitReached, Reported, ToolsDone, Stands
  <2>2. Answer(p, call[p].n) \/ UNCHANGED call
    BY <1>1 DEF Ends, LimitReached, Reported, ToolsDone, Returns
  <2>3. call[p].st = "running" /\ call[p].n \in 1..prompts
    BY <2>1, OwnPlace DEF Prompts
  <2> QED
    BY <2>1, <2>2, <2>3 DEF BackendAnswers
<1>2. ASSUME NEW p \in Callers, Breaks(p)
      PROVE  BackendFails(p)
  <2>1. UNCHANGED <<sessVars, emit, convClose>> /\ (at[p] # "out" \/ call[p].st = "running")
    BY <1>2 DEF Breaks, PromptRefused, SendRefused, SendFails, RunToolWithImages, Stands
  <2>2. \E err \in Failures : Fail(p, err)
    BY <1>2 DEF Breaks, PromptRefused, SendRefused, SendFails, RunToolWithImages, Errs, Failures
  <2>3. call[p].st = "running"
    BY <2>1, OwnPlace
  <2> QED
    BY <2>1, <2>2, <2>3 DEF BackendFails
<1>3. ASSUME NEW p \in Callers, Tells(p)
      PROVE  BackendEmits(p) \/ UNCHANGED svars
  <2>1. at[p] # "out" /\ UNCHANGED <<sessVars, call, convClose>>
    BY <1>3 DEF Tells, PromptStarts, RunTool, Responses, Response, Deny, Stands
  <2>2. call[p].st = "running" /\ call[p].n = prompts /\ prompts \in Nat /\ call[p].n \in Turns
    BY <2>1, OwnPlace DEF Prompts, Turns
  <2>3. \/ UNCHANGED emit
        \/ AskEmit(p, [kind |-> "text", turn |-> call[p].n])
        \/ AskEmit(p, [kind |-> "other", turn |-> call[p].n])
        \/ AskEmit(p, [kind |-> "other", turn |-> 0])
    BY <1>3 DEF Tells, PromptStarts, RunTool, Responses, Response, Deny
  <2>4. \A k \in {"text", "other"}, t \in {0, call[p].n} :
            [kind |-> k, turn |-> t] \in Event /\ t <= prompts
    BY <2>2, PortAssumption DEF Event, Turns
  <2>5. AskEmit(p, [kind |-> "text", turn |-> call[p].n]) => BackendEmits(p)
    BY <2>1, <2>2, <2>4 DEF BackendEmits
  <2>6. \A t \in {0, call[p].n} : AskEmit(p, [kind |-> "other", turn |-> t]) => BackendEmits(p)
    BY <2>1, <2>2, <2>4 DEF BackendEmits
  <2> QED
    BY <2>1, <2>3, <2>5, <2>6
<1>4. ASSUME NEW p \in Callers, Hidden(p) \/ CancelPrompt(p)
      PROVE  UNCHANGED svars
  BY <1>4 DEF Hidden, PromptBegins, Send, CancelPrompt
<1>5. CASE Interrupt
  BY <1>5 DEF Interrupt
<1>6. CASE ConvClose
  BY <1>6 DEF ConvClose, BackendCloses, SessionNext, BackendStep
<1>7. CASE SessionStep
  BY <1>7 DEF SessionNext
<1>8. ASSUME NEW p \in Callers, Backend(p)
      PROVE  SessionNext \/ UNCHANGED svars
  BY <1>1, <1>2, <1>3, <1>4, <1>8, Kinds DEF SessionNext, BackendStep, Goroutines
<1> QED
  BY <1>4, <1>5, <1>6, <1>7, <1>8 DEF Next, Backend

(* ------------------------------ a caller's steps ------------------------- *)

(* What a step of caller p keeps: the invariant, given that its own place,  *)
(* the counts and the history are right after it. *)
LEMMA OnlyOwn ==
    ASSUME Inv, NEW p \in Callers, Backend(p), SessionInv'
    PROVE  /\ UNCHANGED <<prompts, convClosed>>
           /\ call[p].st = "running" /\ call[p].n \in Prompts /\ call[p].n = prompts /\ prompts \in Nat
           /\ call'[p].n = call[p].n
           /\ call'[p].st = IF at'[p] = "out" THEN "done" ELSE "running"
           /\ \A q \in Callers \ {p} : at'[q] = "out" /\ call'[q] = call[q] /\ call[q].st = "none"
<1> DEFINE Typed == at \in [Callers -> {"out", "begun"} \cup Looping] /\ call \in [Callers -> CallState]
<1>1. Typed
  BY DEF Inv, OwnTypes, SessionInv, SessionTypeOK, PortTypeOK
<1>2. at[p] # "out" \/ call[p].st = "running"
  BY DEF Backend, OwnSteps, ToolSteps, SendFails, Responses, Response, PromptRefused, PromptBegins, PromptStarts,
     LimitReached, Send, SendRefused, Reported, RunTool, RunToolWithImages, ToolsDone, Deny, Stands
<1>3. call[p].st = "running" /\ call[p].n \in Prompts /\ call[p].n = prompts /\ prompts \in Nat
      /\ \A q \in Callers \ {p} : call[q].st = "none" /\ at[q] = "out"
  BY <1>2, OwnCall, OwnPlace
<1>4. UNCHANGED <<prompts, convClosed>>
  BY DEF Backend, OwnSteps, ToolSteps, SendFails, Responses, Response, PromptRefused, PromptBegins, PromptStarts,
     LimitReached, Send, SendRefused, Reported, RunTool, RunToolWithImages, ToolsDone, Deny, sessVars, convVars
<1>5. \/ /\ UNCHANGED call
         /\ (UNCHANGED at /\ at[p] # "out") \/ \E l \in {"begun"} \cup Looping : Goes(p, l)
      \/ /\ Answer(p, call[p].n) \/ \E err \in Failures : Fail(p, err)
         /\ Goes(p, "out") \/ (UNCHANGED at /\ at[p] = "out")
  BY DEF Backend, OwnSteps, ToolSteps, SendFails, Responses, Response, PromptRefused, PromptBegins, PromptStarts,
     LimitReached, Send, SendRefused, Reported, RunTool, RunToolWithImages, ToolsDone, Deny, portVars, convVars,
     Returns, Errs, Failures, Stands, Looping
<1>6. \/ UNCHANGED at
      \/ \E l \in {"out", "begun"} \cup Looping : Goes(p, l)
  BY DEF Backend, OwnSteps, ToolSteps, SendFails, Responses, Response, PromptRefused, PromptBegins, PromptStarts,
     LimitReached, Send, SendRefused, Reported, RunTool, RunToolWithImages, ToolsDone, Deny, convVars,
     Returns, Errs, Looping
<1>7. \A q \in Callers \ {p} : at'[q] = at[q] /\ call'[q] = call[q]
  BY <1>1, <1>5, <1>6 DEF Answer, Fail, Goes
<1>8. call'[p].n = call[p].n /\ call'[p].st = IF at'[p] = "out" THEN "done" ELSE "running"
  <2>1. CASE UNCHANGED call
    <3>1. ~(Answer(p, call[p].n) \/ \E err \in Failures : Fail(p, err))
      <4>1. call \in [Callers -> CallState]
        BY <1>1
      <4>2. Answer(p, call[p].n) => call'[p].st = "done"
        BY <4>1 DEF Answer, CallState
      <4>3. ASSUME NEW err \in Failures, Fail(p, err)
            PROVE  call'[p].st = "done"
        BY <4>1, <4>3 DEF Fail, CallState
      <4> QED
        BY <1>3, <2>1, <4>2, <4>3
    <3>2. at'[p] # "out"
      BY <1>1, <1>5, <3>1 DEF Goes, Looping
    <3> QED
      BY <1>3, <2>1, <3>2
  <2>2. CASE ~UNCHANGED call
    <3>1. at'[p] = "out"
      BY <1>1, <1>5, <2>2 DEF Goes
    <3>2. call'[p].n = call[p].n /\ call'[p].st = "done"
      BY <1>1, <1>5, <2>2 DEF Answer, Fail, CallState
    <3> QED
      BY <3>1, <3>2
  <2> QED
    BY <2>1, <2>2
<1> QED
  BY <1>3, <1>4, <1>7, <1>8

(* The counters. *)
LEMMA CountsStep ==
    ASSUME Inv, NEW p \in Callers, Backend(p), SessionInv'
    PROVE  Counts'
<1> USE AnthropicAssumption DEF Counts
<1>1. Counts /\ prompts' = prompts
  BY OnlyOwn DEF Inv
<1>2. CASE PromptStarts(p)
  BY <1>1, <1>2 DEF PromptStarts
<1>3. CASE Responses(p)
  <2>1. PICK k \in 0..MaxCalls, b \in BOOLEAN : Response(p, k, b)
    BY <1>3 DEF Responses
  <2>2. sent < MaxSends /\ spoken[call[p].n] <= sent /\ call[p].n = prompts /\ call[p].n \in Prompts
    BY <2>1, OwnPlace DEF Inv, Place, Response, Looping
  <2>3. spoken' = spoken \/ spoken' = [spoken EXCEPT ![call[p].n] = @ + 1]
    BY <2>1 DEF Response
  <2>4. sent' = sent + 1 /\ todo' = k /\ results' = 0
    BY <2>1 DEF Response
  <2>5. spoken[call[p].n] \in 0..MaxSends /\ spoken[call[p].n] + 1 \in 0..MaxSends
    BY <1>1, <2>2
  <2>6. spoken' \in [Prompts -> 0..MaxSends]
    BY <1>1, <2>3, <2>5
  <2>7. \A n \in Prompts : n > prompts => n # call[p].n /\ n \in Nat
    BY <2>2, PortAssumption DEF Prompts
  <2>8. \A n \in Prompts : n > prompts => spoken'[n] = 0
    BY <1>1, <2>3, <2>7
  <2> QED
    BY <1>1, <2>2, <2>4, <2>6, <2>8
<1>4. CASE RunTool(p) \/ \E b \in BOOLEAN : Deny(p, b)
  BY <1>1, <1>4 DEF RunTool, Deny
<1>5. CASE \/ PromptRefused(p) \/ PromptBegins(p) \/ LimitReached(p) \/ Send(p) \/ SendRefused(p) \/ SendFails(p)
           \/ Reported(p) \/ RunToolWithImages(p) \/ ToolsDone(p)
  <2>1. UNCHANGED <<sent, todo, results, spoken>>
    BY <1>5 DEF PromptRefused, PromptBegins, LimitReached, Send, SendRefused, SendFails, Reported,
       RunToolWithImages, ToolsDone, loopVars, convVars
  <2> QED
    BY <1>1, <2>1
<1> QED
  BY <1>2, <1>3, <1>4, <1>5 DEF Backend, OwnSteps, ToolSteps

(* The types of the rest. *)
LEMMA OwnTypesStep ==
    ASSUME Inv, NEW p \in Callers, Backend(p), SessionInv'
    PROVE  OwnTypes'
<1> USE DEF OwnTypes
<1>1. OwnTypes /\ call[p].n \in Turns
  BY OnlyOwn DEF Inv, Prompts, Turns
<1>2. at' \in [Callers -> {"out", "begun"} \cup Looping]
  <2>1. \/ UNCHANGED at
        \/ \E l \in {"out", "begun"} \cup Looping : Goes(p, l)
    BY DEF Backend, OwnSteps, ToolSteps, SendFails, Responses, Response, PromptRefused, PromptBegins, PromptStarts,
       LimitReached, Send, SendRefused, Reported, RunTool, RunToolWithImages, ToolsDone, Deny, convVars,
       Returns, Errs, Looping
  <2> QED
    BY <1>1, <2>1 DEF Goes
<1>3. history' \in Seq(Message)
  <2>1. \/ UNCHANGED history
        \/ \E m \in Message : history' = Append(history, m)
    <3>1. \A k \in 0..MaxCalls : \A role \in {"prompt", "assistant", "results"} : [role |-> role, calls |-> k] \in Message
      BY DEF Message
    <3>2. 0 \in 0..MaxCalls /\ results \in 0..MaxCalls
      BY AnthropicAssumption DEF Inv, Counts
    <3> QED
      BY <3>1, <3>2 DEF Backend, OwnSteps, ToolSteps, SendFails, Responses, Response, PromptRefused, PromptBegins, PromptStarts,
         LimitReached, Send, SendRefused, Reported, RunTool, RunToolWithImages, ToolsDone, Deny, loopVars, convVars
  <2> QED
    BY <1>1, <2>1, Appended
<1>4. /\ convClosed' = convClosed /\ cancelled' = cancelled
      /\ ready' \in {ready, TRUE} /\ imaged' \in {imaged, TRUE} /\ cancelFn' \in {cancelFn, call[p].n}
      /\ denied' = denied \/ denied' \in BOOLEAN
  BY <1>1 DEF Backend, OwnSteps, ToolSteps, SendFails, Responses, Response, PromptRefused, PromptBegins, PromptStarts,
     LimitReached, Send, SendRefused, Reported, RunTool, RunToolWithImages, ToolsDone, Deny, loopVars, convVars
<1> QED
  BY <1>1, <1>2, <1>3, <1>4

(* The place of the caller, and the history, after each of its steps. *)
LEMMA PlaceStep ==
    ASSUME Inv, NEW p \in Callers, Backend(p), SessionInv'
    PROVE  /\ Place(p)'
           /\ ~imaged' => IF Open(p)' THEN Awaits(history', todo' + results') ELSE WellFormed(history')
<1> DEFINE Right == /\ Place(p)
                    /\ ~imaged => IF Open(p) THEN Awaits(history, todo + results) ELSE WellFormed(history)
<1>1. /\ call[p].st = "running" /\ call[p].n \in Prompts /\ call'[p].n = call[p].n
      /\ call'[p].st = IF at'[p] = "out" THEN "done" ELSE "running"
      /\ \A q \in Callers \ {p} : at[q] = "out"
  <2>1. \A q \in Callers \ {p} : call[q].st = "none" /\ call[p].st # "none"
    BY OnlyOwn
  <2> QED
    BY <2>1, OnlyOwn, OwnCall
<1>2. Right
  <2>1. ~Open(p) => \A q \in Callers : ~Open(q)
    BY <1>1 DEF Open
  <2> QED
    BY <2>1 DEF Inv, HistoryInv
<1>3. Counts /\ history \in Seq(Message) /\ at \in [Callers -> {"out", "begun"} \cup Looping]
  BY DEF Inv, OwnTypes
<1>4. CASE \/ PromptRefused(p) \/ LimitReached(p) \/ SendRefused(p) \/ SendFails(p)
  <2>1. at[p] \notin {"reported", "tools"} /\ UNCHANGED <<imaged, history>>
    BY <1>4 DEF PromptRefused, LimitReached, SendRefused, SendFails, Stands, convVars, loopVars
  <2>2. at'[p] = "out"
    BY <1>3, <1>4 DEF PromptRefused, LimitReached, SendRefused, SendFails, Returns, Errs, Goes, convVars
  <2> QED
    BY <1>1, <1>2, <2>1, <2>2 DEF Place, Open, Looping
<1>5. CASE PromptBegins(p)
  <2>1. at[p] = "out" /\ at'[p] = "begun" /\ UNCHANGED <<imaged, history, spoken>>
    BY <1>3, <1>5 DEF PromptBegins, Goes, loopVars
  <2> QED
    BY <1>1, <1>2, <2>1 DEF Place, Open, Looping
<1>6. CASE PromptStarts(p)
  <2>1. at[p] = "begun" /\ at'[p] = "loop" /\ sent' = 0 /\ UNCHANGED <<imaged, spoken>>
    BY <1>3, <1>6 DEF PromptStarts, Goes
  <2>2. spoken[call[p].n] = 0
    BY <1>1, <1>2, <2>1 DEF Place, Looping
  <2>3. ~imaged => WellFormed(history)
    BY <1>2, <2>1 DEF Open
  <2>4. [role |-> "prompt", calls |-> 0] \in Message
    BY AnthropicAssumption DEF Message
  <2>5. ~imaged => WellFormed(history')
    BY <1>3, <1>6, <2>3, <2>4, NoDebt DEF PromptStarts
  <2> QED
    BY <1>1, <2>1, <2>2, <2>5 DEF Place, Open, Looping
<1>7. CASE Send(p)
  <2>1. at[p] = "loop" /\ at'[p] = "sending" /\ sent < MaxSends /\ UNCHANGED <<imaged, history, spoken, sent>>
    BY <1>3, <1>7 DEF Send, Stands, Goes, loopVars
  <2> QED
    BY <1>1, <1>2, <2>1 DEF Place, Open, Looping
<1>8. CASE Responses(p)
  <2>1. PICK k \in 0..MaxCalls, b \in BOOLEAN : Response(p, k, b)
    BY <1>8 DEF Responses
  <2>2. at[p] = "sending" /\ at'[p] = "reported" /\ sent' = sent + 1 /\ todo' = k /\ results' = 0 /\ imaged' = imaged
    BY <1>3, <2>1 DEF Response, Goes
  <2>3. spoken'[call[p].n] \in {spoken[call[p].n], spoken[call[p].n] + 1}
    BY <1>1, <1>3, <2>1 DEF Response, Counts
  <2>4. spoken[call[p].n] <= sent /\ spoken[call[p].n] \in Nat /\ sent \in Nat
    BY <1>1, <1>2, <1>3, <2>2, AnthropicAssumption DEF Place, Looping, Counts
  <2>5. [role |-> "assistant", calls |-> k] \in Message
    BY DEF Message
  <2>6. ~imaged => WellFormed(history)
    BY <1>2, <2>2 DEF Open
  <2>7. ~imaged => IF k > 0 THEN Awaits(history', k) ELSE WellFormed(history')
    <3>1. ASSUME ~imaged, history' = Append(history, [role |-> "assistant", calls |-> k])
          PROVE  IF k > 0 THEN Awaits(history', k) ELSE WellFormed(history')
      BY <1>3, <2>5, <2>6, <3>1, NoDebt
    <3>2. history' = Append(history, [role |-> "assistant", calls |-> k]) \/ (k = 0 /\ history' = history)
      BY <2>1 DEF Response
    <3> QED
      BY <2>6, <3>1, <3>2
  <2> QED
    BY <1>1, <2>2, <2>3, <2>4, <2>7 DEF Place, Open, Looping
<1>9. CASE Reported(p)
  <2>1. at[p] = "reported" /\ UNCHANGED <<imaged, history, spoken, sent, todo, results>>
    BY <1>9 DEF Reported, Stands, loopVars
  <2>2. at'[p] = IF todo = 0 THEN "out" ELSE "tools"
    BY <1>3, <1>9 DEF Reported, Returns, Goes
  <2>3. results = 0 /\ todo \in Nat /\ spoken[call[p].n] <= sent
    BY <1>2, <1>3, <2>1, AnthropicAssumption DEF Place, Counts, Looping
  <2> QED
    BY <1>1, <1>2, <2>1, <2>2, <2>3 DEF Place, Open, Looping
<1>10. CASE RunTool(p) \/ \E b \in BOOLEAN : Deny(p, b)
  <2>1. /\ at[p] = "tools" /\ UNCHANGED <<imaged, history, spoken, sent, at, call>>
        /\ todo' = todo - 1 /\ results' = results + 1
    BY <1>10 DEF RunTool, Deny, Stands
  <2>2. todo' + results' = todo + results
    BY <1>3, <2>1, AnthropicAssumption DEF Counts
  <2> QED
    BY <1>1, <1>2, <2>1, <2>2 DEF Place, Open, Looping
<1>11. CASE RunToolWithImages(p)
  <2>1. imaged' /\ at'[p] = "out"
    BY <1>3, <1>11 DEF RunToolWithImages, Errs, Goes
  <2> QED
    BY <1>1, <2>1 DEF Place, Looping
<1>12. CASE ToolsDone(p)
  <2>1. /\ at[p] = "tools" /\ todo = 0 /\ UNCHANGED <<imaged, spoken, sent, todo, results>>
        /\ history' = Append(history, [role |-> "results", calls |-> results])
    BY <1>12 DEF ToolsDone, Stands
  <2>2. at'[p] \in {"out", "loop"}
    BY <1>3, <1>12 DEF ToolsDone, Returns, Goes
  <2>3. results \in 1..MaxCalls /\ todo + results = results /\ spoken[call[p].n] <= sent
    BY <1>2, <1>3, <2>1, AnthropicAssumption DEF Place, Counts, Looping
  <2>4. ~imaged => Awaits(history, results)
    BY <1>2, <2>1, <2>3 DEF Open
  <2>5. ~imaged => WellFormed(history')
    BY <1>3, <2>1, <2>3, <2>4, DebtPaid
  <2> QED
    BY <1>1, <2>1, <2>2, <2>3, <2>5 DEF Place, Open, Looping
<1> QED
  BY <1>4, <1>5, <1>6, <1>7, <1>8, <1>9, <1>10, <1>11, <1>12 DEF Backend, OwnSteps, ToolSteps

LEMMA LoopStep ==
    ASSUME Inv, NEW p \in Callers, Backend(p), SessionInv'
    PROVE  Inv'
<1>1. \A q \in Callers \ {p} : at'[q] = "out" /\ call'[q] = call[q] /\ call[q].st = "none"
  BY OnlyOwn
<1>2. \A q \in Callers : Place(q)'
  BY <1>1, PlaceStep DEF Place, Looping
<1>3. HistoryInv'
  <2>1. \A q \in Callers \ {p} : ~Open(q)'
    BY <1>1 DEF Open
  <2> QED
    BY <2>1, PlaceStep DEF HistoryInv
<1> QED
  BY <1>2, <1>3, CountsStep, OwnTypesStep DEF Inv

(* ------------------------------ other steps ------------------------------ *)

LEMMA SessionKeepsLoop ==
    ASSUME Inv, SessionStep, UNCHANGED convVars, SessionInv'
    PROVE  Inv'
<1> USE DEF convVars, loopVars
<1>1. OwnTypes' /\ HistoryInv'
  BY DEF Inv, OwnTypes, HistoryInv, Open
<1>2. /\ prompts' \in Nat /\ prompts \in Nat /\ prompts' >= prompts
      /\ \A p \in Callers : \/ call'[p] = call[p]
                            \/ call'[p] = NoCall /\ call[p].st = "done"
                            \/ call'[p].st = "running" /\ call'[p].n = prompts + 1 /\ prompts + 1 \in Prompts /\ call[p].st = "none"
  <2>1. call \in [Callers -> CallState] /\ prompts \in Nat
    BY PortAssumption DEF Inv, SessionInv, SessionTypeOK, PortTypeOK, Turns
  <2>2. ASSUME NEW p \in Callers, PromptEnter(p)
        PROVE  /\ prompts' = prompts + 1 /\ prompts + 1 \in Prompts /\ call[p].st = "none"
               /\ call'[p].st = "running" /\ call'[p].n = prompts + 1
               /\ \A q \in Callers \ {p} : call'[q] = call[q]
    <3>1. prompts' = prompts + 1 /\ prompts + 1 \in Prompts
      BY <2>1, <2>2, PortAssumption DEF PromptEnter, Accept, Prompts
    <3>2. call[p].st = "none"
      BY <2>2 DEF PromptEnter, Accept, Inv, SessionInv, OneInFlight
    <3> QED
      BY <2>1, <2>2, <3>1, <3>2 DEF PromptEnter, Accept
  <2>3. ASSUME NEW p \in Callers, PromptLeave(p)
        PROVE  /\ prompts' = prompts /\ call[p].st = "done" /\ call'[p] = NoCall
               /\ \A q \in Callers \ {p} : call'[q] = call[q]
    BY <2>1, <2>3 DEF PromptLeave
  <2>4. ASSUME \/ Close \/ \E l \in Listeners : Subscribe(l) \/ Unsubscribe(l)
               \/ \E g \in Goroutines : EmitLock(g) \/ EmitReturn(g)
               \/ \E g \in Goroutines, l \in Listeners : Tell(g, l)
        PROVE  prompts' = prompts /\ call' = call
    BY <2>4 DEF Close, Subscribe, Unsubscribe, EmitLock, EmitReturn, Tell, portVars
  <2> QED
    BY <2>1, <2>2, <2>3, <2>4 DEF SessionStep
<1>3. Counts'
  BY <1>2 DEF Inv, Counts, Prompts
<1>4. ASSUME NEW p \in Callers
      PROVE  Place(p)'
  <2>1. CASE call'[p] = call[p]
    BY <2>1 DEF Inv, Place
  <2>2. CASE call'[p] = NoCall /\ call[p].st = "done"
    BY <2>2 DEF Inv, Place, NoCall, Looping
  <2>3. CASE call'[p].st = "running" /\ call'[p].n = prompts + 1 /\ prompts + 1 \in Prompts /\ call[p].st = "none"
    <3>1. at[p] = "out" /\ spoken[prompts + 1] = 0
      BY <1>2, <2>3 DEF Inv, Place, Counts
    <3> QED
      BY <2>3, <3>1 DEF Place, Looping
  <2> QED
    BY <1>2, <2>1, <2>2, <2>3
<1> QED
  BY <1>1, <1>3, <1>4 DEF Inv

LEMMA OutsideKeepsLoop ==
    ASSUME Inv, Interrupt \/ ConvClose \/ (\E p \in Callers : CancelPrompt(p)) \/ UNCHANGED vars, SessionInv'
    PROVE  Inv'
<1>1. UNCHANGED <<call, at, ready, imaged, history, sent, todo, results, denied, spoken, cancelFn, prompts>>
  BY DEF Interrupt, ConvClose, CancelPrompt, vars, sessVars, portVars, convVars, loopVars
<1>2. convClosed' \in BOOLEAN
  BY DEF Interrupt, ConvClose, CancelPrompt, vars, convVars, Inv, OwnTypes
<1>3. cancelled' \subseteq Prompts
  <2>1. cancelled \subseteq Prompts /\ (cancelFn # 0 => cancelFn \in Prompts)
    BY PortAssumption DEF Inv, OwnTypes, Turns, Prompts
  <2>2. ASSUME NEW p \in Callers, CancelPrompt(p)
        PROVE  call[p].n \in Prompts
    BY <2>2 DEF CancelPrompt, Inv, Place
  <2> QED
    BY <2>1, <2>2 DEF Interrupt, ConvClose, CancelPrompt, vars, convVars
<1> QED
  BY <1>1, <1>2, <1>3 DEF Inv, OwnTypes, Counts, Place, HistoryInv, Open

LEMMA NextInv == Inv /\ [Next]_vars => Inv'
<1> SUFFICES ASSUME Inv, [Next]_vars PROVE Inv'
  OBVIOUS
<1>1. [SessionNext]_svars
  BY AllowedByPort DEF vars, svars
<1>2. SessionInv'
  <2>1. SessionInv /\ UNCHANGED svars => SessionInv'
    BY DEF SessionInv, SessionTypeOK, PortTypeOK, OneInFlight, CallsAreCaused, AnswersAreCaused,
       svars, sessVars, portVars
  <2> QED
    BY <1>1, <2>1, StepInv DEF Inv
<1> QED
  BY <1>2, LoopStep, SessionKeepsLoop, OutsideKeepsLoop DEF Next, Backend

LEMMA LoopInvariant == Spec => []Inv
  BY LoopInit, NextInv, PTL DEF Spec

(* TypeOK: every variable of the session and of the loop has its type, and  *)
(* the counters stay within their bounds. *)
THEOREM AnthropicTypeCorrect == Spec => []TypeOK
<1>1. Inv => TypeOK
  BY DEF Inv, SessionInv, OwnTypes, Counts, TypeOK, Looping
<1> QED
  BY <1>1, LoopInvariant, PTL

(* SessionSpec: the API backend is a backend of the port, so that what is   *)
(* proved of every session is true of it. *)
THEOREM AnthropicIsASession == Spec => SessionSpec
<1>1. Init => SessionInit
  BY DEF Init
<1>2. Inv /\ [Next]_vars => [SessionNext]_svars
  BY AllowedByPort DEF vars, svars
<1> QED
  BY <1>1, <1>2, LoopInvariant, PTL DEF Spec, SessionSpec, svars

(* SendableWithoutImages: whatever was cancelled, denied, refused or cut    *)
(* off by the turn limit before, each request carries a history in which    *)
(* every tool call has its result, unless a tool has returned images        *)
(* (anthropic.go:225-262). *)
THEOREM HistoryIsSendable == Spec => []SendableWithoutImages
<1>1. Inv => SendableWithoutImages
  <2> SUFFICES ASSUME Inv, ~imaged, NEW p \in Callers, at[p] = "sending"
               PROVE  WellFormed(history)
    BY DEF SendableWithoutImages, Sendable
  <2>1. \A q \in Callers : ~Open(q)
    BY OwnPlace DEF Open
  <2> QED
    BY <2>1 DEF Inv, HistoryInv
<1> QED
  BY <1>1, LoopInvariant, PTL
=============================================================================
