-------------------------------- MODULE Port --------------------------------
(***************************************************************************)
(* The seam between a session and the backend it was opened with           *)
(* (core/port.go).  Two things cross it:                                   *)
(*                                                                         *)
(*   - a call of Conversation.Prompt by the goroutine that entered         *)
(*     Session.Prompt: call[p] is that call, from the moment the session   *)
(*     makes it to the moment the session has taken its outcome;           *)
(*   - a call of Runtime.Emit: emit[g] is the Emit that goroutine g is in, *)
(*     and g does nothing else until it returns.                           *)
(*                                                                         *)
(* Prompts the session accepted are numbered 1, 2, ... in the order it     *)
(* accepted them, and the turn the agent runs for prompt n is turn n.  The *)
(* numbers are not in the code: no frame of the protocol carries one, and  *)
(* no guard of a modelled handler reads one.                               *)
(***************************************************************************)
EXTENDS Naturals, Sequences, FiniteSets

CONSTANTS Callers,      \* goroutines that call Session.Prompt
          Listeners,    \* functions given to Session.Subscribe
          Reader,       \* the backend's read loop
          MaxPrompts    \* bound on the prompts a session accepts

ASSUME PortAssumption ==
    /\ Reader \notin Callers
    /\ MaxPrompts \in Nat

VARIABLES call, emit, convClose

portVars == <<call, emit, convClose>>

Prompts    == 1..MaxPrompts
Turns      == 0..MaxPrompts          \* 0: no turn
Goroutines == Callers \cup {Reader}
Failures   == {"ErrSessionClosed", "ErrClosed", "ctx", "write"}

Event == [kind : {"text", "turn", "other"}, turn : Turns]
Quiet == [st |-> "quiet", ev |-> [kind |-> "other", turn |-> 0], todo |-> {}]
NoCall == [st |-> "none", n |-> 0, turn |-> 0, err |-> "nil"]

CallState == [st : {"none", "running", "done"}, n : Turns, turn : Turns,
              err : Failures \cup {"nil"}]
EmitState == [st : {"quiet", "asked", "telling"}, ev : Event, todo : SUBSET Listeners]

PortTypeOK ==
    /\ call \in [Callers -> CallState]
    /\ emit \in [Goroutines -> EmitState]
    /\ convClose \in {"none", "called", "done"}

PortInit ==
    /\ call = [p \in Callers |-> NoCall]
    /\ emit = [g \in Goroutines |-> Quiet]
    /\ convClose = "none"

(* Goroutine g calls Emit(ev). *)
AskEmit(g, ev) ==
    /\ emit[g].st = "quiet"
    /\ emit' = [emit EXCEPT ![g] = [st |-> "asked", ev |-> ev, todo |-> {}]]

(* Conversation.Prompt returns to caller p: a Turn, or an error. *)
Answer(p, t) ==
    call' = [call EXCEPT ![p] = [@ EXCEPT !.st = "done", !.turn = t]]

Fail(p, err) ==
    call' = [call EXCEPT ![p] = [@ EXCEPT !.st = "done", !.err = err]]
=============================================================================
