---------------------------- MODULE ProxyProofs ----------------------------
(***************************************************************************)
(* What the message proxy guarantees for any number of clients and of       *)
(* requests.  Careful or not: the types of its state, that the two ways     *)
(* from a history to its conversation agree, and that no session file is    *)
(* left behind.  Careful, which is ~CanRetry: who can find a conversation   *)
(* closed under them, that nobody shares one, that whoever waits for a step *)
(* is going to get it, and that it was made from what they replay.          *)
(***************************************************************************)
EXTENDS Proxy, SequenceTheorems, TLAPS, WellFoundedInduction

\* A request has a conversation of its own only once it is past these.
Early == {"none", "lookup", "decide", "drop", "start", "open"}
Pcs == Early \cup {"supersede", "push", "run", "wait", "rekey", "done"}
Holding == {"drop", "supersede", "push", "run", "wait", "rekey"}

ReqRec == [pc: Pcs, prior: Seq(Message), input: Seq(Message), knobs: Settings \cup {0},
           conv: 0..MaxRequests, victims: SUBSET Requests, step: Step]
ConvRec == [root : Nat, knobs : Settings \cup {0}, parked : BOOLEAN, asked : SUBSET Ids,
            keys : SUBSET Seq(Message), busy : BOOLEAN, closed : BOOLEAN, file : 0..MaxRequests]
LoopRec == [turn: 0..MaxRequests, at: {"free", "sends", "parked", "panicked", "exited"}, id: 0..MaxCalls,
            pending: SUBSET Ids, unclaimed: SUBSET Ids, answered: SUBSET Ids]
Answer == [by: Requests, input: Seq(Message)]

(* The inductive invariant: the types of the clients, of the handlers, of   *)
(* the conversations and of their turns; how far a handler is when it has   *)
(* a conversation; and who owns a session file.                             *)
ClientTypes ==
    /\ sent \in 0..MaxRequests
    /\ hist \in [Clients -> Seq(Message)]
    /\ asks \in [Clients -> 0..MaxRequests]
ReqTypes ==
    /\ req \in [Requests -> ReqRec]
    /\ \A r \in Requests : r > sent => req[r].pc = "none"
    /\ \A r \in Requests : req[r].pc \notin {"none", "done"} => req[r].input # <<>>
    /\ \A r \in Requests : req[r].pc \in Holding => req[r].conv # 0
Unread ==
    /\ \A a \in Clients : asks[a] <= sent /\ (asks[a] # 0 => req[asks[a]].input # <<>>)
    /\ \A a, b \in Clients : asks[a] # 0 /\ asks[a] = asks[b] => a = b
ConvTypes ==
    /\ all \subseteq Requests /\ files \subseteq Requests /\ stale \subseteq Requests /\ raced \subseteq Requests
    /\ closing \subseteq Requests
    /\ conv \in [Requests -> ConvRec]
Agree ==
    /\ DOMAIN convs \subseteq Seq(Message)
    /\ \A k \in DOMAIN convs : convs[k] \in Requests /\ k \in conv[convs[k]].keys /\ req[convs[k]].pc \notin Early
    /\ \A r \in Requests : req[r].conv # 0 => req[req[r].conv].pc \notin Early
LoopTypes ==
    /\ loop \in [Requests -> LoopRec]
    /\ run \in [Requests -> {"none", "turn", "closed", "inflight", "end_turn", "failed"}]
    /\ calls \in 0..MaxCalls
    /\ serving \in [Requests -> 0..MaxRequests]
ChannelTypes ==
    /\ steps \in [Requests -> Seq(Step)]
    /\ results \in [Requests -> Seq(Answer)]
    /\ \A c \in Requests : Len(steps[c]) <= 1 /\ Len(results[c]) <= 1
TurnsOwned ==
    \A r \in Requests :
        run[r] # "none" \/ (\E c \in Requests : loop[c].turn = r) =>
            req[r].conv # 0 /\ req[r].pc \in {"wait", "rekey", "done"}
FileInv ==
    /\ \A c \in Requests : conv[c].file \in {0, c}
    /\ \A c \in Requests : c \in all \/ conv[c].file # 0 => req[c].pc \notin Early
    /\ up => \A f \in files : \/ req[f].pc = "open" /\ req[f].prior # <<>>
                              \/ f \in all \cup closing /\ conv[f].file = f
TypeInv == ClientTypes /\ ReqTypes /\ Unread /\ ConvTypes /\ LoopTypes /\ ChannelTypes /\ TurnsOwned
Inv == TypeInv /\ Agree /\ FileInv
-----------------------------------------------------------------------------
(* Messages and histories. *)
LEMMA Users ==
    ASSUME NEW k \in {"ask", "note", "results", "bad"}, NEW S \in SUBSET Ids, NEW n \in Nat
    PROVE  User(k, S, n) \in Message
  BY DEF User, Message

LEMMA Replies ==
    ASSUME NEW r \in Requests, NEW S \in SUBSET Ids
    PROVE  Reply(r, S) \in Message
  BY ProxyAssumption DEF Reply, Message, Requests

LEMMA PriorsTyped ==
    ASSUME ClientTypes, NEW a \in Clients, NEW h \in Priors(a)
    PROVE  h \in Seq(Message)
<1>1. hist[a] \in Seq(Message)
  BY DEF ClientTypes
<1>2. PICK n \in 0..Len(hist[a]) : h = SubSeq(hist[a], 1, n)
  BY DEF Priors
<1>3. Len(hist[a]) \in Nat
  BY <1>1, LenProperties
<1>4. \A i \in 1..n : hist[a][i] \in Message
  BY <1>1, <1>3, ElementOfSeq
<1> QED
  BY <1>1, <1>2, <1>3, <1>4, SubSeqProperties

LEMMA InputsTyped ==
    ASSUME NEW h \in Seq(Message), NEW i \in Inputs(h)
    PROVE  i \in Seq(Message) /\ i # <<>>
<1> DEFINE open == IF h = <<>> THEN {} ELSE h[Len(h)].ids
           firsts == {User("ask", {}, t) : t \in Topics}
                        \cup (IF open # {} THEN {User("results", open, 0)} ELSE {})
                        \cup {User("bad", {}, 0)}
<1>1. open \subseteq Ids
  <2>1. h # <<>> => h[Len(h)] \in Message
    BY LenProperties, ElementOfSeq, EmptySeq
  <2> QED
    BY <2>1 DEF Message
<1>2. \A m \in firsts : m \in Message
  BY <1>1, Users, ProxyAssumption
<1>3. User("note", {}, 0) \in Message
  BY Users
<1> HIDE DEF firsts
<1>4. PICK m \in firsts : i = <<m>> \/ i = <<m, User("note", {}, 0)>>
  BY DEF Inputs, firsts
<1>5. m \in Message
  BY <1>2
<1>6. <<m>> \in Seq(Message) /\ <<m>> # <<>>
  BY <1>5
<1>7. <<m, User("note", {}, 0)>> \in Seq(Message) /\ <<m, User("note", {}, 0)>> # <<>>
  BY <1>3, <1>5
<1> QED
  BY <1>4, <1>6, <1>7

(* A history with the reply to it. *)
Key(r, n) == req[r].prior \o SubSeq(req[r].input, 1, n) \o <<Reply(r, req[r].step.ids)>>

LEMMA KeyTyped ==
    ASSUME ReqTypes, NEW r \in Requests, NEW n \in 1..Len(req[r].input)
    PROVE  Key(r, n) \in Seq(Message)
<1>1. /\ req[r].prior \in Seq(Message) /\ req[r].input \in Seq(Message)
      /\ req[r].step.ids \subseteq Ids
  BY DEF ReqTypes, ReqRec, Step
<1>2. <<Reply(r, req[r].step.ids)>> \in Seq(Message)
  BY <1>1, Replies
<1>3. Len(req[r].input) \in Nat
  BY <1>1, LenProperties
<1>4. \A i \in 1..n : req[r].input[i] \in Message
  BY <1>1, <1>3, ElementOfSeq
<1>5. SubSeq(req[r].input, 1, n) \in Seq(Message)
  BY <1>1, <1>3, <1>4, SubSeqProperties
<1>6. req[r].prior \o SubSeq(req[r].input, 1, n) \in Seq(Message)
  BY <1>1, <1>5, ConcatProperties
<1> QED
  BY <1>2, <1>6, ConcatProperties DEF Key

LEMMA NewKeysTyped ==
    ASSUME ReqTypes, NEW r \in Requests
    PROVE  NewKeys(r) \subseteq Seq(Message)
<1>1. NewKeys(r) = {Key(r, n) : n \in 1..Len(req[r].input)}
  BY DEF NewKeys, Key
<1> QED
  BY <1>1, KeyTyped

LEMMA FirstOf ==
    ASSUME NEW S, NEW s \in Seq(S), NEW t \in Seq(S), t # <<>>
    PROVE  (s \o t)[1] \in S
<1>1. s \o t \in Seq(S) /\ Len(s \o t) = Len(s) + Len(t)
  BY ConcatProperties
<1>2. Len(s) \in Nat /\ Len(t) \in Nat /\ Len(t) # 0
  BY LenProperties, EmptySeq
<1>3. Len(s \o t) \in Nat /\ Len(s \o t) >= 1
  BY <1>1, <1>2
<1> QED
  BY <1>1, <1>3, ElementOfSeq

LEMMA RootTyped ==
    ASSUME ReqTypes, NEW r \in Requests, req[r].pc = "open"
    PROVE  RootOf(r) \in Nat
<1>1. req[r].prior \in Seq(Message) /\ req[r].input \in Seq(Message) /\ req[r].input # <<>>
  BY DEF ReqTypes, ReqRec
<1>2. (req[r].prior \o req[r].input)[1] \in Message
  BY <1>1, FirstOf
<1> QED
  BY <1>2 DEF Message, RootOf

(* The channels have room for one. *)
LEMMA PutFits ==
    ASSUME NEW S, NEW e \in S
    PROVE  <<e>> \in Seq(S) /\ Len(<<e>>) <= 1
  OBVIOUS

LEMMA TakeFits ==
    ASSUME NEW S, NEW s \in Seq(S), Len(s) <= 1, s # <<>>
    PROVE  Tail(s) \in Seq(S) /\ Len(Tail(s)) <= 1 /\ Head(s) \in S
  BY HeadTailProperties, LenProperties

LEMMA Failures ==
    ASSUME NEW r \in Requests, NEW e \in {"failed", "inflight", "closed", "dropped"}
    PROVE  Failed(r, e) \in Step
  BY ProxyAssumption DEF Failed, Step, Requests

LEMMA NoSteps == NoStep \in Step
  BY ProxyAssumption DEF NoStep, Step
-----------------------------------------------------------------------------
LEMMA InitInv == Init => Inv
<1> SUFFICES ASSUME Init PROVE Inv
  OBVIOUS
<1>1. <<>> \in Seq(Message) /\ <<>> \in Seq(Step) /\ <<>> \in Seq(Answer) /\ Len(<<>>) = 0
  BY EmptySeq
<1>2. ClientTypes
  BY <1>1, ProxyAssumption DEF Init, ClientTypes
<1>10. Unread
  BY DEF Init, Unread
<1>3. ReqTypes
  <2>1. NoReq \in ReqRec /\ NoReq.pc = "none"
    BY <1>1, NoSteps, ProxyAssumption DEF NoReq, ReqRec, Pcs, Early, Requests
  <2> QED
    BY <2>1 DEF Init, ReqTypes, Holding
<1>4. ConvTypes
  BY ProxyAssumption DEF Init, ConvTypes, ConvRec, NoConv
<1>5. LoopTypes
  BY ProxyAssumption DEF Init, LoopTypes, LoopRec, NoLoop
<1>6. ChannelTypes
  BY <1>1 DEF Init, ChannelTypes
<1>7. TurnsOwned
  BY ProxyAssumption DEF Init, TurnsOwned, NoLoop, Requests
<1>8. Agree
  BY DEF Init, Agree, NoReq
<1>9. FileInv
  BY DEF Init, FileInv, NoConv
<1> QED
  BY <1>2, <1>3, <1>4, <1>5, <1>6, <1>7, <1>8, <1>9, <1>10 DEF Inv, TypeInv
-----------------------------------------------------------------------------
(* The clients. *)
HandlerStep(r) == Handler(r) \/ RunSends(r)
ServerStep == Expire \/ Removals \/ Stop \/ Killed \/ Boot

LEMMA OnlyClients ==
    ASSUME NEW r \in Requests,
           HandlerStep(r) \/ ReadLoop(r) \/ ModelAsks(r) \/ ServerStep
    PROVE  UNCHANGED <<sent, hist, asks>>
<1>1. CASE Handler(r)
  BY <1>1 DEF Handler, clientVars, Lookup, Decide, DropConv, StartRefuses, StartPrepares, OpenFails, Open,
              Supersede, AdvancePush, AdvanceRun, TakeFailure, TakeStep, Rekey
<1>2. CASE RunSends(r) \/ ReadLoop(r) \/ ModelAsks(r)
  BY <1>2 DEF clientVars, RunSends, ReadLoop, ModelAsks, Execute, ExecSends, ExecWakes, ExecCancelled, TurnEnds, TurnClosed, ProcessExits
<1>3. CASE ServerStep
  BY <1>3 DEF ServerStep, clientVars, Expire, ExpireCollects, ExpireCloses, Removals, RemoveFile, Stop, Killed, Lost, Boot
<1> QED
  BY <1>1, <1>2, <1>3 DEF HandlerStep

LEMMA ClientStep ==
    ASSUME TypeInv, [Next]_vars
    PROVE  ClientTypes'
<1> USE ProxyAssumption DEF ClientTypes
<1>0. ClientTypes /\ ReqTypes /\ Unread
  BY DEF TypeInv
<1>1. ASSUME NEW a \in Clients, ClientSends(a) PROVE ClientTypes'
  <2>1. sent < MaxRequests /\ sent' = sent + 1 /\ asks' = [asks EXCEPT ![a] = sent + 1] /\ hist' = hist
    BY <1>1 DEF ClientSends
  <2> QED
    BY <1>0, <2>1
<1>2. ASSUME NEW a \in Clients, ClientReads(a) PROVE ClientTypes'
  <2>8. asks[a] # 0 /\ asks' = [asks EXCEPT ![a] = 0] /\ sent' = sent
    BY <1>2, Zenon DEF ClientReads
  <2>1. asks[a] \in Requests
    BY <1>0, <2>8 DEF Requests
  <2>2. req[asks[a]].input \in Seq(Message) /\ req[asks[a]].input # <<>>
    BY <1>0, <2>1, <2>8 DEF ReqTypes, ReqRec, Unread
  <2>3. Len(req[asks[a]].input) \in Nat /\ Len(req[asks[a]].input) # 0
    BY <2>2, LenProperties, EmptySeq
  <2>4. \A n \in {1, Len(req[asks[a]].input)} : Key(asks[a], n) \in Seq(Message)
    BY <1>0, <2>1, <2>3, KeyTyped
  <2>5. \/ hist' = hist
        \/ \E n \in {1, Len(req[asks[a]].input)} :
              hist' = [hist EXCEPT ![a] = req[asks[a]].prior \o SubSeq(req[asks[a]].input, 1, n)
                                            \o <<Reply(asks[a], req[asks[a]].step.ids)>>]
    BY <1>2, Zenon DEF ClientReads
  <2>6. hist' \in [Clients -> Seq(Message)]
    BY <1>0, <2>4, <2>5 DEF Key
  <2>7. asks' \in [Clients -> 0..MaxRequests] /\ sent' = sent
    BY <1>0, <2>8
  <2> QED
    BY <1>0, <2>6, <2>7
<1>3. ASSUME NEW a \in Clients, ClientHangsUp(a) PROVE ClientTypes'
  BY <1>0, <1>3 DEF ClientHangsUp
<1>4. CASE \E r \in Requests : HandlerStep(r) \/ ReadLoop(r) \/ ModelAsks(r)
  BY <1>0, <1>4, OnlyClients
<1>5. CASE ServerStep
  <2>1. 1 \in Requests
    BY DEF Requests
  <2> QED
    BY <1>0, <1>5, <2>1, OnlyClients
<1>6. CASE UNCHANGED vars
  BY <1>0, <1>6 DEF vars, clientVars
<1> QED
  BY <1>1, <1>2, <1>3, <1>4, <1>5, <1>6 DEF Next, HandlerStep, ServerStep
-----------------------------------------------------------------------------
(* A step of a handler changes the record of its request only, to x.  The   *)
(* conversation of a request is set before it is past opening one, to a     *)
(* conversation that is; and there is no way back to the start.             *)
Answered == {"wait", "rekey", "done"}
Moves(r, x) ==
    /\ x \in ReqRec /\ req' = [req EXCEPT ![r] = x] /\ sent' = sent
    /\ req[r].pc \notin {"none", "done"} /\ x.pc # "none"
    /\ x.prior = req[r].prior /\ x.input = req[r].input
    /\ x.pc \in Holding => x.conv # 0
    /\ x.conv # req[r].conv => /\ req[r].pc \in Early
                               /\ \/ x.conv = 0
                                  \/ x.conv = r /\ x.pc \notin Early
                                  \/ req[x.conv].pc \notin Early
    /\ req[r].pc \notin Early => x.pc \notin Early
    /\ req[r].pc \in Answered => x.pc \in Answered

LEMMA OwnRec ==
    ASSUME TypeInv, NEW r \in Requests
    PROVE  /\ req[r] \in ReqRec /\ req \in [Requests -> ReqRec]
           /\ req[r].pc \in Holding => req[r].conv \in Requests /\ req[r].conv # 0
<1>1. req[r] \in ReqRec /\ req \in [Requests -> ReqRec]
  BY DEF TypeInv, ReqTypes
<1>2. req[r].pc \in Holding => req[r].conv # 0
  BY DEF TypeInv, ReqTypes
<1>3. req[r].conv \in 0..MaxRequests
  BY <1>1 DEF ReqRec
<1> QED
  BY <1>1, <1>2, <1>3, ProxyAssumption DEF Requests

LEMMA LookupMoves ==
    ASSUME TypeInv, Agree, NEW r \in Requests, Lookup(r)
    PROVE  \E x : Moves(r, x)
<1> DEFINE c == IF req[r].prior \in DOMAIN convs THEN convs[req[r].prior] ELSE 0
           x == [req[r] EXCEPT !.pc = "decide", !.conv = c]
<1>0. /\ req[r] \in ReqRec /\ req \in [Requests -> ReqRec]
      /\ req[r].pc \in Holding => req[r].conv \in Requests /\ req[r].conv # 0
  BY OwnRec
<1>1. req[r].pc = "lookup" /\ req' = [req EXCEPT ![r].pc = "decide", ![r].conv = c] /\ sent' = sent
  BY DEF Lookup, At, clientVars
<1>2. c \in 0..MaxRequests /\ (c = 0 \/ req[c].pc \notin Early)
  BY ProxyAssumption DEF Agree, Requests
<1> HIDE DEF c
<1>3. x \in ReqRec
  <2>1. "decide" \in Pcs
    BY DEF Pcs, Early
  <2> QED
    BY <1>0, <1>2, <2>1 DEF ReqRec
<1>4. req' = [req EXCEPT ![r] = x]
  BY <1>0, <1>1 DEF ReqRec
<1>5. x.pc = "decide" /\ x.conv = c /\ x.prior = req[r].prior /\ x.input = req[r].input
  BY <1>0 DEF ReqRec
<1> HIDE DEF x
<1> QED
  BY <1>1, <1>2, <1>3, <1>4, <1>5 DEF Moves, Holding, Early, Answered

LEMMA StepThere ==
    ASSUME TypeInv, NEW r \in Requests, req[r].pc \in Holding, steps[req[r].conv] # <<>>
    PROVE  Head(steps[req[r].conv]) \in Step
<1>1. req[r].conv \in Requests
  BY OwnRec
<1>2. steps[req[r].conv] \in Seq(Step) /\ Len(steps[req[r].conv]) <= 1
  BY <1>1 DEF TypeInv, ChannelTypes
<1> QED
  BY <1>2, TakeFits

LEMMA StartRefusesMoves ==
    ASSUME TypeInv, NEW r \in Requests, StartRefuses(r)
    PROVE  \E x : Moves(r, x)
<1>0. /\ req[r] \in ReqRec /\ req \in [Requests -> ReqRec]
      /\ req[r].pc \in Holding => req[r].conv \in Requests /\ req[r].conv # 0
  BY OwnRec
<1>1. /\ req[r].pc = "start" /\ sent' = sent
      /\ \E p \in {"done"} : req' = [req EXCEPT ![r].pc = p, ![r].step = NoStep]
  BY Zenon DEF StartRefuses, At, Respond, clientVars
<1>2. PICK p \in {"done"} : req' = [req EXCEPT ![r].pc = p, ![r].step = NoStep]
  BY <1>1
<1> DEFINE x == [req[r] EXCEPT !.pc = p, !.step = NoStep]
<1>3. NoStep \in Step
  BY NoSteps
<1>4. x \in ReqRec
  <2>1. p \in Pcs
    BY <1>2 DEF Pcs, Early
  <2> QED
    BY <1>0, <1>3, <2>1 DEF ReqRec
<1>5. req' = [req EXCEPT ![r] = x]
  BY <1>0, <1>2 DEF ReqRec
<1>6. x.pc = p /\ x.prior = req[r].prior /\ x.input = req[r].input /\ x.conv = req[r].conv
  BY <1>0 DEF ReqRec
<1> HIDE DEF x
<1> QED
  BY <1>1, <1>2, <1>3, <1>4, <1>5, <1>6, <1>0 DEF Moves, Holding, Early, Answered

LEMMA StartPreparesMoves ==
    ASSUME TypeInv, NEW r \in Requests, StartPrepares(r)
    PROVE  \E x : Moves(r, x)
<1>0. /\ req[r] \in ReqRec /\ req \in [Requests -> ReqRec]
      /\ req[r].pc \in Holding => req[r].conv \in Requests /\ req[r].conv # 0
  BY OwnRec
<1>1. /\ req[r].pc = "start" /\ sent' = sent
      /\ \E p \in {"open"} : req' = [req EXCEPT ![r].pc = p]
  BY Zenon DEF StartPrepares, At, Goto, clientVars
<1>2. PICK p \in {"open"} : req' = [req EXCEPT ![r].pc = p]
  BY <1>1
<1> DEFINE x == [req[r] EXCEPT !.pc = p]
<1>3. x \in ReqRec
  <2>1. p \in Pcs
    BY <1>2 DEF Pcs, Early
  <2> QED
    BY <1>0, <2>1 DEF ReqRec
<1>4. req' = [req EXCEPT ![r] = x]
  BY <1>0, <1>2 DEF ReqRec
<1>5. x.pc = p /\ x.prior = req[r].prior /\ x.input = req[r].input /\ x.conv = req[r].conv
  BY <1>0 DEF ReqRec
<1> HIDE DEF x
<1> QED
  BY <1>1, <1>2, <1>3, <1>4, <1>5, <1>0 DEF Moves, Holding, Early, Answered

LEMMA OpenFailsMoves ==
    ASSUME TypeInv, NEW r \in Requests, OpenFails(r)
    PROVE  \E x : Moves(r, x)
<1>0. /\ req[r] \in ReqRec /\ req \in [Requests -> ReqRec]
      /\ req[r].pc \in Holding => req[r].conv \in Requests /\ req[r].conv # 0
  BY OwnRec
<1>1. /\ req[r].pc = "open" /\ sent' = sent
      /\ \E p \in {"done"} : req' = [req EXCEPT ![r].pc = p, ![r].step = NoStep]
  BY Zenon DEF OpenFails, At, Respond, clientVars
<1>2. PICK p \in {"done"} : req' = [req EXCEPT ![r].pc = p, ![r].step = NoStep]
  BY <1>1
<1> DEFINE x == [req[r] EXCEPT !.pc = p, !.step = NoStep]
<1>3. NoStep \in Step
  BY NoSteps
<1>4. x \in ReqRec
  <2>1. p \in Pcs
    BY <1>2 DEF Pcs, Early
  <2> QED
    BY <1>0, <1>3, <2>1 DEF ReqRec
<1>5. req' = [req EXCEPT ![r] = x]
  BY <1>0, <1>2 DEF ReqRec
<1>6. x.pc = p /\ x.prior = req[r].prior /\ x.input = req[r].input /\ x.conv = req[r].conv
  BY <1>0 DEF ReqRec
<1> HIDE DEF x
<1> QED
  BY <1>1, <1>2, <1>3, <1>4, <1>5, <1>6, <1>0 DEF Moves, Holding, Early, Answered

LEMMA DropConvMoves ==
    ASSUME TypeInv, NEW r \in Requests, DropConv(r)
    PROVE  \E x : Moves(r, x)
<1>0. /\ req[r] \in ReqRec /\ req \in [Requests -> ReqRec]
      /\ req[r].pc \in Holding => req[r].conv \in Requests /\ req[r].conv # 0
  BY OwnRec
<1>1. /\ req[r].pc = "drop" /\ sent' = sent
      /\ \E p \in {"start"} : req' = [req EXCEPT ![r].pc = p, ![r].conv = 0]
  BY Zenon DEF DropConv, At, clientVars
<1>2. PICK p \in {"start"} : req' = [req EXCEPT ![r].pc = p, ![r].conv = 0]
  BY <1>1
<1> DEFINE x == [req[r] EXCEPT !.pc = p, !.conv = 0]
<1>3. 0 \in 0..MaxRequests
  BY ProxyAssumption
<1>4. x \in ReqRec
  <2>1. p \in Pcs
    BY <1>2 DEF Pcs, Early
  <2> QED
    BY <1>0, <1>3, <2>1 DEF ReqRec
<1>5. req' = [req EXCEPT ![r] = x]
  BY <1>0, <1>2 DEF ReqRec
<1>6. x.pc = p /\ x.prior = req[r].prior /\ x.input = req[r].input /\ x.conv = 0
  BY <1>0 DEF ReqRec
<1> HIDE DEF x
<1> QED
  BY <1>1, <1>2, <1>3, <1>4, <1>5, <1>6, <1>0, ProxyAssumption DEF Moves, Holding, Early, Answered, Requests

LEMMA AdvancePushMoves ==
    ASSUME TypeInv, NEW r \in Requests, AdvancePush(r)
    PROVE  \E x : Moves(r, x)
<1>0. /\ req[r] \in ReqRec /\ req \in [Requests -> ReqRec]
      /\ req[r].pc \in Holding => req[r].conv \in Requests /\ req[r].conv # 0
  BY OwnRec
<1>1. /\ req[r].pc = "push" /\ sent' = sent
      /\ \E p \in {"wait"} : req' = [req EXCEPT ![r].pc = p]
  BY Zenon DEF AdvancePush, At, Goto, clientVars
<1>2. PICK p \in {"wait"} : req' = [req EXCEPT ![r].pc = p]
  BY <1>1
<1> DEFINE x == [req[r] EXCEPT !.pc = p]
<1>3. x \in ReqRec
  <2>1. p \in Pcs
    BY <1>2 DEF Pcs, Early
  <2> QED
    BY <1>0, <2>1 DEF ReqRec
<1>4. req' = [req EXCEPT ![r] = x]
  BY <1>0, <1>2 DEF ReqRec
<1>5. x.pc = p /\ x.prior = req[r].prior /\ x.input = req[r].input /\ x.conv = req[r].conv
  BY <1>0 DEF ReqRec
<1> HIDE DEF x
<1> QED
  BY <1>1, <1>2, <1>3, <1>4, <1>5, <1>0 DEF Moves, Holding, Early, Answered

LEMMA AdvanceRunMoves ==
    ASSUME TypeInv, NEW r \in Requests, AdvanceRun(r)
    PROVE  \E x : Moves(r, x)
<1>0. /\ req[r] \in ReqRec /\ req \in [Requests -> ReqRec]
      /\ req[r].pc \in Holding => req[r].conv \in Requests /\ req[r].conv # 0
  BY OwnRec
<1>1. /\ req[r].pc = "run" /\ sent' = sent
      /\ \E p \in {"wait"} : req' = [req EXCEPT ![r].pc = p]
  BY Zenon DEF AdvanceRun, At, Goto, clientVars
<1>2. PICK p \in {"wait"} : req' = [req EXCEPT ![r].pc = p]
  BY <1>1
<1> DEFINE x == [req[r] EXCEPT !.pc = p]
<1>3. x \in ReqRec
  <2>1. p \in Pcs
    BY <1>2 DEF Pcs, Early
  <2> QED
    BY <1>0, <2>1 DEF ReqRec
<1>4. req' = [req EXCEPT ![r] = x]
  BY <1>0, <1>2 DEF ReqRec
<1>5. x.pc = p /\ x.prior = req[r].prior /\ x.input = req[r].input /\ x.conv = req[r].conv
  BY <1>0 DEF ReqRec
<1> HIDE DEF x
<1> QED
  BY <1>1, <1>2, <1>3, <1>4, <1>5, <1>0 DEF Moves, Holding, Early, Answered

LEMMA DecideMoves ==
    ASSUME TypeInv, NEW r \in Requests, Decide(r)
    PROVE  \E x : Moves(r, x)
<1>0. /\ req[r] \in ReqRec /\ req \in [Requests -> ReqRec]
      /\ req[r].pc \in Holding => req[r].conv \in Requests /\ req[r].conv # 0
  BY OwnRec
<1>1. /\ req[r].pc = "decide" /\ sent' = sent
      /\ \E p \in {"push", "run", "drop", "start"} : req' = [req EXCEPT ![r].pc = p] /\ (p = "start" \/ req[r].conv # 0)
  BY Zenon DEF Decide, At, Goto, clientVars, Carries, Fits
<1>2. PICK p \in {"push", "run", "drop", "start"} : req' = [req EXCEPT ![r].pc = p] /\ (p = "start" \/ req[r].conv # 0)
  BY <1>1
<1> DEFINE x == [req[r] EXCEPT !.pc = p]
<1>3. x \in ReqRec
  <2>1. p \in Pcs
    BY <1>2 DEF Pcs, Early
  <2> QED
    BY <1>0, <2>1 DEF ReqRec
<1>4. req' = [req EXCEPT ![r] = x]
  BY <1>0, <1>2 DEF ReqRec
<1>5. x.pc = p /\ x.prior = req[r].prior /\ x.input = req[r].input /\ x.conv = req[r].conv
  BY <1>0 DEF ReqRec
<1> HIDE DEF x
<1> QED
  BY <1>1, <1>2, <1>3, <1>4, <1>5, <1>0 DEF Moves, Holding, Early, Answered

LEMMA TakeStepMoves ==
    ASSUME TypeInv, NEW r \in Requests, TakeStep(r)
    PROVE  \E x : Moves(r, x)
<1>0. /\ req[r] \in ReqRec /\ req \in [Requests -> ReqRec]
      /\ req[r].pc \in Holding => req[r].conv \in Requests /\ req[r].conv # 0
  BY OwnRec
<1>1. /\ req[r].pc = "wait" /\ sent' = sent /\ steps[req[r].conv] # <<>>
      /\ \E p \in {"rekey"} : req' = [req EXCEPT ![r].pc = p, ![r].step = Head(steps[req[r].conv])]
  BY Zenon DEF TakeStep, At, clientVars
<1>2. PICK p \in {"rekey"} : req' = [req EXCEPT ![r].pc = p, ![r].step = Head(steps[req[r].conv])]
  BY <1>1
<1> DEFINE x == [req[r] EXCEPT !.pc = p, !.step = Head(steps[req[r].conv])]
<1>3. Head(steps[req[r].conv]) \in Step
  BY <1>0, <1>1, StepThere DEF Holding
<1>4. x \in ReqRec
  <2>1. p \in Pcs
    BY <1>2 DEF Pcs, Early
  <2> QED
    BY <1>0, <1>3, <2>1 DEF ReqRec
<1>5. req' = [req EXCEPT ![r] = x]
  BY <1>0, <1>2 DEF ReqRec
<1>6. x.pc = p /\ x.prior = req[r].prior /\ x.input = req[r].input /\ x.conv = req[r].conv
  BY <1>0 DEF ReqRec
<1> HIDE DEF x
<1> QED
  BY <1>1, <1>2, <1>3, <1>4, <1>5, <1>6, <1>0 DEF Moves, Holding, Early, Answered

LEMMA RekeyMoves ==
    ASSUME TypeInv, NEW r \in Requests, Rekey(r)
    PROVE  \E x : Moves(r, x)
<1>0. /\ req[r] \in ReqRec /\ req \in [Requests -> ReqRec]
      /\ req[r].pc \in Holding => req[r].conv \in Requests /\ req[r].conv # 0
  BY OwnRec
<1>1. /\ req[r].pc = "rekey" /\ sent' = sent
      /\ \E p \in {"done"} : req' = [req EXCEPT ![r].pc = p]
  BY Zenon DEF Rekey, At, Goto, clientVars
<1>2. PICK p \in {"done"} : req' = [req EXCEPT ![r].pc = p]
  BY <1>1
<1> DEFINE x == [req[r] EXCEPT !.pc = p]
<1>3. x \in ReqRec
  <2>1. p \in Pcs
    BY <1>2 DEF Pcs, Early
  <2> QED
    BY <1>0, <2>1 DEF ReqRec
<1>4. req' = [req EXCEPT ![r] = x]
  BY <1>0, <1>2 DEF ReqRec
<1>5. x.pc = p /\ x.prior = req[r].prior /\ x.input = req[r].input /\ x.conv = req[r].conv
  BY <1>0 DEF ReqRec
<1> HIDE DEF x
<1> QED
  BY <1>1, <1>2, <1>3, <1>4, <1>5, <1>0 DEF Moves, Holding, Early, Answered

LEMMA OpenMoves ==
    ASSUME TypeInv, NEW r \in Requests, Open(r)
    PROVE  \E x : Moves(r, x)
<1>0. /\ req[r] \in ReqRec /\ req \in [Requests -> ReqRec]
      /\ req[r].pc \in Holding => req[r].conv \in Requests /\ req[r].conv # 0
  BY OwnRec
<1> DEFINE idle == {c \in all : conv[c].root = RootOf(r) /\ ~conv[c].busy}
           p == IF idle = {} THEN "run" ELSE "supersede"
           x == [req[r] EXCEPT !.pc = p, !.conv = r, !.victims = idle]
<1>1. /\ req[r].pc = "open" /\ sent' = sent
      /\ req' = [req EXCEPT ![r].pc = p, ![r].conv = r, ![r].victims = idle]
  BY Zenon DEF Open, At, clientVars
<1>2. idle \in SUBSET Requests /\ p \in {"run", "supersede"} /\ p \in Pcs
  BY DEF TypeInv, ConvTypes, Pcs
<1> HIDE DEF idle, p
<1>3. x \in ReqRec
  <2>1. r \in 0..MaxRequests
    BY ProxyAssumption DEF Requests
  <2> QED
    BY <1>0, <1>2, <2>1 DEF ReqRec
<1>4. req' = [req EXCEPT ![r] = x]
  BY <1>0, <1>1 DEF ReqRec
<1>5. x.pc = p /\ x.prior = req[r].prior /\ x.input = req[r].input /\ x.conv = r
  BY <1>0 DEF ReqRec
<1> HIDE DEF x
<1>6. r # 0
  BY DEF Requests
<1> QED
  BY <1>1, <1>2, <1>3, <1>4, <1>5, <1>6 DEF Moves, Holding, Early, Answered

LEMMA SupersedeMoves ==
    ASSUME TypeInv, NEW r \in Requests, Supersede(r)
    PROVE  \E x : Moves(r, x)
<1>0. /\ req[r] \in ReqRec /\ req \in [Requests -> ReqRec]
      /\ req[r].pc \in Holding => req[r].conv \in Requests /\ req[r].conv # 0
  BY OwnRec
<1>1. PICK c \in req[r].victims :
          req' = [req EXCEPT ![r].victims = @ \ {c}, ![r].pc = IF req[r].victims = {c} THEN "run" ELSE @]
  BY Zenon DEF Supersede
<1>2. req[r].pc = "supersede" /\ sent' = sent
  BY Zenon DEF Supersede, At, clientVars
<1> DEFINE p == IF req[r].victims = {c} THEN "run" ELSE req[r].pc
           x == [req[r] EXCEPT !.victims = @ \ {c}, !.pc = p]
<1>3. p \in {"run", "supersede"} /\ p \in Pcs
  BY <1>2 DEF Pcs
<1>4. req' = [req EXCEPT ![r] = x]
  BY <1>0, <1>1 DEF ReqRec
<1> HIDE DEF p
<1>5. x \in ReqRec
  BY <1>0, <1>3 DEF ReqRec
<1>6. x.pc = p /\ x.prior = req[r].prior /\ x.input = req[r].input /\ x.conv = req[r].conv
  BY <1>0 DEF ReqRec
<1> HIDE DEF x
<1> QED
  BY <1>0, <1>2, <1>3, <1>4, <1>5, <1>6 DEF Moves, Holding, Early, Answered

LEMMA TakeFailureMoves ==
    ASSUME TypeInv, NEW r \in Requests, TakeFailure(r)
    PROVE  \E x : Moves(r, x)
<1>0. /\ req[r] \in ReqRec /\ req \in [Requests -> ReqRec]
      /\ req[r].pc \in Holding => req[r].conv \in Requests /\ req[r].conv # 0
  BY OwnRec
<1>1. req[r].pc = "wait" /\ sent' = sent /\ steps[req[r].conv] # <<>>
  BY Zenon DEF TakeFailure, At, clientVars
<1>2. Failed(r, "dropped") \in Step /\ Head(steps[req[r].conv]) \in Step
  BY <1>0, <1>1, StepThere, Failures DEF Holding
<1>3. PICK st \in Step : req' = [req EXCEPT ![r].pc = "done", ![r].step = st]
  BY <1>2, Zenon DEF TakeFailure, Respond
<1> DEFINE x == [req[r] EXCEPT !.pc = "done", !.step = st]
<1>4. "done" \in Pcs
  BY DEF Pcs
<1>5. x \in ReqRec
  BY <1>0, <1>3, <1>4 DEF ReqRec
<1>6. req' = [req EXCEPT ![r] = x]
  BY <1>0, <1>3 DEF ReqRec
<1>7. x.pc = "done" /\ x.prior = req[r].prior /\ x.input = req[r].input /\ x.conv = req[r].conv
  BY <1>0 DEF ReqRec
<1> HIDE DEF x
<1> QED
  BY <1>1, <1>5, <1>6, <1>7 DEF Moves, Holding, Early, Answered

LEMMA HandlerMoves ==
    ASSUME TypeInv, Agree, NEW r \in Requests, Handler(r)
    PROVE  \E x : Moves(r, x)
  BY LookupMoves, DecideMoves, DropConvMoves, StartRefusesMoves, StartPreparesMoves, OpenFailsMoves, OpenMoves,
     SupersedeMoves, AdvancePushMoves, AdvanceRunMoves, TakeFailureMoves, TakeStepMoves, RekeyMoves DEF Handler
-----------------------------------------------------------------------------
(* What any step does to the requests: one is sent, one is read, one moves, *)
(* those under way are lost, or nothing happens to them.                    *)
ReqSent(a) ==
    /\ asks[a] = 0 /\ sent < MaxRequests
    /\ sent' = sent + 1 /\ asks' = [asks EXCEPT ![a] = sent + 1]
    /\ \E x \in ReqRec : /\ x.pc = "lookup" /\ x.input # <<>> /\ x.conv = 0
                         /\ req' = [req EXCEPT ![sent + 1] = x]
ReqRead(a) ==
    /\ asks[a] # 0 /\ asks' = [asks EXCEPT ![a] = 0] /\ sent' = sent
    /\ \E x \in ReqRec : /\ x.pc = "done" /\ req[asks[a]].pc = "done" /\ x.conv = req[asks[a]].conv
                         /\ req' = [req EXCEPT ![asks[a]] = x]
ReqLost ==
    /\ asks' = asks /\ sent' = sent
    /\ req' \in [Requests -> ReqRec]
    /\ \A r \in Requests : /\ req'[r].conv = req[r].conv /\ req'[r].input = req[r].input
                           /\ req'[r].pc = IF req[r].pc = "none" THEN "none" ELSE "done"
ReqSame ==
    /\ req' = req /\ sent' = sent
    /\ asks' = asks \/ \E a \in Clients : asks' = [asks EXCEPT ![a] = 0]
ReqMoves == asks' = asks /\ \E r \in Requests : \E x : Moves(r, x)

LEMMA SentEffect ==
    ASSUME TypeInv, NEW a \in Clients, ClientSends(a)
    PROVE  ReqSent(a)
<1>1. PICK h \in Priors(a), k \in Settings : \E i \in Inputs(h) :
          req' = [req EXCEPT ![sent + 1] = [NoReq EXCEPT !.pc = "lookup", !.prior = h, !.input = i, !.knobs = k]]
  BY Zenon DEF ClientSends
<1>2. PICK i \in Inputs(h) :
          req' = [req EXCEPT ![sent + 1] = [NoReq EXCEPT !.pc = "lookup", !.prior = h, !.input = i, !.knobs = k]]
  BY <1>1
<1> DEFINE x == [NoReq EXCEPT !.pc = "lookup", !.prior = h, !.input = i, !.knobs = k]
<1>3. h \in Seq(Message)
  BY PriorsTyped DEF TypeInv
<1>4. i \in Seq(Message) /\ i # <<>>
  BY <1>3, InputsTyped
<1>5. "lookup" \in Pcs
  BY DEF Pcs, Early
<1>6. x \in ReqRec
  <2>1. NoReq \in ReqRec
    <3>1. <<>> \in Seq(Message) /\ "none" \in Pcs /\ 0 \in 0..MaxRequests
      BY EmptySeq, ProxyAssumption DEF Pcs, Early
    <3> QED
      BY <3>1, NoSteps DEF ReqRec, NoReq
  <2> QED
    BY <1>3, <1>4, <1>5, <2>1 DEF ReqRec
<1>7. x.pc = "lookup" /\ x.input = i /\ x.conv = 0
  BY DEF NoReq
<1> HIDE DEF x
<1>8. asks[a] = 0 /\ sent < MaxRequests /\ sent' = sent + 1 /\ asks' = [asks EXCEPT ![a] = sent + 1]
  BY Zenon DEF ClientSends
<1>9. req' = [req EXCEPT ![sent + 1] = x]
  BY <1>2 DEF x
<1> QED
  BY <1>4, <1>6, <1>7, <1>8, <1>9 DEF ReqSent

LEMMA ReadEffect ==
    ASSUME TypeInv, NEW a \in Clients, ClientReads(a)
    PROVE  ReqRead(a)
<1>1. /\ asks[a] # 0 /\ req[asks[a]].pc = "done" /\ asks' = [asks EXCEPT ![a] = 0] /\ sent' = sent
      /\ req' = [req EXCEPT ![asks[a]].prior = <<>>, ![asks[a]].input = <<>>]
  BY Zenon DEF ClientReads
<1>2. asks[a] \in Requests
  BY <1>1, ProxyAssumption DEF TypeInv, ClientTypes, Requests
<1>3. req[asks[a]] \in ReqRec /\ req \in [Requests -> ReqRec]
  BY <1>2, OwnRec
<1> DEFINE x == [req[asks[a]] EXCEPT !.prior = <<>>, !.input = <<>>]
<1>4. <<>> \in Seq(Message)
  BY EmptySeq
<1>5. x \in ReqRec /\ x.pc = req[asks[a]].pc /\ x.conv = req[asks[a]].conv
  BY <1>3, <1>4 DEF ReqRec
<1>6. req' = [req EXCEPT ![asks[a]] = x]
  BY <1>1, <1>2, <1>3 DEF ReqRec
<1> HIDE DEF x
<1> QED
  BY <1>1, <1>5, <1>6 DEF ReqRead

LEMMA LostEffect ==
    ASSUME TypeInv, Lost, up
    PROVE  ReqLost
<1>1. req' = [r \in Requests |-> IF InHandler(r) THEN [req[r] EXCEPT !.pc = "done", !.step = NoStep] ELSE req[r]]
  BY Zenon DEF Lost
<1>2. asks' = asks /\ sent' = sent
  BY Zenon DEF Lost, clientVars
<1>3. ASSUME NEW r \in Requests
      PROVE  /\ req'[r] \in ReqRec
             /\ req'[r].conv = req[r].conv /\ req'[r].input = req[r].input
             /\ req'[r].pc = IF req[r].pc = "none" THEN "none" ELSE "done"
  <2>1. req[r] \in ReqRec
    BY OwnRec
  <2>2. "done" \in Pcs
    BY DEF Pcs
  <2>3. CASE req[r].pc \in {"none", "done"}
    BY <1>1, <2>1, <2>3 DEF InHandler
  <2>4. CASE req[r].pc \notin {"none", "done"}
    BY <1>1, <2>1, <2>2, <2>4, NoSteps DEF InHandler, ReqRec
  <2> QED
    BY <2>3, <2>4
<1>4. req' \in [Requests -> ReqRec]
  BY <1>1, <1>3
<1> QED
  BY <1>2, <1>3, <1>4 DEF ReqLost

LEMMA ReqEffect ==
    ASSUME TypeInv, Agree, [Next]_vars
    PROVE  (\E a \in Clients : ReqSent(a) \/ ReqRead(a)) \/ ReqMoves \/ ReqLost \/ ReqSame
<1>1. CASE \E a \in Clients : ClientSends(a) \/ ClientReads(a)
  BY <1>1, SentEffect, ReadEffect
<1>2. CASE \E a \in Clients : ClientHangsUp(a)
  BY <1>2 DEF ClientHangsUp, ReqSame
<1>3. CASE \E r \in Requests : Handler(r)
  BY <1>3, HandlerMoves, OnlyClients DEF ReqMoves, HandlerStep
<1>4. ASSUME NEW r \in Requests, RunSends(r) \/ ReadLoop(r) \/ ModelAsks(r) PROVE ReqSame
  <2>1. asks' = asks /\ sent' = sent
    BY <1>4, OnlyClients DEF HandlerStep
  <2>2. req' = req
    BY <1>4 DEF RunSends, ReadLoop, ModelAsks, Execute, ExecSends, ExecWakes, ExecCancelled, TurnEnds, TurnClosed, ProcessExits
  <2> QED
    BY <2>1, <2>2 DEF ReqSame
<1>5. CASE Expire \/ Removals \/ Boot
  BY <1>5 DEF Expire, ExpireCollects, ExpireCloses, Removals, RemoveFile, Boot, ReqSame, clientVars
<1>6. CASE Stop \/ Killed
  BY <1>6, LostEffect DEF Stop, Killed
<1>7. CASE UNCHANGED vars
  BY <1>7 DEF vars, clientVars, ReqSame
<1> QED
  BY <1>1, <1>2, <1>3, <1>4, <1>5, <1>6, <1>7 DEF Next
-----------------------------------------------------------------------------
LEMMA ReqStep ==
    ASSUME TypeInv, Agree, [Next]_vars
    PROVE  ReqTypes'
<1>0. ReqTypes /\ ClientTypes
  BY DEF TypeInv
<1>1. ASSUME NEW a \in Clients, ReqSent(a) PROVE ReqTypes'
  <2>1. PICK x \in ReqRec : /\ x.pc = "lookup" /\ x.input # <<>> /\ x.conv = 0
                            /\ req' = [req EXCEPT ![sent + 1] = x]
    BY <1>1 DEF ReqSent
  <2>2. sent + 1 \in Requests /\ sent' = sent + 1 /\ sent \in Nat
    BY <1>0, <1>1, ProxyAssumption DEF ReqSent, ClientTypes, Requests
  <2>3. \A r \in Requests : r \in Nat
    BY ProxyAssumption DEF Requests
  <2> QED
    BY <1>0, <2>1, <2>2, <2>3 DEF ReqTypes, Holding
<1>2. ASSUME NEW a \in Clients, ReqRead(a) PROVE ReqTypes'
  <2>1. PICK x \in ReqRec : /\ x.pc = "done" /\ req[asks[a]].pc = "done"
                            /\ req' = [req EXCEPT ![asks[a]] = x]
    BY <1>2 DEF ReqRead
  <2>2. asks[a] \in Requests /\ sent' = sent
    BY <1>0, <1>2, ProxyAssumption DEF ReqRead, ClientTypes, Requests
  <2> QED
    BY <1>0, <2>1, <2>2 DEF ReqTypes, Holding
<1>3. CASE ReqMoves
  <2>1. PICK r \in Requests : \E x : Moves(r, x)
    BY <1>3 DEF ReqMoves
  <2>2. PICK x : Moves(r, x)
    BY <2>1
  <2> QED
    BY <1>0, <2>2 DEF Moves, ReqTypes, Holding
<1>4. CASE ReqLost
  BY <1>0, <1>4 DEF ReqLost, ReqTypes, Holding
<1>5. CASE ReqSame
  BY <1>0, <1>5 DEF ReqSame, ReqTypes
<1> QED
  BY <1>1, <1>2, <1>3, <1>4, <1>5, ReqEffect

LEMMA UnreadStep ==
    ASSUME TypeInv, Agree, [Next]_vars
    PROVE  Unread'
<1>0. ReqTypes /\ ClientTypes /\ Unread
  BY DEF TypeInv
<1>1. ASSUME NEW a \in Clients, ReqSent(a) PROVE Unread'
  <2>1. PICK x \in ReqRec : x.input # <<>> /\ req' = [req EXCEPT ![sent + 1] = x]
    BY <1>1 DEF ReqSent
  <2>2. sent + 1 \in Requests /\ sent' = sent + 1 /\ sent \in Nat /\ asks' = [asks EXCEPT ![a] = sent + 1]
    BY <1>0, <1>1, ProxyAssumption DEF ReqSent, ClientTypes, Requests
  <2>3. \A b \in Clients : asks[b] \in Nat
    BY <1>0 DEF ClientTypes
  <2> QED
    BY <1>0, <2>1, <2>2, <2>3 DEF ReqTypes, Unread, ClientTypes
<1>2. ASSUME NEW a \in Clients, ReqRead(a) PROVE Unread'
  <2>1. PICK x \in ReqRec : req' = [req EXCEPT ![asks[a]] = x]
    BY <1>2 DEF ReqRead
  <2>2. asks[a] # 0 /\ sent' = sent /\ asks' = [asks EXCEPT ![a] = 0]
    BY <1>2 DEF ReqRead
  <2>3. \A b \in Clients : asks[b] \in Nat /\ sent \in Nat
    BY <1>0 DEF ClientTypes
  <2> QED
    BY <1>0, <2>1, <2>2, <2>3 DEF ReqTypes, Unread, ClientTypes
<1>3. CASE ReqMoves
  <2>1. PICK r \in Requests : \E x : Moves(r, x)
    BY <1>3 DEF ReqMoves
  <2>2. PICK x : Moves(r, x)
    BY <2>1
  <2>3. req' = [req EXCEPT ![r] = x] /\ x.input = req[r].input /\ sent' = sent /\ asks' = asks
    BY <1>3, <2>2 DEF Moves, ReqMoves
  <2> QED
    BY <1>0, <2>3 DEF Unread, ReqTypes
<1>4. CASE ReqLost
  <2>1. \A a \in Clients : asks[a] # 0 => asks[a] \in Requests
    BY <1>0, ProxyAssumption DEF ClientTypes, Requests
  <2> QED
    BY <1>0, <1>4, <2>1 DEF ReqLost, Unread
<1>5. CASE ReqSame
  BY <1>0, <1>5 DEF ReqSame, Unread, ClientTypes
<1> QED
  BY <1>1, <1>2, <1>3, <1>4, <1>5, ReqEffect

(* No way back: a request does not return to the start, gets its            *)
(* conversation there, and once it waits for a step never does anything     *)
(* but that and what follows.                                               *)
Onward ==
    /\ \A r \in Requests : req'[r].pc \in Early => req[r].pc \in Early
    /\ \A r \in Requests : req[r].pc \in Answered => req'[r].pc \in Answered
    /\ \A r \in Requests : req'[r].conv # req[r].conv =>
           /\ req[r].pc \in Early
           /\ req'[r].conv # 0 => req'[req'[r].conv].pc \notin Early

LEMMA OnwardStep ==
    ASSUME TypeInv, Agree, [Next]_vars
    PROVE  Onward
<1>0. ReqTypes /\ ClientTypes /\ \A r \in Requests : r \in Nat
  BY ProxyAssumption DEF TypeInv, Requests
<1>1. ASSUME NEW a \in Clients, ReqSent(a) PROVE Onward
  <2>1. PICK x \in ReqRec : x.pc = "lookup" /\ x.conv = 0 /\ req' = [req EXCEPT ![sent + 1] = x]
    BY <1>1 DEF ReqSent
  <2>2. sent + 1 \in Requests /\ req[sent + 1].pc = "none"
    BY <1>0, <1>1, ProxyAssumption DEF ReqSent, ClientTypes, ReqTypes, Requests
  <2> QED
    BY <1>0, <2>1, <2>2 DEF ReqTypes, Onward, Early, Answered
<1>2. ASSUME NEW a \in Clients, ReqRead(a) PROVE Onward
  <2>1. PICK x \in ReqRec : /\ x.pc = "done" /\ req[asks[a]].pc = "done" /\ x.conv = req[asks[a]].conv
                            /\ req' = [req EXCEPT ![asks[a]] = x]
    BY <1>2 DEF ReqRead
  <2> QED
    BY <1>0, <2>1 DEF ReqTypes, Onward, Early, Answered
<1>3. CASE ReqMoves
  <2>1. PICK r \in Requests : \E x : Moves(r, x)
    BY <1>3 DEF ReqMoves
  <2>2. PICK x : Moves(r, x)
    BY <2>1
  <2>3. x.conv \in 0..MaxRequests /\ (x.conv # 0 => x.conv \in Requests)
    BY <2>2, ProxyAssumption DEF Moves, ReqRec, Requests
  <2> QED
    BY <1>0, <2>2, <2>3 DEF Moves, ReqTypes, Onward
<1>4. CASE ReqLost
  BY <1>0, <1>4 DEF ReqLost, Onward, Early, Answered
<1>5. CASE ReqSame
  BY <1>5 DEF ReqSame, Onward
<1> QED
  BY <1>1, <1>2, <1>3, <1>4, <1>5, ReqEffect
-----------------------------------------------------------------------------
(* What any step does to the conversations: one is closed, looked at,       *)
(* opened or given new keys, a session file is written or removed, all is   *)
(* lost, or nothing happens to them.                                        *)
ConvClosed(c) == CloseConv(c) /\ files' = files
FileDropped(c) == UNCHANGED <<convs, all, conv>> /\ files' = files \ {conv[c].file}
ConvSame == UNCHANGED <<convs, all, conv, files>>
ConvTouched ==
    /\ UNCHANGED <<convs, all, files>>
    /\ \E c \in Requests : \E x \in ConvRec : /\ x.keys = conv[c].keys /\ x.file = conv[c].file
                                              /\ conv' = [conv EXCEPT ![c] = x]
FileWritten(r) ==
    /\ UNCHANGED <<convs, all, conv>>
    /\ req[r].pc = "start" /\ req' = [req EXCEPT ![r].pc = "open"]
    /\ files' = IF req[r].prior = <<>> THEN files ELSE files \cup {r}
FileRemoved(r) ==
    /\ UNCHANGED <<convs, all, conv>>
    /\ req[r].pc = "open" /\ files' = files \ {r}
Opened(r) ==
    /\ UNCHANGED <<convs, files>> /\ all' = all \cup {r}
    /\ req[r].pc = "open" /\ req'[r].pc \notin Early
    /\ \E x \in ConvRec : /\ x.keys = {} /\ x.file = IF req[r].prior = <<>> THEN 0 ELSE r
                          /\ conv' = [conv EXCEPT ![r] = x]
Rekeyed(r) ==
    LET c == req[r].conv IN
    /\ UNCHANGED <<all, files>> /\ req[r].pc = "rekey"
    /\ DOMAIN convs' \subseteq DOMAIN convs \cup NewKeys(r)
    /\ \A k \in DOMAIN convs' : \/ k \in NewKeys(r) /\ convs'[k] = c
                                \/ k \in DOMAIN convs \ conv[c].keys /\ convs'[k] = convs[k]
    /\ \E x \in ConvRec : x.keys = NewKeys(r) /\ x.file = conv[c].file /\ conv' = [conv EXCEPT ![c] = x]
ConvLost ==
    /\ convs' = <<>> /\ all' = {} /\ conv' = [c \in Requests |-> NoConv] /\ files' \subseteq files /\ up' = FALSE
ConvBoot == UNCHANGED <<convs, all, conv>> /\ files' = {}

LEMMA OwnConv ==
    ASSUME TypeInv, NEW c \in Requests
    PROVE  conv[c] \in ConvRec /\ conv \in [Requests -> ConvRec]
  BY DEF TypeInv, ConvTypes

LEMMA LookupEffect ==
    ASSUME TypeInv, Agree, NEW r \in Requests, Lookup(r)
    PROVE  ConvSame \/ ConvTouched
<1> DEFINE c == IF req[r].prior \in DOMAIN convs THEN convs[req[r].prior] ELSE 0
           x == [conv[c] EXCEPT !.busy = TRUE]
<1>1. UNCHANGED <<convs, all, files>> /\ conv' = IF c = 0 THEN conv ELSE [conv EXCEPT ![c].busy = TRUE]
  BY Zenon DEF Lookup
<1>2. c # 0 => c \in Requests
  BY DEF Agree
<1> HIDE DEF c
<1>3. CASE c = 0
  BY <1>1, <1>3 DEF ConvSame
<1>4. CASE c # 0
  <2>1. conv[c] \in ConvRec /\ conv \in [Requests -> ConvRec]
    BY <1>2, <1>4, OwnConv
  <2>2. x \in ConvRec /\ x.keys = conv[c].keys /\ x.file = conv[c].file
    BY <2>1 DEF ConvRec
  <2>3. conv' = [conv EXCEPT ![c] = x]
    BY <1>1, <1>4, <2>1 DEF ConvRec
  <2> HIDE DEF x
  <2> QED
    BY <1>1, <1>2, <1>4, <2>2, <2>3 DEF ConvTouched
<1> QED
  BY <1>3, <1>4

LEMMA TakeStepEffect ==
    ASSUME TypeInv, NEW r \in Requests, TakeStep(r)
    PROVE  ConvTouched
<1> DEFINE c == req[r].conv
           st == Head(steps[c])
           x == [conv[c] EXCEPT !.parked = (st.stop = "tool_use"), !.asked = st.ids]
<1>1. /\ UNCHANGED <<convs, all, files>> /\ req[r].pc = "wait" /\ steps[c] # <<>>
      /\ conv' = [conv EXCEPT ![c].parked = (st.stop = "tool_use"), ![c].asked = st.ids]
  BY Zenon DEF TakeStep, At
<1>2. c \in Requests
  BY <1>1, OwnRec DEF Holding
<1>3. st \in Step
  BY <1>1, StepThere DEF Holding
<1>4. st.ids \in SUBSET Ids
  BY <1>3 DEF Step
<1>5. conv[c] \in ConvRec /\ conv \in [Requests -> ConvRec]
  BY <1>2, OwnConv
<1> HIDE DEF c, st
<1>6. x \in ConvRec /\ x.keys = conv[c].keys /\ x.file = conv[c].file
  BY <1>4, <1>5 DEF ConvRec
<1>7. conv' = [conv EXCEPT ![c] = x]
  BY <1>1, <1>5 DEF ConvRec
<1> HIDE DEF x
<1> QED
  BY <1>1, <1>2, <1>6, <1>7 DEF ConvTouched

LEMMA OpenEffect ==
    ASSUME TypeInv, NEW r \in Requests, Open(r)
    PROVE  Opened(r)
<1> DEFINE x == [NoConv EXCEPT !.root = RootOf(r), !.knobs = req[r].knobs, !.busy = TRUE, !.closed = FALSE,
                               !.file = IF req[r].prior = <<>> THEN 0 ELSE r]
<1>1. /\ UNCHANGED <<convs, files>> /\ all' = all \cup {r} /\ req[r].pc = "open"
      /\ conv' = [conv EXCEPT ![r] = x]
  BY Zenon DEF Open, At
<1>2. RootOf(r) \in Nat
  BY <1>1, RootTyped DEF TypeInv
<1>3. req[r].knobs \in Settings \cup {0}
  BY OwnRec DEF ReqRec
<1>4. (IF req[r].prior = <<>> THEN 0 ELSE r) \in 0..MaxRequests
  BY ProxyAssumption DEF Requests
<1>5. NoConv \in ConvRec /\ NoConv.keys = {}
  BY ProxyAssumption DEF NoConv, ConvRec
<1>6. x \in ConvRec /\ x.keys = {} /\ x.file = IF req[r].prior = <<>> THEN 0 ELSE r
  BY <1>2, <1>3, <1>4, <1>5 DEF ConvRec
<1> HIDE DEF x
<1>7. req'[r].pc \in {"run", "supersede"}
  <2>1. \E p \in {"run", "supersede"} : \E v : req' = [req EXCEPT ![r].pc = p, ![r].conv = r, ![r].victims = v]
    BY Zenon DEF Open
  <2>2. req[r] \in ReqRec /\ req \in [Requests -> ReqRec]
    BY OwnRec
  <2> QED
    BY <2>1, <2>2 DEF ReqRec
<1> QED
  BY <1>1, <1>6, <1>7 DEF Opened, Early

LEMMA RekeyEffect ==
    ASSUME TypeInv, NEW r \in Requests, Rekey(r)
    PROVE  Rekeyed(r)
<1> DEFINE c == req[r].conv
           kept == Restrict(convs, DOMAIN convs \ conv[c].keys)
           x == [conv[c] EXCEPT !.keys = NewKeys(r), !.busy = FALSE]
<1>1. /\ UNCHANGED <<all, files>> /\ req[r].pc = "rekey"
      /\ convs' = [k \in DOMAIN kept \cup NewKeys(r) |-> IF k \in NewKeys(r) THEN c ELSE kept[k]]
      /\ conv' = [conv EXCEPT ![c].keys = NewKeys(r), ![c].busy = FALSE]
  BY Zenon DEF Rekey, At
<1>2. c \in Requests
  BY <1>1, OwnRec DEF Holding
<1>3. NewKeys(r) \in SUBSET Seq(Message)
  BY NewKeysTyped DEF TypeInv
<1>4. conv[c] \in ConvRec /\ conv \in [Requests -> ConvRec]
  BY <1>2, OwnConv
<1>5. kept = [k \in DOMAIN convs \ conv[c].keys |-> convs[k]]
  BY DEF Restrict
<1> HIDE DEF c, kept
<1>6. x \in ConvRec /\ x.keys = NewKeys(r) /\ x.file = conv[c].file
  BY <1>3, <1>4 DEF ConvRec
<1>7. conv' = [conv EXCEPT ![c] = x]
  BY <1>1, <1>4 DEF ConvRec
<1> HIDE DEF x
<1>8. /\ DOMAIN convs' \subseteq DOMAIN convs \cup NewKeys(r)
      /\ \A k \in DOMAIN convs' : \/ k \in NewKeys(r) /\ convs'[k] = c
                                  \/ k \in DOMAIN convs \ conv[c].keys /\ convs'[k] = convs[k]
  BY <1>1, <1>5
<1> QED
  BY <1>1, <1>6, <1>7, <1>8 DEF Rekeyed, c

LEMMA ConvEffect ==
    ASSUME TypeInv, Agree, [Next]_vars
    PROVE  \/ ConvSame \/ ConvTouched \/ ConvLost \/ ConvBoot
           \/ \E c \in Requests : ConvClosed(c) \/ FileDropped(c)
           \/ \E r \in Requests : FileWritten(r) \/ FileRemoved(r) \/ Opened(r) \/ Rekeyed(r)
<1> DEFINE Goal == \/ ConvSame \/ ConvTouched \/ ConvLost \/ ConvBoot
                   \/ \E c \in Requests : ConvClosed(c) \/ FileDropped(c)
                   \/ \E r \in Requests : FileWritten(r) \/ FileRemoved(r) \/ Opened(r) \/ Rekeyed(r)
<1>1. ASSUME \E a \in Clients : ClientSends(a) \/ ClientReads(a) \/ ClientHangsUp(a) PROVE Goal
  <2>1. ConvSame
    BY <1>1, Zenon DEF ClientSends, ClientReads, ClientHangsUp, convVars, ConvSame
  <2> QED
    BY <2>1
<1>2. ASSUME NEW r \in Requests, Handler(r) PROVE Goal
  <2>1. CASE Lookup(r)
    BY <2>1, LookupEffect
  <2>2. CASE DropConv(r) \/ Supersede(r) \/ TakeFailure(r)
    <3>1. \E c \in Requests : ConvClosed(c)
      <4>1. req[r].pc \in Holding => req[r].conv \in Requests
        BY OwnRec
      <4>2. req[r].victims \subseteq Requests
        BY OwnRec DEF ReqRec
      <4>3. CASE DropConv(r)
        BY <4>1, <4>3, Zenon DEF DropConv, At, Holding, ConvClosed
      <4>4. CASE Supersede(r)
        BY <4>2, <4>4, Zenon DEF Supersede, ConvClosed
      <4>5. CASE TakeFailure(r)
        BY <4>1, <4>5, Zenon DEF TakeFailure, At, Holding, ConvClosed
      <4> QED
        BY <2>2, <4>3, <4>4, <4>5
    <3> QED
      BY <3>1
  <2>3. CASE StartPrepares(r)
    <3>1. FileWritten(r)
      BY <2>3, Zenon DEF StartPrepares, At, Goto, FileWritten
    <3> QED
      BY <3>1
  <2>4. CASE OpenFails(r)
    <3>1. FileRemoved(r)
      BY <2>4, Zenon DEF OpenFails, At, FileRemoved
    <3> QED
      BY <3>1
  <2>5. CASE Open(r)
    BY <2>5, OpenEffect
  <2>6. CASE TakeStep(r)
    BY <2>6, TakeStepEffect
  <2>7. CASE Rekey(r)
    BY <2>7, RekeyEffect
  <2>8. CASE Decide(r) \/ StartRefuses(r) \/ AdvancePush(r) \/ AdvanceRun(r)
    <3>1. ConvSame
      BY <2>8, Zenon DEF Decide, StartRefuses, AdvancePush, AdvanceRun, convVars, ConvSame
    <3> QED
      BY <3>1
  <2> QED
    BY <1>2, <2>1, <2>2, <2>3, <2>4, <2>5, <2>6, <2>7, <2>8 DEF Handler
<1>3. ASSUME NEW r \in Requests, RunSends(r) \/ ReadLoop(r) \/ ModelAsks(r) PROVE Goal
  <2>1. ConvSame
    BY <1>3, Zenon DEF RunSends, ReadLoop, ModelAsks, Execute, ExecSends, ExecWakes, ExecCancelled, TurnEnds,
                       TurnClosed, ProcessExits, convVars, ConvSame
  <2> QED
    BY <2>1
<1>4. ASSUME ExpireCollects \/ UNCHANGED vars PROVE Goal
  <2>1. ConvSame
    BY <1>4, Zenon DEF ExpireCollects, vars, convVars, ConvSame
  <2> QED
    BY <2>1
<1>5. ASSUME ExpireCloses PROVE Goal
  <2>1. \E c \in Requests : ConvClosed(c)
    BY <1>5 DEF ExpireCloses, TypeInv, ConvTypes, ConvClosed
  <2> QED
    BY <2>1
<1>6. ASSUME Stop \/ Killed PROVE Goal
  <2>1. ConvLost
    BY <1>6 DEF Stop, Killed, Lost, ConvLost
  <2> QED
    BY <2>1
<1>7. ASSUME Boot PROVE Goal
  BY <1>7 DEF Boot, ConvBoot
<1>8. ASSUME NEW c \in Requests, RemoveFile(c) PROVE Goal
  <2>1. FileDropped(c)
    BY <1>8, Zenon DEF RemoveFile, FileDropped
  <2> QED
    BY <2>1
<1> HIDE DEF Goal
<1>9. Goal
  BY <1>1, <1>2, <1>3, <1>4, <1>5, <1>6, <1>7, <1>8 DEF Next, Expire, Removals
<1> QED
  BY <1>9 DEF Goal

(* A conversation with a file is about to lose it from when it is closed    *)
(* until the file is removed.                                               *)
LEMMA CloseEffect ==
    ASSUME TypeInv, [Next]_vars
    PROVE  \/ Lost
           \/ \E c \in Requests : RemoveFile(c)
           \/ closing' = closing
           \/ \E c \in Requests : CloseConv(c)
<1>1. CASE \E a \in Clients : ClientSends(a) \/ ClientReads(a) \/ ClientHangsUp(a)
  BY <1>1, Zenon DEF ClientSends, ClientReads, ClientHangsUp, serverVars
<1>2. ASSUME NEW r \in Requests, Handler(r) PROVE closing' = closing \/ \E c \in Requests : CloseConv(c)
  <2>1. req[r].pc \in Holding => req[r].conv \in Requests
    BY OwnRec
  <2>2. req[r].victims \subseteq Requests
    BY OwnRec DEF ReqRec
  <2>3. CASE DropConv(r) \/ TakeFailure(r)
    BY <2>1, <2>3, Zenon DEF DropConv, TakeFailure, At, Holding
  <2>4. CASE Supersede(r)
    BY <2>2, <2>4, Zenon DEF Supersede
  <2>5. CASE ~(DropConv(r) \/ TakeFailure(r) \/ Supersede(r))
    BY <1>2, <2>5, Zenon DEF Handler, serverVars, Lookup, Decide, StartRefuses, StartPrepares, OpenFails,
                             Open, AdvancePush, AdvanceRun, TakeStep, Rekey
  <2> QED
    BY <2>3, <2>4, <2>5
<1>3. CASE \E r \in Requests : RunSends(r) \/ ReadLoop(r) \/ ModelAsks(r)
  BY <1>3, Zenon DEF RunSends, ReadLoop, ModelAsks, Execute, ExecSends, ExecWakes, ExecCancelled, TurnEnds,
                     TurnClosed, ProcessExits, serverVars
<1>4. CASE ExpireCloses
  BY <1>4 DEF ExpireCloses, TypeInv, ConvTypes
<1>5. CASE ExpireCollects \/ Boot \/ UNCHANGED vars
  BY <1>5, Zenon DEF ExpireCollects, Boot, vars, serverVars
<1> QED
  BY <1>1, <1>2, <1>3, <1>4, <1>5 DEF Next, Expire, Removals, Stop, Killed

LEMMA ClosingStep ==
    ASSUME TypeInv, [Next]_vars
    PROVE  closing' \subseteq Requests
<1>1. closing \subseteq Requests
  BY DEF TypeInv, ConvTypes
<1> QED
  BY <1>1, CloseEffect DEF Lost, RemoveFile, CloseConv

LEMMA StaleStep ==
    ASSUME TypeInv, [Next]_vars
    PROVE  stale' \subseteq Requests /\ raced' \subseteq Requests
<1>0. stale \subseteq Requests /\ raced \subseteq Requests /\ all \subseteq Requests
  BY DEF TypeInv, ConvTypes
<1>1. CASE \E a \in Clients : ClientSends(a) \/ ClientReads(a) \/ ClientHangsUp(a)
  BY <1>0, <1>1, Zenon DEF ClientSends, ClientReads, ClientHangsUp, convVars, serverVars
<1>2. ASSUME NEW r \in Requests, Handler(r) PROVE stale' \subseteq Requests /\ raced' \subseteq Requests
  <2>1. CASE Supersede(r)
    <3>1. req[r].victims \subseteq Requests
      BY OwnRec DEF ReqRec
    <3>2. stale' = stale /\ \E c \in req[r].victims : raced' \in {raced, raced \cup {c}}
      BY <2>1, Zenon DEF Supersede, serverVars
    <3> QED
      BY <1>0, <3>1, <3>2
  <2>2. CASE ~Supersede(r)
    <3>1. stale' = stale /\ raced' = raced
      BY <1>2, <2>2, Zenon DEF Handler, convVars, serverVars, Lookup, Decide, DropConv, StartRefuses, StartPrepares, OpenFails,
                               Open, AdvancePush, AdvanceRun, TakeFailure, TakeStep, Rekey
    <3> QED
      BY <1>0, <3>1
  <2> QED
    BY <2>1, <2>2
<1>3. CASE \E r \in Requests : RunSends(r) \/ ReadLoop(r) \/ ModelAsks(r)
  <2>1. stale' = stale /\ raced' = raced
    BY <1>3, Zenon DEF RunSends, ReadLoop, ModelAsks, Execute, ExecSends, ExecWakes, ExecCancelled, TurnEnds,
                       TurnClosed, ProcessExits, convVars, serverVars
  <2> QED
    BY <1>0, <2>1
<1>4. CASE Expire \/ Removals
  BY <1>0, <1>4 DEF Expire, ExpireCollects, ExpireCloses, Removals, RemoveFile, convVars
<1>5. CASE Stop \/ Killed \/ Boot
  BY <1>0, <1>5 DEF Stop, Killed, Lost, Boot
<1>6. CASE UNCHANGED vars
  BY <1>0, <1>6 DEF vars, convVars, serverVars
<1> QED
  BY <1>1, <1>2, <1>3, <1>4, <1>5, <1>6 DEF Next

LEMMA ConvStep ==
    ASSUME TypeInv, Agree, [Next]_vars
    PROVE  ConvTypes'
<1>0. ConvTypes
  BY DEF TypeInv
<1>1. stale' \subseteq Requests /\ raced' \subseteq Requests /\ closing' \subseteq Requests
  BY StaleStep, ClosingStep
<1>2. NoConv \in ConvRec
  BY ProxyAssumption DEF NoConv, ConvRec
<1>3. CASE ConvSame \/ ConvTouched \/ ConvLost \/ ConvBoot
  BY <1>0, <1>1, <1>2, <1>3 DEF ConvTypes, ConvSame, ConvTouched, ConvLost, ConvBoot
<1>4. ASSUME NEW c \in Requests, ConvClosed(c) PROVE ConvTypes'
  <2> DEFINE x == [conv[c] EXCEPT !.keys = {}, !.closed = TRUE]
  <2>1. conv[c] \in ConvRec /\ conv \in [Requests -> ConvRec]
    BY OwnConv
  <2>2. x \in ConvRec
    BY <2>1 DEF ConvRec
  <2>3. conv' = [conv EXCEPT ![c] = x]
    BY <1>4, <2>1 DEF ConvClosed, CloseConv, ConvRec
  <2> HIDE DEF x
  <2>4. conv' \in [Requests -> ConvRec]
    BY <2>1, <2>2, <2>3
  <2>5. all' \subseteq all /\ files' = files
    BY <1>4 DEF ConvClosed, CloseConv
  <2> QED
    BY <1>0, <1>1, <2>4, <2>5 DEF ConvTypes
<1>5. ASSUME NEW r \in Requests, FileWritten(r) \/ FileRemoved(r) \/ Opened(r) PROVE ConvTypes'
  BY <1>0, <1>1, <1>5 DEF ConvTypes, FileWritten, FileRemoved, Opened
<1>6. ASSUME NEW r \in Requests, Rekeyed(r) PROVE ConvTypes'
  BY <1>0, <1>1, <1>6 DEF ConvTypes, Rekeyed
<1>7. ASSUME NEW c \in Requests, FileDropped(c) PROVE ConvTypes'
  BY <1>0, <1>1, <1>7 DEF ConvTypes, FileDropped
<1> QED
  BY <1>3, <1>4, <1>5, <1>6, <1>7, ConvEffect
-----------------------------------------------------------------------------
(* The two ways from a history to its conversation agree. *)
LEMMA AgreeStep ==
    ASSUME TypeInv, Agree, [Next]_vars
    PROVE  Agree'
<1>0. Onward /\ ReqTypes /\ ReqTypes' /\ ConvTypes
  BY OnwardStep, ReqStep DEF TypeInv
<1>1. \A r \in Requests : req'[r].conv # 0 => req'[req'[r].conv].pc \notin Early
  <2> SUFFICES ASSUME NEW r \in Requests, req'[r].conv # 0 PROVE req'[req'[r].conv].pc \notin Early
    OBVIOUS
  <2>1. CASE req'[r].conv # req[r].conv
    BY <1>0, <2>1 DEF Onward
  <2>2. CASE req'[r].conv = req[r].conv
    <3>1. req[req[r].conv].pc \notin Early
      BY <2>2 DEF Agree
    <3>2. req[r].conv \in Requests
      <4>1. req[r].conv \in 0..MaxRequests
        BY OwnRec DEF ReqRec
      <4> QED
        BY <2>2, <4>1, ProxyAssumption DEF Requests
    <3> QED
      BY <1>0, <2>2, <3>1, <3>2 DEF Onward
  <2> QED
    BY <2>1, <2>2
<1> DEFINE Good(k) == convs'[k] \in Requests /\ k \in conv'[convs'[k]].keys /\ req'[convs'[k]].pc \notin Early
<1>2. SUFFICES DOMAIN convs' \subseteq Seq(Message) /\ \A k \in DOMAIN convs' : Good(k)
  BY <1>1 DEF Agree
<1>3. \A k \in DOMAIN convs : convs[k] \in Requests /\ k \in conv[convs[k]].keys /\ req'[convs[k]].pc \notin Early
  BY <1>0 DEF Agree, Onward
<1>4. DOMAIN convs \subseteq Seq(Message)
  BY DEF Agree
<1>5. CASE ConvSame
  BY <1>3, <1>4, <1>5 DEF ConvSame
<1>6. CASE ConvTouched
  BY <1>0, <1>3, <1>4, <1>6 DEF ConvTouched, ConvTypes
<1>7. CASE ConvLost
  BY <1>7 DEF ConvLost
<1>8. CASE ConvBoot
  BY <1>3, <1>4, <1>8 DEF ConvBoot
<1>9. ASSUME NEW c \in Requests, ConvClosed(c)
      PROVE  DOMAIN convs' \subseteq Seq(Message) /\ \A k \in DOMAIN convs' : Good(k)
  <2>1. convs' = [k \in {k \in DOMAIN convs : ~(k \in conv[c].keys /\ convs[k] = c)} |-> convs[k]]
    BY <1>9 DEF ConvClosed, CloseConv, Without, Restrict
  <2>2. \A q \in Requests : q # c => conv'[q] = conv[q]
    BY <1>0, <1>9 DEF ConvClosed, CloseConv, ConvTypes
  <2>3. \A k \in DOMAIN convs' : k \in DOMAIN convs /\ convs'[k] = convs[k] /\ convs[k] # c
    BY <1>3, <2>1
  <2> QED
    BY <1>3, <1>4, <2>2, <2>3
<1>10. ASSUME NEW r \in Requests, FileWritten(r) \/ FileRemoved(r)
       PROVE  DOMAIN convs' \subseteq Seq(Message) /\ \A k \in DOMAIN convs' : Good(k)
  BY <1>3, <1>4, <1>10 DEF FileWritten, FileRemoved
<1>11. ASSUME NEW r \in Requests, Opened(r)
       PROVE  DOMAIN convs' \subseteq Seq(Message) /\ \A k \in DOMAIN convs' : Good(k)
  <2>1. convs' = convs /\ req[r].pc \in Early /\ \A q \in Requests : q # r => conv'[q] = conv[q]
    BY <1>0, <1>11 DEF Opened, ConvTypes, Early
  <2>2. \A k \in DOMAIN convs : convs[k] # r
    BY <2>1 DEF Agree
  <2> QED
    BY <1>3, <1>4, <2>1, <2>2
<1>12. ASSUME NEW r \in Requests, Rekeyed(r)
       PROVE  DOMAIN convs' \subseteq Seq(Message) /\ \A k \in DOMAIN convs' : Good(k)
  <2> DEFINE c == req[r].conv
  <2>1. c \in Requests
    BY <1>12, OwnRec DEF Rekeyed, Holding
  <2>2. req'[c].pc \notin Early
    <3>1. req[c].pc \notin Early
      BY <2>1 DEF Agree, Requests
    <3> QED
      BY <1>0, <2>1, <3>1 DEF Onward
  <2>3. /\ DOMAIN convs' \subseteq DOMAIN convs \cup NewKeys(r)
        /\ \A k \in DOMAIN convs' : \/ k \in NewKeys(r) /\ convs'[k] = c
                                    \/ k \in DOMAIN convs \ conv[c].keys /\ convs'[k] = convs[k]
    BY <1>12 DEF Rekeyed
  <2>4. conv'[c].keys = NewKeys(r) /\ \A q \in Requests : q # c => conv'[q] = conv[q]
    BY <1>0, <1>12, <2>1 DEF Rekeyed, ConvTypes
  <2>5. NewKeys(r) \subseteq Seq(Message)
    BY <1>0, NewKeysTyped
  <2> HIDE DEF c
  <2>6. ASSUME NEW k \in DOMAIN convs' PROVE Good(k)
    <3>1. CASE k \in NewKeys(r) /\ convs'[k] = c
      BY <2>1, <2>2, <2>4, <3>1
    <3>2. CASE k \in DOMAIN convs \ conv[c].keys /\ convs'[k] = convs[k]
      BY <1>3, <2>4, <3>2
    <3> QED
      BY <2>3, <2>6, <3>1, <3>2
  <2> QED
    BY <1>4, <2>3, <2>5, <2>6
<1>13. ASSUME NEW c \in Requests, FileDropped(c)
       PROVE  DOMAIN convs' \subseteq Seq(Message) /\ \A k \in DOMAIN convs' : Good(k)
  BY <1>3, <1>4, <1>13 DEF FileDropped
<1> HIDE DEF Good
<1> QED
  BY <1>5, <1>6, <1>7, <1>8, <1>9, <1>10, <1>11, <1>12, <1>13, ConvEffect

(* A session file has an owner, and keeps it: a request stays as it is       *)
(* until its process is there or has failed to start.                       *)
Kept(f) == req[f].pc = "open" => req'[f].pc = "open" /\ req'[f].prior = req[f].prior

LEMMA OpenStays ==
    ASSUME TypeInv, Agree, [Next]_vars
    PROVE  \/ Boot
           \/ Lost
           \/ up' = up /\ \A f \in Requests : Kept(f)
           \/ up' = up /\ \E r \in Requests : /\ Open(r) \/ OpenFails(r)
                                              /\ \A f \in Requests \ {r} : Kept(f)
<1> DEFINE Calm == up' = up /\ \A f \in Requests : Kept(f)
<1>0. req \in [Requests -> ReqRec]
  BY DEF TypeInv, ReqTypes
<1>1. ASSUME NEW a \in Clients, ClientSends(a) PROVE Calm
  <2>1. up' = up
    BY <1>1, Zenon DEF ClientSends, serverVars
  <2>2. PICK x \in ReqRec : req' = [req EXCEPT ![sent + 1] = x]
    BY <1>1, SentEffect DEF ReqSent
  <2>3. sent + 1 \in Requests /\ req[sent + 1].pc = "none"
    BY <1>1, SentEffect, ProxyAssumption DEF ReqSent, TypeInv, ClientTypes, ReqTypes, Requests
  <2>4. \A f \in Requests : Kept(f)
    BY <1>0, <2>2, <2>3 DEF Kept
  <2> QED
    BY <2>1, <2>4
<1>2. ASSUME NEW a \in Clients, ClientReads(a) PROVE Calm
  <2>1. up' = up
    BY <1>2, Zenon DEF ClientReads, serverVars
  <2>2. PICK x \in ReqRec : req[asks[a]].pc = "done" /\ req' = [req EXCEPT ![asks[a]] = x]
    BY <1>2, ReadEffect DEF ReqRead
  <2>3. \A f \in Requests : Kept(f)
    BY <1>0, <2>2 DEF Kept
  <2> QED
    BY <2>1, <2>3
<1>3. ASSUME NEW r \in Requests, Handler(r)
      PROVE  /\ up' = up /\ \A f \in Requests \ {r} : Kept(f)
             /\ Open(r) \/ OpenFails(r) \/ req[r].pc # "open"
  <2>1. up' = up
    BY <1>3, Zenon DEF Handler, serverVars, Lookup, Decide, DropConv, StartRefuses, StartPrepares, OpenFails, Open,
                       Supersede, AdvancePush, AdvanceRun, TakeFailure, TakeStep, Rekey
  <2>2. PICK x : Moves(r, x)
    BY <1>3, HandlerMoves
  <2>3. \A f \in Requests \ {r} : req'[f] = req[f]
    BY <1>0, <2>2 DEF Moves
  <2>4. Open(r) \/ OpenFails(r) \/ req[r].pc # "open"
    BY <1>3 DEF Handler, Lookup, Decide, DropConv, StartRefuses, StartPrepares,
                Supersede, AdvancePush, AdvanceRun, TakeFailure, TakeStep, Rekey, At
  <2> QED
    BY <2>1, <2>3, <2>4 DEF Kept
<1>4. ASSUME NEW r \in Requests, RunSends(r) \/ ReadLoop(r) \/ ModelAsks(r) PROVE Calm
  <2>1. up' = up /\ req' = req
    BY <1>4, Zenon DEF RunSends, ReadLoop, ModelAsks, Execute, ExecSends, ExecWakes, ExecCancelled, TurnEnds, TurnClosed, ProcessExits, serverVars
  <2> QED
    BY <2>1 DEF Kept
<1>5. ASSUME Expire \/ Removals \/ UNCHANGED vars \/ \E a \in Clients : ClientHangsUp(a) PROVE Calm
  <2>1. up' = up /\ req' = req
    BY <1>5, Zenon DEF Expire, ExpireCollects, ExpireCloses, Removals, RemoveFile, vars, ClientHangsUp, serverVars
  <2> QED
    BY <2>1 DEF Kept
<1>6. ASSUME NEW r \in Requests, Handler(r), req[r].pc # "open" PROVE Calm
  BY <1>3, <1>6 DEF Kept
<1> HIDE DEF Calm
<1>7. \/ Boot \/ Lost \/ Calm
      \/ up' = up /\ \E r \in Requests : /\ Open(r) \/ OpenFails(r)
                                         /\ \A f \in Requests \ {r} : Kept(f)
  BY <1>1, <1>2, <1>3, <1>4, <1>5, <1>6 DEF Next, Stop, Killed
<1> QED
  BY <1>7 DEF Calm

LEMMA FileStep ==
    ASSUME TypeInv, Agree, FileInv, [Next]_vars
    PROVE  FileInv'
<1>0. Onward /\ ReqTypes /\ ReqTypes' /\ ConvTypes
  BY OnwardStep, ReqStep DEF TypeInv
<1> DEFINE Owned == up' => \A f \in files' : \/ req'[f].pc = "open" /\ req'[f].prior # <<>>
                                             \/ f \in (all \cup closing)' /\ conv'[f].file = f
       Grown == closing \subseteq closing'
<1>1. /\ \A c \in Requests : conv[c].file \in {0, c}
      /\ \A c \in Requests : c \in all \/ conv[c].file # 0 => req[c].pc \notin Early /\ req'[c].pc \notin Early
      /\ all \subseteq Requests
      /\ files \subseteq Requests /\ conv \in [Requests -> ConvRec]
      /\ up => \A f \in files : \/ req[f].pc = "open" /\ req[f].prior # <<>>
                                \/ f \in all \cup closing /\ conv[f].file = f
  BY <1>0 DEF FileInv, ConvTypes, Onward
<1>2. ASSUME NEW c \in Requests, ConvClosed(c)
      PROVE  /\ \A q \in Requests : conv'[q].file = conv[q].file
             /\ all' = all \ {c} /\ files' = files
             /\ closing \subseteq closing' /\ (conv[c].file # 0 => c \in closing')
  <2>1. conv' = [conv EXCEPT ![c].keys = {}, ![c].closed = TRUE]
    BY <1>2 DEF ConvClosed, CloseConv
  <2>2. conv[c] \in ConvRec
    BY OwnConv
  <2> QED
    BY <1>1, <1>2, <2>1, <2>2 DEF ConvClosed, CloseConv, ConvRec
<1>3. \A c \in Requests : conv'[c].file \in {0, c}
  <2>1. CASE ConvSame \/ ConvBoot \/ \E r \in Requests : FileWritten(r) \/ FileRemoved(r) \/ FileDropped(r)
    BY <1>1, <2>1 DEF ConvSame, ConvBoot, FileWritten, FileRemoved, FileDropped
  <2>2. CASE ConvTouched \/ \E r \in Requests : Opened(r) \/ Rekeyed(r)
    BY <1>1, <2>2 DEF ConvTouched, Opened, Rekeyed
  <2>3. CASE ConvLost
    BY <2>3 DEF ConvLost, NoConv
  <2> QED
    BY <1>1, <1>2, <2>1, <2>2, <2>3, ConvEffect
<1>4. \A c \in Requests : c \in all' \/ conv'[c].file # 0 => req'[c].pc \notin Early
  <2>1. CASE \/ ConvSame \/ ConvBoot \/ \E r \in Requests : FileWritten(r) \/ FileRemoved(r) \/ FileDropped(r)
             \/ \E c \in Requests : ConvClosed(c)
    BY <1>1, <1>2, <2>1 DEF ConvSame, ConvBoot, FileWritten, FileRemoved, FileDropped
  <2>2. CASE ConvTouched \/ \E r \in Requests : Opened(r) \/ Rekeyed(r)
    BY <1>1, <2>2 DEF ConvTouched, Opened, Rekeyed
  <2>3. CASE ConvLost
    BY <2>3 DEF ConvLost, NoConv
  <2> QED
    BY <2>1, <2>2, <2>3, ConvEffect
<1>5. CASE Boot
  BY <1>3, <1>4, <1>5 DEF Boot, FileInv
<1>6. CASE Lost
  BY <1>3, <1>4, <1>6 DEF Lost, FileInv
<1>7. ASSUME Grown, up' = up, NEW r \in Requests, Opened(r), \A f \in Requests \ {r} : Kept(f) PROVE Owned
  <2>1. /\ files' = files /\ all' = all \cup {r} /\ req[r].pc = "open"
        /\ conv'[r].file = IF req[r].prior = <<>> THEN 0 ELSE r
        /\ \A q \in Requests \ {r} : conv'[q] = conv[q]
    BY <1>1, <1>7 DEF Opened
  <2>2. r \notin all /\ conv[r].file = 0
    BY <1>1, <2>1 DEF Early
  <2> QED
    BY <1>1, <1>7, <2>1, <2>2 DEF Kept
<1>8. ASSUME Grown, up' = up, NEW r \in Requests, FileRemoved(r), \A f \in Requests \ {r} : Kept(f) PROVE Owned
  BY <1>1, <1>8 DEF FileRemoved, Kept
<1>9. ASSUME Grown, up' = up, \A f \in Requests : Kept(f) PROVE Owned
  <2>1. CASE ConvSame \/ ConvBoot \/ ConvLost
    BY <1>1, <1>9, <2>1 DEF ConvSame, ConvBoot, ConvLost, Kept
  <2>2. CASE ConvTouched
    BY <1>1, <1>9, <2>2 DEF ConvTouched, Kept
  <2>3. ASSUME NEW c \in Requests, ConvClosed(c) PROVE Owned
    <3>1. /\ \A q \in Requests : conv'[q].file = conv[q].file
          /\ all' = all \ {c} /\ files' = files /\ (conv[c].file # 0 => c \in closing')
      BY <1>2, <2>3
    <3>2. 0 \notin Requests
      BY DEF Requests
    <3> QED
      BY <1>1, <1>9, <3>1, <3>2 DEF Kept
  <2>4. ASSUME NEW r \in Requests, FileWritten(r) PROVE Owned
    <3>1. /\ req[r].pc = "start" /\ req'[r].pc = "open" /\ req'[r].prior = req[r].prior
          /\ files' = IF req[r].prior = <<>> THEN files ELSE files \cup {r}
          /\ all' = all /\ conv' = conv
      <4>1. req[r] \in ReqRec /\ req \in [Requests -> ReqRec]
        BY OwnRec
      <4> QED
        BY <2>4, <4>1 DEF FileWritten, ReqRec
    <3> QED
      BY <1>1, <1>9, <3>1 DEF Kept
  <2>5. CASE \E r \in Requests : FileRemoved(r) \/ Opened(r)
    BY <1>7, <1>8, <1>9, <2>5
  <2>6. ASSUME NEW r \in Requests, Rekeyed(r) PROVE Owned
    <3>1. all' = all /\ files' = files /\ \A q \in Requests : conv'[q].file = conv[q].file
      BY <1>1, <2>6 DEF Rekeyed
    <3> QED
      BY <1>1, <1>9, <3>1 DEF Kept
  <2>7. ASSUME NEW c \in Requests, FileDropped(c) PROVE Owned
    BY <1>1, <1>9, <2>7 DEF FileDropped, Kept
  <2> HIDE DEF Owned
  <2> QED
    BY <2>1, <2>2, <2>3, <2>4, <2>5, <2>6, <2>7, ConvEffect
<1>10. ASSUME Grown, up' = up, NEW r \in Requests, Open(r) \/ OpenFails(r), \A f \in Requests \ {r} : Kept(f) PROVE Owned
  <2>1. OpenFails(r) => FileRemoved(r)
    BY Zenon DEF OpenFails, At, FileRemoved
  <2> HIDE DEF Owned
  <2> QED
    BY <1>7, <1>8, <1>10, <2>1, OpenEffect
<1>11. ASSUME NEW c \in Requests, RemoveFile(c) PROVE Owned
  <2>1. /\ req' = req /\ up' = up /\ all' = all /\ conv' = conv
        /\ files' = files \ {conv[c].file} /\ closing' = closing \ {c}
    BY <1>11, Zenon DEF RemoveFile
  <2> QED
    BY <1>1, <2>1
<1>12. Owned => FileInv'
  BY <1>3, <1>4 DEF FileInv
<1>13. \/ Lost \/ Grown
       \/ \E c \in Requests : RemoveFile(c)
  BY CloseEffect DEF CloseConv
<1> HIDE DEF Owned, Grown
<1> QED
  BY <1>5, <1>6, <1>9, <1>10, <1>11, <1>12, <1>13, OpenStays
-----------------------------------------------------------------------------
(* What any step does to the turns: one begins, ends or has its last step   *)
(* sent, a read loop goes on within one, all are lost, or nothing happens   *)
(* to them.                                                                 *)
Runs == {"none", "turn", "closed", "inflight", "end_turn", "failed"}
TurnSame == UNCHANGED <<loop, run, calls, serving>>
TurnGoes ==
    /\ run' = run /\ calls' \in 0..MaxCalls /\ serving' \in [Requests -> 0..MaxRequests]
    /\ \E c \in Requests : \E x \in LoopRec : x.turn = loop[c].turn /\ loop' = [loop EXCEPT ![c] = x]
TurnBegins(r) ==
    /\ req'[r].pc = "wait" /\ req'[r].conv # 0
    /\ \E s \in Runs : run' = [run EXCEPT ![r] = s]
    /\ calls' = calls /\ serving' \in [Requests -> 0..MaxRequests]
    /\ \/ loop' = loop
       \/ \E c \in Requests : \E x \in LoopRec : x.turn = r /\ loop' = [loop EXCEPT ![c] = x]
TurnOver(c) ==
    /\ loop[c].turn # 0 /\ \E s \in Runs : run' = [run EXCEPT ![loop[c].turn] = s]
    /\ calls' = calls /\ serving' = serving
    /\ \E x \in LoopRec : x.turn = 0 /\ loop' = [loop EXCEPT ![c] = x]
TurnSent(r) ==
    /\ run' = [run EXCEPT ![r] = "none"] /\ calls' = calls /\ serving' = serving
    /\ \E c \in Requests : \E x \in LoopRec : x.turn = loop[c].turn /\ loop' = [loop EXCEPT ![c] = x]
TurnLost ==
    /\ loop' = [c \in Requests |-> NoLoop] /\ run' = [r \in Requests |-> "none"]
    /\ calls' = calls /\ serving' = [c \in Requests |-> 0]

LEMMA OwnLoop ==
    ASSUME TypeInv, NEW c \in Requests
    PROVE  loop[c] \in LoopRec /\ loop \in [Requests -> LoopRec]
  BY DEF TypeInv, LoopTypes

LEMMA AdvanceRunEffect ==
    ASSUME TypeInv, NEW r \in Requests, AdvanceRun(r)
    PROVE  TurnBegins(r)
<1> DEFINE c == req[r].conv
           x == [loop[c] EXCEPT !.turn = r]
<1>0. /\ req[r] \in ReqRec /\ req \in [Requests -> ReqRec]
      /\ req[r].pc \in Holding => req[r].conv \in Requests /\ req[r].conv # 0
  BY OwnRec
<1>1. req[r].pc = "run" /\ req' = [req EXCEPT ![r].pc = "wait"] /\ calls' = calls
  BY Zenon DEF AdvanceRun, At, Goto
<1>2. c \in Requests /\ c # 0
  BY <1>0, <1>1 DEF Holding
<1>3. req'[r].pc = "wait" /\ req'[r].conv # 0
  BY <1>0, <1>1, <1>2 DEF ReqRec
<1>4. \/ /\ run' = [run EXCEPT ![r] = IF conv[c].closed THEN "closed" ELSE "inflight"]
         /\ loop' = loop /\ serving' = serving
      \/ /\ run' = [run EXCEPT ![r] = "turn"]
         /\ loop' = [loop EXCEPT ![c].turn = r]
         /\ serving' = [serving EXCEPT ![c] = r]
  BY Zenon DEF AdvanceRun
<1>5. r \in 0..MaxRequests /\ serving \in [Requests -> 0..MaxRequests]
  BY ProxyAssumption DEF Requests, TypeInv, LoopTypes
<1> HIDE DEF c
<1>6. serving' \in [Requests -> 0..MaxRequests]
  BY <1>4, <1>5
<1>7. loop[c] \in LoopRec /\ loop \in [Requests -> LoopRec]
  BY <1>2, OwnLoop
<1>8. x \in LoopRec /\ x.turn = r
  BY <1>5, <1>7 DEF LoopRec
<1>9. loop' = loop \/ loop' = [loop EXCEPT ![c] = x]
  BY <1>4, <1>7 DEF LoopRec
<1>10. \E s \in Runs : run' = [run EXCEPT ![r] = s]
  BY <1>4 DEF Runs
<1> HIDE DEF x
<1> QED
  BY <1>1, <1>2, <1>3, <1>6, <1>8, <1>9, <1>10 DEF TurnBegins

LEMMA GoesOn ==
    ASSUME TypeInv, NEW c \in Requests,
           \/ ModelAsks(c) \/ Execute(c) \/ ExecSends(c) \/ ExecWakes(c) \/ ExecCancelled(c)
           \/ ProcessExits(c)
    PROVE  TurnGoes
<1>0. loop[c] \in LoopRec /\ loop \in [Requests -> LoopRec] /\ calls \in 0..MaxCalls /\ serving \in [Requests -> 0..MaxRequests]
  BY OwnLoop DEF TypeInv, LoopTypes
<1>1. ASSUME ModelAsks(c) PROVE TurnGoes
  <2>1. PICK n \in 1..(MaxCalls - calls) :
           /\ calls' = calls + n
           /\ loop' = [loop EXCEPT ![c].pending = @ \cup ((calls + 1)..(calls + n)),
                                   ![c].unclaimed = @ \cup ((calls + 1)..(calls + n))]
    BY <1>1, Zenon DEF ModelAsks
  <2> DEFINE new == (calls + 1)..(calls + n)
             x == [loop[c] EXCEPT !.pending = @ \cup new, !.unclaimed = @ \cup new]
  <2>2. calls' \in 0..MaxCalls /\ new \subseteq Ids
    BY <1>0, <2>1, ProxyAssumption DEF Ids
  <2>3. loop' = [loop EXCEPT ![c].pending = @ \cup new, ![c].unclaimed = @ \cup new]
    BY <2>1
  <2> HIDE DEF new
  <2>4. x \in LoopRec /\ x.turn = loop[c].turn
    BY <1>0, <2>2 DEF LoopRec
  <2>5. loop' = [loop EXCEPT ![c] = x]
    BY <1>0, <2>3 DEF LoopRec
  <2>6. run' = run /\ serving' = serving
    BY <1>1, Zenon DEF ModelAsks
  <2> HIDE DEF x
  <2> QED
    BY <1>0, <2>2, <2>4, <2>5, <2>6 DEF TurnGoes
<1>2. ASSUME Execute(c) PROVE TurnGoes
  <2> DEFINE matched(id) == [loop[c] EXCEPT !.unclaimed = @ \ {id}]
             x(id) == IF id \in loop[c].answered
                      THEN [matched(id) EXCEPT !.answered = @ \ {id}]
                      ELSE [matched(id) EXCEPT !.at = "sends", !.id = id]
  <2>1. PICK id \in loop[c].unclaimed : loop' = [loop EXCEPT ![c] = x(id)]
    BY <1>2, Zenon DEF Execute
  <2>2. id \in 0..MaxCalls
    BY <1>0, ProxyAssumption DEF LoopRec, Ids
  <2>3. x(id) \in LoopRec /\ x(id).turn = loop[c].turn
    BY <1>0, <2>2 DEF LoopRec
  <2>4. run' = run /\ serving' = serving /\ calls' = calls
    BY <1>2, Zenon DEF Execute
  <2> HIDE DEF x
  <2> QED
    BY <1>0, <2>1, <2>3, <2>4 DEF TurnGoes
<1>3. ASSUME ExecSends(c) PROVE TurnGoes
  <2> DEFINE x == [loop[c] EXCEPT !.at = "parked", !.pending = {}]
  <2>1. x \in LoopRec /\ x.turn = loop[c].turn
    BY <1>0 DEF LoopRec
  <2>2. loop' = [loop EXCEPT ![c].at = "parked", ![c].pending = {}] /\ run' = run /\ serving' = serving /\ calls' = calls
    BY <1>3, Zenon DEF ExecSends
  <2>3. loop' = [loop EXCEPT ![c] = x]
    BY <1>0, <2>2 DEF LoopRec
  <2> HIDE DEF x
  <2> QED
    BY <1>0, <2>1, <2>2, <2>3 DEF TurnGoes
<1>4. ASSUME ExecWakes(c) PROVE TurnGoes
  <2> DEFINE m == Head(results[c])
             got == loop[c].answered \cup Resulted(m.input)
             at == IF loop[c].id \in got THEN "free" ELSE "panicked"
             x == [loop[c] EXCEPT !.answered = got \ {loop[c].id}, !.at = at]
  <2>1. /\ results[c] # <<>> /\ run' = run /\ calls' = calls
        /\ serving' = [serving EXCEPT ![c] = m.by]
        /\ loop' = [loop EXCEPT ![c].answered = got \ {loop[c].id}, ![c].at = at]
    BY <1>4, Zenon DEF ExecWakes
  <2>2. m \in Answer
    <3>1. results[c] \in Seq(Answer) /\ Len(results[c]) <= 1
      BY DEF TypeInv, ChannelTypes
    <3> QED
      BY <2>1, <3>1, TakeFits
  <2>3. Resulted(m.input) \subseteq Ids
    <3>1. m.input \in Seq(Message)
      BY <2>2 DEF Answer
    <3>2. \A i \in DOMAIN m.input : m.input[i].ids \subseteq Ids
      <4>1. ASSUME NEW i \in DOMAIN m.input PROVE m.input[i].ids \subseteq Ids
        <5>1. m.input[i] \in Message
          BY <3>1, <4>1, ElementOfSeq, LenProperties
        <5> QED
          BY <5>1 DEF Message
      <4> QED
        BY <4>1
    <3> QED
      BY <3>2 DEF Resulted
  <2>4. m.by \in 0..MaxRequests
    BY <2>2, ProxyAssumption DEF Answer, Requests
  <2> HIDE DEF m
  <2>5. got \ {loop[c].id} \subseteq Ids /\ at \in {"free", "sends", "parked", "panicked", "exited"}
    BY <1>0, <2>3 DEF LoopRec
  <2> HIDE DEF got, at
  <2>6. x \in LoopRec /\ x.turn = loop[c].turn
    BY <1>0, <2>5 DEF LoopRec
  <2>7. loop' = [loop EXCEPT ![c] = x]
    BY <1>0, <2>1 DEF LoopRec
  <2>8. serving' \in [Requests -> 0..MaxRequests]
    BY <1>0, <2>1, <2>4
  <2> HIDE DEF x
  <2> QED
    BY <1>0, <2>1, <2>6, <2>7, <2>8 DEF TurnGoes
<1>5. ASSUME ExecCancelled(c) PROVE TurnGoes
  <2> DEFINE x == [loop[c] EXCEPT !.at = "free"]
  <2>1. x \in LoopRec /\ x.turn = loop[c].turn
    BY <1>0 DEF LoopRec
  <2>2. loop' = [loop EXCEPT ![c].at = "free"] /\ run' = run /\ serving' = serving /\ calls' = calls
    BY <1>5, Zenon DEF ExecCancelled
  <2>3. loop' = [loop EXCEPT ![c] = x]
    BY <1>0, <2>2 DEF LoopRec
  <2> HIDE DEF x
  <2> QED
    BY <1>0, <2>1, <2>2, <2>3 DEF TurnGoes
<1>6. ASSUME ProcessExits(c) PROVE TurnGoes
  <2> DEFINE x == [loop[c] EXCEPT !.at = "exited"]
  <2>1. x \in LoopRec /\ x.turn = loop[c].turn
    BY <1>0 DEF LoopRec
  <2>2. loop' = [loop EXCEPT ![c].at = "exited"] /\ run' = run /\ serving' = serving /\ calls' = calls
    BY <1>6, Zenon DEF ProcessExits
  <2>3. loop' = [loop EXCEPT ![c] = x]
    BY <1>0, <2>2 DEF LoopRec
  <2> HIDE DEF x
  <2> QED
    BY <1>0, <2>1, <2>2, <2>3 DEF TurnGoes
<1> QED
  BY <1>1, <1>2, <1>3, <1>4, <1>5, <1>6

LEMMA OverEffect ==
    ASSUME TypeInv, NEW c \in Requests, TurnEnds(c) \/ TurnClosed(c)
    PROVE  TurnOver(c)
<1> DEFINE x == [loop[c] EXCEPT !.turn = 0]
<1>0. loop[c] \in LoopRec /\ loop \in [Requests -> LoopRec]
  BY OwnLoop
<1>1. /\ loop[c].turn # 0 /\ loop' = [loop EXCEPT ![c].turn = 0] /\ calls' = calls /\ serving' = serving
      /\ \/ run' = [run EXCEPT ![loop[c].turn] = "end_turn"]
         \/ run' = [run EXCEPT ![loop[c].turn] = "failed"]
         \/ run' = [run EXCEPT ![loop[c].turn] = "closed"]
  BY Zenon DEF TurnEnds, TurnClosed
<1>2. x \in LoopRec /\ x.turn = 0
  BY <1>0, ProxyAssumption DEF LoopRec
<1>3. loop' = [loop EXCEPT ![c] = x]
  BY <1>0, <1>1 DEF LoopRec
<1>4. \E s \in Runs : run' = [run EXCEPT ![loop[c].turn] = s]
  BY <1>1 DEF Runs
<1> HIDE DEF x
<1> QED
  BY <1>1, <1>2, <1>3, <1>4 DEF TurnOver

LEMMA OwnRun ==
    ASSUME TypeInv, NEW r \in Requests, run[r] # "none"
    PROVE  req[r].conv \in Requests
<1>1. req[r].conv # 0 /\ req[r].conv \in 0..MaxRequests
  BY OwnRec DEF TypeInv, TurnsOwned, ReqRec
<1> QED
  BY <1>1, ProxyAssumption DEF Requests

LEMMA RunSendsEffect ==
    ASSUME TypeInv, NEW r \in Requests, RunSends(r)
    PROVE  TurnSent(r)
<1> DEFINE c == req[r].conv
           x == [loop[c] EXCEPT !.pending = {}]
<1>1. /\ run[r] # "none" /\ run' = [run EXCEPT ![r] = "none"] /\ calls' = calls /\ serving' = serving
      /\ loop' = [loop EXCEPT ![c].pending = {}]
  BY DEF RunSends
<1>2. c \in Requests
  BY <1>1, OwnRun
<1> HIDE DEF c
<1>3. loop[c] \in LoopRec /\ loop \in [Requests -> LoopRec]
  BY <1>2, OwnLoop
<1>4. x \in LoopRec /\ x.turn = loop[c].turn
  BY <1>3 DEF LoopRec
<1>5. loop' = [loop EXCEPT ![c] = x]
  BY <1>1, <1>3 DEF LoopRec
<1> HIDE DEF x
<1> QED
  BY <1>1, <1>2, <1>4, <1>5 DEF TurnSent

LEMMA TurnEffect ==
    ASSUME TypeInv, [Next]_vars
    PROVE  TurnSame \/ TurnGoes \/ TurnLost \/ \E r \in Requests : TurnBegins(r) \/ TurnOver(r) \/ TurnSent(r)
<1>1. CASE \E a \in Clients : ClientSends(a) \/ ClientReads(a) \/ ClientHangsUp(a)
  BY <1>1, Zenon DEF ClientSends, ClientReads, ClientHangsUp, loopVars, TurnSame
<1>2. ASSUME NEW r \in Requests, Handler(r) PROVE TurnSame \/ TurnBegins(r)
  <2>1. CASE AdvanceRun(r)
    BY <2>1, AdvanceRunEffect
  <2>2. CASE ~AdvanceRun(r)
    BY <1>2, <2>2, Zenon DEF Handler, loopVars, TurnSame, Lookup, Decide, DropConv, StartRefuses, StartPrepares, OpenFails,
                             Open, Supersede, AdvancePush, TakeFailure, TakeStep, Rekey
  <2> QED
    BY <2>1, <2>2
<1>3. ASSUME NEW r \in Requests, RunSends(r) \/ ReadLoop(r) \/ ModelAsks(r) PROVE TurnGoes \/ TurnOver(r) \/ TurnSent(r)
  BY <1>3, GoesOn, OverEffect, RunSendsEffect DEF ReadLoop
<1>4. CASE Expire \/ Removals \/ Boot
  BY <1>4, Zenon DEF Expire, ExpireCollects, ExpireCloses, Removals, RemoveFile, Boot, loopVars, TurnSame
<1>5. CASE Stop \/ Killed
  BY <1>5, Zenon DEF Stop, Killed, Lost, TurnLost
<1>6. CASE UNCHANGED vars
  BY <1>6, Zenon DEF vars, loopVars, TurnSame
<1> QED
  BY <1>1, <1>2, <1>3, <1>4, <1>5, <1>6 DEF Next

LEMMA LoopStep ==
    ASSUME TypeInv, [Next]_vars
    PROVE  LoopTypes'
<1>0. LoopTypes
  BY DEF TypeInv
<1>1. CASE TurnSame \/ TurnGoes \/ \E r \in Requests : TurnBegins(r) \/ TurnOver(r) \/ TurnSent(r)
  BY <1>0, <1>1 DEF LoopTypes, TurnSame, TurnGoes, TurnBegins, TurnOver, TurnSent, Runs
<1>2. CASE TurnLost
  <2>1. NoLoop \in LoopRec
    BY ProxyAssumption DEF NoLoop, LoopRec
  <2> QED
    BY <1>0, <1>2, <2>1, ProxyAssumption DEF LoopTypes, TurnLost
<1> QED
  BY <1>1, <1>2, TurnEffect

LEMMA OwnedStep ==
    ASSUME TypeInv, Agree, [Next]_vars
    PROVE  TurnsOwned'
<1>0. LoopTypes /\ TurnsOwned /\ Onward
  BY OnwardStep DEF TypeInv
<1> DEFINE Held(r) == req'[r].conv # 0 /\ req'[r].pc \in Answered
<1>1. \A r \in Requests : run[r] # "none" \/ (\E c \in Requests : loop[c].turn = r) => Held(r)
  BY <1>0 DEF TurnsOwned, Onward, Answered, Early
<1>2. SUFFICES \A r \in Requests : run'[r] # "none" \/ (\E c \in Requests : loop'[c].turn = r) => Held(r)
  BY DEF TurnsOwned, Answered
<1>3. ASSUME NEW q \in Requests, TurnBegins(q) PROVE Held(q)
  BY <1>3 DEF TurnBegins, Answered
<1> HIDE DEF Held
<1>4. CASE TurnSame
  BY <1>1, <1>4 DEF TurnSame
<1>5. CASE TurnGoes
  BY <1>0, <1>1, <1>5 DEF TurnGoes, LoopTypes
<1>6. CASE TurnLost
  BY <1>6, ProxyAssumption DEF TurnLost, NoLoop, Requests
<1>7. ASSUME NEW q \in Requests, TurnBegins(q)
      PROVE  \A r \in Requests : run'[r] # "none" \/ (\E c \in Requests : loop'[c].turn = r) => Held(r)
  BY <1>0, <1>1, <1>3, <1>7 DEF TurnBegins, LoopTypes
<1>8. ASSUME NEW q \in Requests, TurnOver(q)
      PROVE  \A r \in Requests : run'[r] # "none" \/ (\E c \in Requests : loop'[c].turn = r) => Held(r)
  BY <1>0, <1>1, <1>8, ProxyAssumption DEF TurnOver, LoopTypes, Requests
<1>9. ASSUME NEW q \in Requests, TurnSent(q)
      PROVE  \A r \in Requests : run'[r] # "none" \/ (\E c \in Requests : loop'[c].turn = r) => Held(r)
  BY <1>0, <1>1, <1>9 DEF TurnSent, LoopTypes
<1> QED
  BY <1>4, <1>5, <1>6, <1>7, <1>8, <1>9, TurnEffect
-----------------------------------------------------------------------------
(* What any step does to the channels: one is sent to when it is empty, or  *)
(* received from, all are lost, or nothing happens to them.                 *)
StepSent == results' = results /\ \E c \in Requests : \E st \in Step : steps' = [steps EXCEPT ![c] = <<st>>]
StepTaken ==
    /\ results' = results
    /\ \E c \in Requests : steps[c] # <<>> /\ steps' = [steps EXCEPT ![c] = Tail(@)]
ResultsSent == steps' = steps /\ \E c \in Requests : \E m \in Answer : results' = [results EXCEPT ![c] = <<m>>]
ResultsTaken ==
    /\ steps' = steps
    /\ \E c \in Requests : results[c] # <<>> /\ results' = [results EXCEPT ![c] = Tail(@)]
ChannelsLost == steps' = [c \in Requests |-> <<>>] /\ results' = [c \in Requests |-> <<>>]
ChannelsSame == UNCHANGED <<steps, results>>

LEMMA PushSends ==
    ASSUME TypeInv, NEW r \in Requests, AdvancePush(r)
    PROVE  ResultsSent
<1> DEFINE m == [by |-> r, input |-> req[r].input]
<1>0. /\ req[r] \in ReqRec
      /\ req[r].pc \in Holding => req[r].conv \in Requests /\ req[r].conv # 0
  BY OwnRec
<1>1. req[r].pc = "push" /\ steps' = steps /\ results' = [results EXCEPT ![req[r].conv] = <<m>>]
  BY DEF AdvancePush, At
<1>2. m \in Answer
  BY <1>0 DEF ReqRec, Answer
<1>3. req[r].conv \in Requests
  BY <1>0, <1>1 DEF Holding
<1> HIDE DEF m
<1> QED
  BY <1>1, <1>2, <1>3 DEF ResultsSent

LEMMA TakeTakes ==
    ASSUME TypeInv, NEW r \in Requests, TakeFailure(r) \/ TakeStep(r)
    PROVE  StepTaken
<1>0. req[r].pc \in Holding => req[r].conv \in Requests /\ req[r].conv # 0
  BY OwnRec
<1>1. /\ req[r].pc = "wait" /\ results' = results /\ steps[req[r].conv] # <<>>
      /\ steps' = [steps EXCEPT ![req[r].conv] = Tail(@)]
  BY Zenon DEF TakeFailure, TakeStep, At
<1>2. req[r].conv \in Requests
  BY <1>0, <1>1 DEF Holding
<1> QED
  BY <1>1, <1>2 DEF StepTaken

LEMMA ExecSendsSends ==
    ASSUME TypeInv, NEW c \in Requests, ExecSends(c)
    PROVE  StepSent
<1> DEFINE st == [by |-> serving[c], ids |-> loop[c].pending, stop |-> "tool_use", err |-> "none"]
<1>1. results' = results /\ steps' = [steps EXCEPT ![c] = <<st>>]
  BY DEF ExecSends
<1>2. serving[c] \in 0..MaxRequests /\ loop[c].pending \subseteq Ids
  BY OwnLoop DEF TypeInv, LoopTypes, LoopRec
<1>3. st \in Step
  BY <1>2 DEF Step
<1> HIDE DEF st
<1> QED
  BY <1>1, <1>3 DEF StepSent

LEMMA RunSendsSends ==
    ASSUME TypeInv, NEW r \in Requests, RunSends(r)
    PROVE  StepSent
<1> DEFINE c == req[r].conv
           ended == [by |-> serving[c], ids |-> loop[c].pending, stop |-> "end_turn", err |-> "none"]
           st == IF run[r] = "end_turn" THEN ended ELSE Failed(r, run[r])
<1>1. /\ run[r] \in {"end_turn", "failed", "closed", "inflight"} /\ results' = results
      /\ steps' = [steps EXCEPT ![c] = <<st>>]
  BY DEF RunSends
<1>2. c \in Requests
  BY <1>1, OwnRun
<1> HIDE DEF c
<1>3. serving[c] \in 0..MaxRequests /\ loop[c].pending \subseteq Ids
  BY <1>2, OwnLoop DEF TypeInv, LoopTypes, LoopRec
<1>4. ended \in Step
  BY <1>3 DEF Step
<1>5. run[r] # "end_turn" => Failed(r, run[r]) \in Step
  BY <1>1, Failures
<1> HIDE DEF ended
<1>6. st \in Step
  BY <1>4, <1>5
<1> HIDE DEF st
<1> QED
  BY <1>1, <1>2, <1>6 DEF StepSent

LEMMA ChannelEffect ==
    ASSUME TypeInv, [Next]_vars
    PROVE  ChannelsSame \/ StepSent \/ StepTaken \/ ResultsSent \/ ResultsTaken \/ ChannelsLost
<1>1. CASE \E a \in Clients : ClientSends(a) \/ ClientReads(a) \/ ClientHangsUp(a)
  BY <1>1, Zenon DEF ClientSends, ClientReads, ClientHangsUp, loopVars, ChannelsSame
<1>2. ASSUME NEW r \in Requests, Handler(r) PROVE ChannelsSame \/ StepTaken \/ ResultsSent
  <2>1. CASE AdvancePush(r) \/ TakeFailure(r) \/ TakeStep(r)
    BY <2>1, PushSends, TakeTakes
  <2>2. CASE ~(AdvancePush(r) \/ TakeFailure(r) \/ TakeStep(r))
    BY <1>2, <2>2, Zenon DEF Handler, loopVars, ChannelsSame, Lookup, Decide, DropConv, StartRefuses, StartPrepares, OpenFails,
                             Open, Supersede, AdvanceRun, Rekey
  <2> QED
    BY <2>1, <2>2
<1>3. ASSUME NEW c \in Requests, RunSends(c) \/ ReadLoop(c) \/ ModelAsks(c) PROVE ChannelsSame \/ StepSent \/ ResultsTaken
  <2>1. CASE RunSends(c) \/ ExecSends(c)
    BY <2>1, RunSendsSends, ExecSendsSends
  <2>2. CASE ExecWakes(c)
    BY <2>2, Zenon DEF ExecWakes, ResultsTaken
  <2>3. CASE ModelAsks(c) \/ Execute(c) \/ ExecCancelled(c) \/ TurnEnds(c) \/ TurnClosed(c) \/ ProcessExits(c)
    BY <2>3, Zenon DEF ModelAsks, Execute, ExecCancelled, TurnEnds, TurnClosed, ProcessExits, ChannelsSame
  <2> QED
    BY <1>3, <2>1, <2>2, <2>3 DEF ReadLoop
<1>4. CASE Expire \/ Removals \/ Boot
  BY <1>4, Zenon DEF Expire, ExpireCollects, ExpireCloses, Removals, RemoveFile, Boot, loopVars, ChannelsSame
<1>5. CASE Stop \/ Killed
  BY <1>5, Zenon DEF Stop, Killed, Lost, ChannelsLost
<1>6. CASE UNCHANGED vars
  BY <1>6, Zenon DEF vars, loopVars, ChannelsSame
<1> QED
  BY <1>1, <1>2, <1>3, <1>4, <1>5, <1>6 DEF Next

LEMMA ChannelStep ==
    ASSUME TypeInv, [Next]_vars
    PROVE  ChannelTypes'
<1>0. /\ steps \in [Requests -> Seq(Step)] /\ results \in [Requests -> Seq(Answer)]
      /\ \A c \in Requests : Len(steps[c]) <= 1 /\ Len(results[c]) <= 1
  BY DEF TypeInv, ChannelTypes
<1>1. CASE ChannelsSame
  BY <1>0, <1>1 DEF ChannelTypes, ChannelsSame
<1>2. CASE StepSent
  <2>1. PICK c \in Requests, st \in Step : steps' = [steps EXCEPT ![c] = <<st>>]
    BY <1>2 DEF StepSent
  <2>2. <<st>> \in Seq(Step) /\ Len(<<st>>) <= 1
    BY PutFits
  <2> QED
    BY <1>0, <1>2, <2>1, <2>2 DEF ChannelTypes, StepSent
<1>3. CASE StepTaken
  <2>1. PICK c \in Requests : steps[c] # <<>> /\ steps' = [steps EXCEPT ![c] = Tail(@)]
    BY <1>3 DEF StepTaken
  <2>2. Tail(steps[c]) \in Seq(Step) /\ Len(Tail(steps[c])) <= 1
    BY <1>0, <2>1, TakeFits
  <2> QED
    BY <1>0, <1>3, <2>1, <2>2 DEF ChannelTypes, StepTaken
<1>4. CASE ResultsSent
  <2>1. PICK c \in Requests, m \in Answer : results' = [results EXCEPT ![c] = <<m>>]
    BY <1>4 DEF ResultsSent
  <2>2. <<m>> \in Seq(Answer) /\ Len(<<m>>) <= 1
    BY PutFits
  <2> QED
    BY <1>0, <1>4, <2>1, <2>2 DEF ChannelTypes, ResultsSent
<1>5. CASE ResultsTaken
  <2>1. PICK c \in Requests : results[c] # <<>> /\ results' = [results EXCEPT ![c] = Tail(@)]
    BY <1>5 DEF ResultsTaken
  <2>2. Tail(results[c]) \in Seq(Answer) /\ Len(Tail(results[c])) <= 1
    BY <1>0, <2>1, TakeFits
  <2> QED
    BY <1>0, <1>5, <2>1, <2>2 DEF ChannelTypes, ResultsTaken
<1>6. CASE ChannelsLost
  <2>1. <<>> \in Seq(Step) /\ <<>> \in Seq(Answer) /\ Len(<<>>) = 0
    BY EmptySeq
  <2> QED
    BY <1>6, <2>1 DEF ChannelTypes, ChannelsLost
<1> QED
  BY <1>1, <1>2, <1>3, <1>4, <1>5, <1>6, ChannelEffect
-----------------------------------------------------------------------------
LEMMA NextInv == Inv /\ [Next]_vars => Inv'
<1> SUFFICES ASSUME Inv, [Next]_vars PROVE Inv'
  OBVIOUS
<1>1. TypeInv /\ Agree /\ FileInv
  BY DEF Inv
<1>2. ClientTypes' /\ ReqTypes' /\ Unread' /\ ConvTypes' /\ LoopTypes' /\ ChannelTypes' /\ TurnsOwned'
  BY <1>1, ClientStep, ReqStep, UnreadStep, ConvStep, LoopStep, ChannelStep, OwnedStep
<1>3. Agree' /\ FileInv'
  BY <1>1, AgreeStep, FileStep
<1> QED
  BY <1>2, <1>3 DEF Inv, TypeInv

LEMMA InvTypes == Inv => TypeOK
<1> SUFFICES ASSUME Inv PROVE TypeOK
  OBVIOUS
<1>1. ConvTypes /\ ChannelTypes /\ Agree
  BY DEF Inv, TypeInv
<1> QED
  BY <1>1 DEF ConvTypes, ChannelTypes, Agree, TypeOK, ConvRec

LEMMA InvFiles == Inv => FilesAreOwned
  BY DEF Inv, FileInv, FilesAreOwned

(* At any time the server's state is well typed, neither channel of a       *)
(* conversation holds more than the one value there is room for, and every  *)
(* history the server would look up leads to a conversation that lists that *)
(* history among its keys, so that closing it forgets it. (server, conv:    *)
(* main.go:615-624, 953-985; close: 884-899; the re-keying: 732-744.)       *)
THEOREM ProxyTypeCorrect == Spec => []TypeOK
<1>1. Init => Inv
  BY InitInv
<1>2. Inv /\ [Next]_vars => Inv'
  BY NextInv
<1>3. Inv => TypeOK
  BY InvTypes
<1> QED
  BY <1>1, <1>2, <1>3, PTL DEF Spec

(* While the server runs, every session file on disk belongs to a           *)
(* conversation that is open or being closed or to a request opening one:   *)
(* whatever fails, whoever hangs up, and whether the server before was      *)
(* interrupted or killed. (main.go:97-101, 788-812, 866-879, 884-899.)      *)
THEOREM FilesHaveOwners == Spec => []FilesAreOwned
<1>1. Init => Inv
  BY InitInv
<1>2. Inv /\ [Next]_vars => Inv'
  BY NextInv
<1>3. Inv => FilesAreOwned
  BY InvFiles
<1> QED
  BY <1>1, <1>2, <1>3, PTL DEF Spec
-----------------------------------------------------------------------------
(* The clients that are careful.  What they replay: two histories that go   *)
(* on from the same reply are one history up to it, since a client keeps    *)
(* one of those the reply could have been given to; and every reply in a    *)
(* history was read.                                                        *)
IsReply(m) == m.kind = "reply"
Begins(h, g) == Len(h) <= Len(g) /\ \A i \in 1..Len(h) : h[i] = g[i]
OneStory(g, h) ==
    \A i \in 1..Len(g), j \in 1..Len(h) :
        IsReply(g[i]) /\ IsReply(h[j]) /\ g[i].n = h[j].n => i = j /\ \A k \in 1..i : g[k] = h[k]
Tales == {hist[a] : a \in Clients} \cup {req[r].prior : r \in Requests}
Read(n) == n \in Requests /\ req[n].pc = "done" /\ req[n].input = <<>>
Told(g) == \A i \in 1..Len(g) : IsReply(g[i]) => Read(g[i].n)
Stories == \A g \in Tales : Told(g) /\ \A h \in Tales : OneStory(g, h)

(* A request goes on from a reply, and holds none itself.                   *)
Turning ==
    \A r \in Requests :
        /\ req[r].prior # <<>> => IsReply(req[r].prior[Len(req[r].prior)])
        /\ \A i \in 1..Len(req[r].input) : ~IsReply(req[r].input[i])

LEMMA TalesTyped ==
    ASSUME TypeInv, NEW g \in Tales
    PROVE  g \in Seq(Message) /\ Len(g) \in Nat
<1>1. hist \in [Clients -> Seq(Message)] /\ req \in [Requests -> ReqRec]
  BY DEF TypeInv, ClientTypes, ReqTypes
<1>2. g \in Seq(Message)
  BY <1>1 DEF Tales, ReqRec
<1> QED
  BY <1>2, LenProperties

LEMMA StoryOfBeginnings ==
    ASSUME NEW g, NEW h, NEW a, NEW b, Begins(a, g), Begins(b, h), OneStory(g, h),
           Len(g) \in Nat, Len(h) \in Nat, Len(a) \in Nat, Len(b) \in Nat
    PROVE  OneStory(a, b)
<1> SUFFICES ASSUME NEW i \in 1..Len(a), NEW j \in 1..Len(b), IsReply(a[i]), IsReply(b[j]), a[i].n = b[j].n
             PROVE  i = j /\ \A k \in 1..i : a[k] = b[k]
  BY DEF OneStory
<1>1. i \in 1..Len(g) /\ j \in 1..Len(h) /\ a[i] = g[i] /\ b[j] = h[j]
  BY DEF Begins
<1>2. i = j /\ \A k \in 1..i : g[k] = h[k]
  BY <1>1 DEF OneStory
<1>3. \A k \in 1..i : k \in 1..Len(a) /\ k \in 1..Len(b)
  BY <1>2
<1> QED
  BY <1>2, <1>3 DEF Begins

(* The history a client keeps: a reply that was not read before.            *)
LEMMA KeyParts ==
    ASSUME ReqTypes, Turning, NEW r \in Requests, NEW n \in 1..Len(req[r].input)
    PROVE  LET g == Key(r, n)  p == req[r].prior  l == Len(req[r].prior) + n + 1 IN
           /\ g \in Seq(Message) /\ Len(g) = l /\ l \in Nat /\ n \in Nat
           /\ Len(p) \in Nat /\ \A i \in 1..Len(p) : g[i] = p[i]
           /\ \A i \in (Len(p) + 1)..(l - 1) : ~IsReply(g[i])
           /\ g[l] = Reply(r, req[r].step.ids)
<1> DEFINE p == req[r].prior
           s == SubSeq(req[r].input, 1, n)
           e == <<Reply(r, req[r].step.ids)>>
           q == p \o s
<1>1. /\ p \in Seq(Message) /\ req[r].input \in Seq(Message)
      /\ req[r].step.ids \subseteq Ids
  BY DEF ReqTypes, ReqRec, Step
<1>2. e \in Seq(Message) /\ Len(e) = 1 /\ e[1] = Reply(r, req[r].step.ids)
  BY <1>1, Replies
<1>3. Len(req[r].input) \in Nat /\ n \in Nat /\ n >= 1
  BY <1>1, LenProperties
<1>4. \A i \in 1..n : req[r].input[i] \in Message /\ ~IsReply(req[r].input[i])
  BY <1>1, <1>3, ElementOfSeq DEF Turning
<1>5. s \in Seq(Message) /\ Len(s) = n /\ \A i \in 1..n : s[i] = req[r].input[i]
  <2>1. /\ s \in Seq(Message) /\ Len(s) = IF 1 <= n THEN n - 1 + 1 ELSE 0
        /\ \A i \in 1..(n - 1 + 1) : s[i] = req[r].input[1 + i - 1]
    BY <1>3, <1>4, SubSeqProperties
  <2> QED
    BY <1>3, <2>1
<1>6. Len(p) \in Nat
  BY <1>1, LenProperties
<1> HIDE DEF p, s, e
<1>7. /\ q \in Seq(Message) /\ Len(q) = Len(p) + n
      /\ \A i \in 1..(Len(p) + n) : q[i] = IF i <= Len(p) THEN p[i] ELSE s[i - Len(p)]
  BY <1>1, <1>5, ConcatProperties
<1> HIDE DEF q
<1>8. /\ q \o e \in Seq(Message) /\ Len(q \o e) = Len(p) + n + 1
      /\ \A i \in 1..(Len(p) + n + 1) : (q \o e)[i] = IF i <= Len(p) + n THEN q[i] ELSE e[i - (Len(p) + n)]
  <2>1. /\ q \o e \in Seq(Message) /\ Len(q \o e) = Len(q) + Len(e)
        /\ \A i \in 1..(Len(q) + Len(e)) : (q \o e)[i] = IF i <= Len(q) THEN q[i] ELSE e[i - Len(q)]
    <3>1. q \in Seq(Message) /\ e \in Seq(Message)
      BY <1>2, <1>7
    <3> QED
      BY <3>1, ConcatProperties
  <2> QED
    BY <1>2, <1>7, <2>1
<1>9. Key(r, n) = q \o e
  BY DEF Key, q, p, s, e
<1> DEFINE g == q \o e
<1> HIDE DEF g
<1>10. \A i \in 1..Len(p) : g[i] = p[i]
  BY <1>3, <1>6, <1>7, <1>8 DEF g
<1>11. ASSUME NEW i \in (Len(p) + 1)..(Len(p) + n) PROVE ~IsReply(g[i])
  <2>1. i \in 1..(Len(p) + n) /\ i \in 1..(Len(p) + n + 1) /\ ~(i <= Len(p)) /\ i <= Len(p) + n /\ i - Len(p) \in 1..n
    BY <1>3, <1>6
  <2>2. g[i] = s[i - Len(p)]
    BY <1>7, <1>8, <2>1 DEF g
  <2> QED
    BY <1>4, <1>5, <2>1, <2>2
<1>12. g[Len(p) + n + 1] = Reply(r, req[r].step.ids)
  <2>1. Len(p) + n + 1 \in 1..(Len(p) + n + 1) /\ ~(Len(p) + n + 1 <= Len(p) + n) /\ Len(p) + n + 1 - (Len(p) + n) = 1
    BY <1>3, <1>6
  <2> QED
    BY <1>2, <1>8, <2>1 DEF g
<1>13. Len(p) + n + 1 \in Nat /\ (Len(p) + n + 1) - 1 = Len(p) + n
  BY <1>3, <1>6
<1> QED
  BY <1>3, <1>6, <1>8, <1>9, <1>10, <1>11, <1>12, <1>13 DEF g, p

(* What any step does to what was said: a request is sent, one is read, or  *)
(* no history changes.                                                      *)
Steady ==
    /\ hist' = hist
    /\ \A r \in Requests : /\ req'[r].prior = req[r].prior /\ req'[r].input = req[r].input
                           /\ req[r].pc = "done" => req'[r].pc = "done"
                           /\ req'[r].pc \notin {"none", "done"} => req[r].pc \notin {"none", "done"}
Asked(a) ==
    /\ up /\ hist' = hist /\ sent + 1 \in Requests /\ req[sent + 1].pc = "none"
    /\ \E h \in Priors(a) : \E i \in Inputs(h) : \E x \in ReqRec :
          /\ x.pc = "lookup" /\ x.prior = h /\ x.input = i /\ x.step = NoStep
          /\ req' = [req EXCEPT ![sent + 1] = x]
          /\ CanRetry \/ h = <<>> \/ \A q \in Requests : InHandler(q) => req[q].prior # h
Heard(a) ==
    /\ asks[a] \in Requests /\ req[asks[a]].pc = "done" /\ req[asks[a]].input # <<>>
    /\ \E x \in ReqRec : /\ x.prior = <<>> /\ x.input = <<>> /\ x.pc = "done"
                         /\ x.step = req[asks[a]].step /\ x.conv = req[asks[a]].conv
                         /\ req' = [req EXCEPT ![asks[a]] = x]
    /\ \/ hist' = hist
       \/ \E n \in 1..Len(req[asks[a]].input) : hist' = [hist EXCEPT ![a] = Key(asks[a], n)]

LEMMA SendAsks ==
    ASSUME TypeInv, NEW a \in Clients, ClientSends(a)
    PROVE  Asked(a)
<1>1. PICK h \in Priors(a), k \in Settings : \E i \in Inputs(h) :
          /\ CanRetry \/ h = <<>> \/ \A q \in Requests : InHandler(q) => req[q].prior # h
          /\ req' = [req EXCEPT ![sent + 1] = [NoReq EXCEPT !.pc = "lookup", !.prior = h, !.input = i, !.knobs = k]]
  BY Zenon DEF ClientSends
<1>2. PICK i \in Inputs(h) :
          /\ CanRetry \/ h = <<>> \/ \A q \in Requests : InHandler(q) => req[q].prior # h
          /\ req' = [req EXCEPT ![sent + 1] = [NoReq EXCEPT !.pc = "lookup", !.prior = h, !.input = i, !.knobs = k]]
  BY <1>1
<1> DEFINE x == [NoReq EXCEPT !.pc = "lookup", !.prior = h, !.input = i, !.knobs = k]
<1>3. h \in Seq(Message)
  BY PriorsTyped DEF TypeInv
<1>4. i \in Seq(Message)
  BY <1>3, InputsTyped
<1>5. "lookup" \in Pcs
  BY DEF Pcs, Early
<1>6. x \in ReqRec
  <2>1. NoReq \in ReqRec
    <3>1. <<>> \in Seq(Message) /\ "none" \in Pcs /\ 0 \in 0..MaxRequests
      BY EmptySeq, ProxyAssumption DEF Pcs, Early
    <3> QED
      BY <3>1, NoSteps DEF ReqRec, NoReq
  <2> QED
    BY <1>3, <1>4, <1>5, <2>1 DEF ReqRec
<1>7. x.pc = "lookup" /\ x.prior = h /\ x.input = i /\ x.step = NoStep
  BY DEF NoReq
<1> HIDE DEF x
<1>8. up /\ sent < MaxRequests /\ hist' = hist
  BY Zenon DEF ClientSends
<1>9. req' = [req EXCEPT ![sent + 1] = x]
  BY <1>2 DEF x
<1>10. sent + 1 \in Requests /\ req[sent + 1].pc = "none"
  BY <1>8, ProxyAssumption DEF TypeInv, ClientTypes, ReqTypes, Requests
<1> QED
  BY <1>2, <1>6, <1>7, <1>8, <1>9, <1>10 DEF Asked

LEMMA ReadHears ==
    ASSUME TypeInv, NEW a \in Clients, ClientReads(a)
    PROVE  Heard(a)
<1>1. /\ asks[a] # 0 /\ req[asks[a]].pc = "done"
      /\ req' = [req EXCEPT ![asks[a]].prior = <<>>, ![asks[a]].input = <<>>]
  BY Zenon DEF ClientReads
<1>2. asks[a] \in Requests
  BY <1>1, ProxyAssumption DEF TypeInv, ClientTypes, Requests
<1>3. req[asks[a]] \in ReqRec /\ req \in [Requests -> ReqRec]
  BY <1>2, OwnRec
<1> DEFINE x == [req[asks[a]] EXCEPT !.prior = <<>>, !.input = <<>>]
<1>4. <<>> \in Seq(Message)
  BY EmptySeq
<1>5. /\ x \in ReqRec /\ x.pc = req[asks[a]].pc /\ x.conv = req[asks[a]].conv /\ x.step = req[asks[a]].step
      /\ x.prior = <<>> /\ x.input = <<>>
  BY <1>3, <1>4 DEF ReqRec
<1>6. req' = [req EXCEPT ![asks[a]] = x]
  BY <1>1, <1>2, <1>3 DEF ReqRec
<1> HIDE DEF x
<1>7. req[asks[a]].input \in Seq(Message) /\ req[asks[a]].input # <<>>
  BY <1>1, <1>2, <1>3 DEF ReqRec, TypeInv, Unread
<1>8. Len(req[asks[a]].input) \in Nat \ {0}
  BY <1>7, EmptySeq
<1>9. {1, Len(req[asks[a]].input)} \subseteq 1..Len(req[asks[a]].input)
  BY <1>8
<1>10. \/ hist' = hist
       \/ \E n \in {1, Len(req[asks[a]].input)} : hist' = [hist EXCEPT ![a] = Key(asks[a], n)]
  BY Zenon DEF ClientReads, Key
<1> QED
  BY <1>1, <1>2, <1>5, <1>6, <1>7, <1>9, <1>10 DEF Heard

LEMMA SpeechEffect ==
    ASSUME TypeInv, Agree, [Next]_vars
    PROVE  Steady \/ \E a \in Clients : Asked(a) \/ Heard(a)
<1>0. req \in [Requests -> ReqRec]
  BY DEF TypeInv, ReqTypes
<1>1. CASE \E a \in Clients : ClientSends(a) \/ ClientReads(a)
  BY <1>1, SendAsks, ReadHears
<1>2. ASSUME NEW a \in Clients, ClientHangsUp(a) PROVE Steady
  BY <1>2 DEF ClientHangsUp, Steady
<1>3. ASSUME NEW r \in Requests, Handler(r) PROVE Steady
  <2>1. PICK x : Moves(r, x)
    BY <1>3, HandlerMoves
  <2>2. hist' = hist
    BY <1>3, OnlyClients DEF HandlerStep
  <2> QED
    BY <1>0, <2>1, <2>2 DEF Moves, Steady
<1>4. ASSUME NEW r \in Requests, RunSends(r) \/ ReadLoop(r) \/ ModelAsks(r) PROVE Steady
  <2>1. hist' = hist
    BY <1>4, OnlyClients DEF HandlerStep
  <2>2. req' = req
    BY <1>4, Zenon DEF RunSends, ReadLoop, ModelAsks, Execute, ExecSends, ExecWakes, ExecCancelled, TurnEnds, TurnClosed, ProcessExits
  <2> QED
    BY <2>1, <2>2 DEF Steady
<1>5. ASSUME Expire \/ Removals \/ Boot \/ UNCHANGED vars PROVE Steady
  <2>1. hist' = hist /\ req' = req
    BY <1>5, Zenon DEF Expire, ExpireCollects, ExpireCloses, Removals, RemoveFile, Boot, vars, clientVars
  <2> QED
    BY <2>1 DEF Steady
<1>6. ASSUME Lost, up PROVE Steady
  <2>1. /\ hist' = hist
        /\ req' = [r \in Requests |-> IF InHandler(r) THEN [req[r] EXCEPT !.pc = "done", !.step = NoStep] ELSE req[r]]
    BY <1>6, Zenon DEF Lost, clientVars
  <2>2. ASSUME NEW r \in Requests
        PROVE  /\ req'[r].prior = req[r].prior /\ req'[r].input = req[r].input
               /\ req[r].pc = "done" => req'[r].pc = "done"
               /\ req'[r].pc \notin {"none", "done"} => req[r].pc \notin {"none", "done"}
    <3>1. req[r] \in ReqRec
      BY <1>0
    <3>2. CASE InHandler(r)
      BY <2>1, <3>1, <3>2 DEF ReqRec, InHandler
    <3>3. CASE ~InHandler(r)
      BY <2>1, <3>3
    <3> QED
      BY <3>2, <3>3
  <2> QED
    BY <2>1, <2>2 DEF Steady
<1> QED
  BY <1>1, <1>2, <1>3, <1>4, <1>5, <1>6 DEF Next, Stop, Killed

LEMMA ReadStays ==
    ASSUME TypeInv, Agree, [Next]_vars, NEW n, Read(n)
    PROVE  Read(n)'
<1>0. req \in [Requests -> ReqRec] /\ n \in Requests /\ req[n].pc = "done" /\ req[n].input = <<>>
  BY DEF TypeInv, ReqTypes, Read
<1>1. CASE Steady
  BY <1>0, <1>1 DEF Steady, Read
<1>2. ASSUME NEW a \in Clients, Asked(a) PROVE Read(n)'
  BY <1>0, <1>2 DEF Asked, Read
<1>3. ASSUME NEW a \in Clients, Heard(a) PROVE Read(n)'
  BY <1>0, <1>3 DEF Heard, Read
<1> QED
  BY <1>1, <1>2, <1>3, SpeechEffect

(* A history after a step is the beginning of one before it, or the reply   *)
(* that was just read has been added to one.                                *)
OldTales == \A g \in Tales' : \E h \in Tales : Begins(g, h)
NewTale(r, n) ==
    /\ req[r].pc = "done" /\ req[r].input # <<>> /\ Read(r)'
    /\ \A g \in Tales' : g = Key(r, n) \/ \E h \in Tales : Begins(g, h)

LEMMA TalesStep ==
    ASSUME TypeInv, Agree, [Next]_vars
    PROVE  OldTales \/ \E r \in Requests : \E n \in 1..Len(req[r].input) : NewTale(r, n)
<1>0. req \in [Requests -> ReqRec] /\ hist \in [Clients -> Seq(Message)]
  BY DEF TypeInv, ReqTypes, ClientTypes
<1>1. \A h \in Tales : Begins(h, h)
  BY TalesTyped DEF Begins
<1>2. CASE Steady
  <2>1. Tales' = Tales
    BY <1>2 DEF Steady, Tales
  <2> QED
    BY <1>1, <2>1 DEF OldTales
<1>3. ASSUME NEW a \in Clients, Asked(a) PROVE OldTales
  <2>1. PICK h \in Priors(a), x \in ReqRec : x.prior = h /\ req' = [req EXCEPT ![sent + 1] = x]
    BY <1>3, Zenon DEF Asked
  <2>2. hist' = hist
    BY <1>3 DEF Asked
  <2>3. \A r \in Requests : req'[r].prior = h \/ req'[r].prior = req[r].prior
    BY <1>0, <2>1
  <2>4. \A g \in Tales' : g = h \/ g \in Tales
    BY <2>2, <2>3 DEF Tales
  <2>5. hist[a] \in Tales
    BY DEF Tales
  <2>6. Begins(h, hist[a])
    <3>1. hist[a] \in Seq(Message) /\ Len(hist[a]) \in Nat
      BY <1>0, LenProperties
    <3>2. PICK n \in 0..Len(hist[a]) : h = SubSeq(hist[a], 1, n)
      BY DEF Priors
    <3>3. \A i \in 1..n : hist[a][i] \in Message
      BY <3>1, ElementOfSeq
    <3>4. n \in Int /\ 1 \in Int
      BY <3>1
    <3>5. Len(h) = (IF 1 <= n THEN n - 1 + 1 ELSE 0) /\ \A i \in 1..(n - 1 + 1) : h[i] = hist[a][1 + i - 1]
      BY <3>2, <3>3, <3>4, SubSeqProperties
    <3>6. Len(h) = n
      BY <3>1, <3>5
    <3>7. ASSUME NEW i \in 1..n PROVE h[i] = hist[a][i]
      <4>1. i \in 1..(n - 1 + 1) /\ 1 + i - 1 = i
        BY <3>1
      <4> QED
        BY <3>5, <4>1
    <3> QED
      BY <3>1, <3>6, <3>7 DEF Begins
  <2> QED
    BY <1>1, <2>4, <2>5, <2>6 DEF OldTales
<1>4. ASSUME NEW a \in Clients, Heard(a)
      PROVE  OldTales \/ \E r \in Requests : \E n \in 1..Len(req[r].input) : NewTale(r, n)
  <2>0. PICK r : r = asks[a]
    OBVIOUS
  <2>1. r \in Requests /\ req[r].pc = "done" /\ req[r].input # <<>>
    BY <1>4, <2>0 DEF Heard
  <2>2. PICK x \in ReqRec : x.prior = <<>> /\ x.input = <<>> /\ x.pc = "done" /\ req' = [req EXCEPT ![r] = x]
    BY <1>4, <2>0 DEF Heard
  <2>3. \/ hist' = hist
        \/ \E n \in 1..Len(req[r].input) : hist' = [hist EXCEPT ![a] = Key(r, n)]
    BY <1>4, <2>0 DEF Heard
  <2>4. Read(r)'
    BY <1>0, <2>1, <2>2 DEF Read
  <2>5. \A q \in Requests : req'[q].prior = <<>> \/ req'[q].prior = req[q].prior
    BY <1>0, <2>2
  <2>6. Begins(<<>>, hist[a]) /\ hist[a] \in Tales
    <3>1. Len(hist[a]) \in Nat /\ Len(<<>>) = 0
      BY <1>0, LenProperties
    <3> QED
      BY <3>1 DEF Begins, Tales
  <2>7. CASE hist' = hist
    <3>1. \A g \in Tales' : g = <<>> \/ g \in Tales
      BY <2>5, <2>7 DEF Tales
    <3> QED
      BY <1>1, <2>6, <3>1 DEF OldTales
  <2>8. ASSUME NEW n \in 1..Len(req[r].input), hist' = [hist EXCEPT ![a] = Key(r, n)] PROVE NewTale(r, n)
    <3>1. \A g \in Tales' : g = Key(r, n) \/ g = <<>> \/ g \in Tales
      BY <1>0, <2>5, <2>8 DEF Tales
    <3> QED
      BY <1>1, <2>1, <2>4, <2>6, <3>1 DEF NewTale
  <2> QED
    BY <2>1, <2>3, <2>7, <2>8
<1> QED
  BY <1>2, <1>3, <1>4, SpeechEffect

LEMMA StoriesStep ==
    ASSUME Inv, Stories, Turning, [Next]_vars
    PROVE  Stories'
<1>0. TypeInv /\ Agree /\ TypeInv' /\ ReqTypes
  BY NextInv DEF Inv, TypeInv
<1>1. \A g \in Tales : Len(g) \in Nat /\ Told(g) /\ \A h \in Tales : OneStory(g, h)
  BY <1>0, TalesTyped DEF Stories
<1>2. \A g \in Tales' : Len(g) \in Nat
  <2>1. hist' \in [Clients -> Seq(Message)] /\ req' \in [Requests -> ReqRec]
    BY <1>0 DEF TypeInv, ClientTypes, ReqTypes
  <2>2. \A g \in Tales' : g \in Seq(Message)
    BY <2>1 DEF Tales, ReqRec
  <2> QED
    BY <2>2, LenProperties
<1>3. \A n : Read(n) => Read(n)'
  BY <1>0, ReadStays
<1>4. ASSUME NEW g, NEW h \in Tales, Begins(g, h), Len(g) \in Nat PROVE \A i \in 1..Len(g) : IsReply(g[i]) => Read(g[i].n)
  <2>1. Told(h) /\ Len(h) \in Nat
    BY <1>1
  <2>2. \A i \in 1..Len(g) : i \in 1..Len(h) /\ g[i] = h[i]
    BY <1>4, <2>1 DEF Begins
  <2> QED
    BY <2>1, <2>2 DEF Told
<1>5. ASSUME NEW g, NEW h \in Tales, Begins(g, h), Len(g) \in Nat PROVE Told(g)'
  <2>1. \A i \in 1..Len(g) : IsReply(g[i]) => Read(g[i].n)
    BY <1>4, <1>5
  <2>2. \A i \in 1..Len(g) : IsReply(g[i]) => Read(g[i].n)'
    BY <1>3, <2>1
  <2> QED
    BY <2>2 DEF Told
<1>6. ASSUME NEW a, NEW b, NEW g \in Tales, NEW h \in Tales, Begins(a, g), Begins(b, h), Len(a) \in Nat, Len(b) \in Nat
      PROVE  OneStory(a, b)
  BY <1>1, <1>6, StoryOfBeginnings
<1>7. CASE OldTales
  BY <1>2, <1>5, <1>6, <1>7 DEF OldTales, Stories
<1>8. ASSUME NEW r \in Requests, NEW n \in 1..Len(req[r].input), NewTale(r, n) PROVE Stories'
  <2>0. PICK k, p, l : k = Key(r, n) /\ p = req[r].prior /\ l = Len(req[r].prior) + n + 1
    OBVIOUS
  <2>1. /\ l = Len(p) + n + 1 /\ Len(k) = l /\ l \in Nat /\ n \in Nat
        /\ Len(p) \in Nat /\ \A i \in 1..Len(p) : k[i] = p[i]
        /\ \A i \in (Len(p) + 1)..(l - 1) : ~IsReply(k[i])
        /\ k[l] = Reply(r, req[r].step.ids)
    BY <1>0, <2>0, KeyParts
  <2>2. p \in Tales
    BY <2>0 DEF Tales
  <2>3. ~Read(r) /\ Read(r)'
    BY <1>8 DEF NewTale, Read
  <2>4. k[l].n = r
    BY <2>1 DEF Reply
  <2>5. \A i \in 1..Len(k) : IsReply(k[i]) => i = l \/ (i \in 1..Len(p) /\ k[i] = p[i])
    BY <2>1
  <2>6. \A i \in 1..Len(p) : IsReply(p[i]) => Read(p[i].n)
    BY <1>1, <2>2 DEF Told
  <2>7. Told(k)'
    <3>1. \A i \in 1..Len(k) : IsReply(k[i]) => Read(k[i].n)'
      BY <1>3, <2>3, <2>4, <2>5, <2>6
    <3> QED
      BY <3>1 DEF Told
  <2>8. OneStory(k, k)
    <3> SUFFICES ASSUME NEW i \in 1..Len(k), NEW j \in 1..Len(k), IsReply(k[i]), IsReply(k[j]), k[i].n = k[j].n
                 PROVE  i = j
      BY DEF OneStory
    <3>1. CASE i = l
      BY <2>3, <2>4, <2>5, <2>6, <3>1
    <3>2. CASE j = l
      BY <2>3, <2>4, <2>5, <2>6, <3>2
    <3>3. CASE i # l /\ j # l
      <4>1. OneStory(p, p)
        BY <1>1, <2>2
      <4> QED
        BY <2>5, <3>3, <4>1 DEF OneStory
    <3> QED
      BY <3>1, <3>2, <3>3
  <2>9. ASSUME NEW g, NEW h \in Tales, Begins(g, h), Len(g) \in Nat PROVE OneStory(k, g) /\ OneStory(g, k)
    <3>1. OneStory(p, g) /\ OneStory(g, p)
      <4>1. Begins(p, p)
        BY <2>1 DEF Begins
      <4> QED
        BY <1>6, <2>1, <2>2, <2>9, <4>1
    <3>2. \A i \in 1..Len(g) : IsReply(g[i]) => g[i].n # r
      BY <1>4, <2>3, <2>9
    <3>3. ASSUME NEW i \in 1..Len(k), NEW j \in 1..Len(g), IsReply(k[i]), IsReply(g[j]), k[i].n = g[j].n
          PROVE  i = j /\ \A m \in 1..i : k[m] = g[m]
      <4>1. i \in 1..Len(p) /\ k[i] = p[i]
        BY <2>4, <2>5, <3>2, <3>3
      <4>2. i = j /\ \A m \in 1..i : p[m] = g[m]
        BY <3>1, <3>3, <4>1 DEF OneStory
      <4>3. \A m \in 1..i : m \in 1..Len(p)
        BY <2>1, <4>1
      <4> QED
        BY <2>1, <4>2, <4>3
    <3> QED
      BY <3>3 DEF OneStory
  <2>10. \A g \in Tales' : g = k \/ \E h \in Tales : Begins(g, h)
    BY <1>8, <2>0 DEF NewTale
  <2> QED
    BY <1>2, <1>5, <1>6, <2>7, <2>8, <2>9, <2>10 DEF Stories
<1> QED
  BY <1>0, <1>7, <1>8, TalesStep

LEMMA PriorsEnd ==
    ASSUME ClientTypes, NEW a \in Clients, NEW h \in Priors(a), h # <<>>
    PROVE  IsReply(h[Len(h)])
<1>1. hist[a] \in Seq(Message) /\ Len(hist[a]) \in Nat
  BY LenProperties DEF ClientTypes
<1>2. PICK n \in 0..Len(hist[a]) : h = SubSeq(hist[a], 1, n) /\ (n = 0 \/ hist[a][n].kind = "reply")
  BY DEF Priors
<1>3. n \in Int /\ 1 \in Int /\ \A i \in 1..n : hist[a][i] \in Message
  BY <1>1, ElementOfSeq
<1>4. /\ h \in Seq(Message) /\ Len(h) = (IF 1 <= n THEN n - 1 + 1 ELSE 0)
      /\ \A i \in 1..(n - 1 + 1) : h[i] = hist[a][1 + i - 1]
  BY <1>2, <1>3, SubSeqProperties
<1>5. Len(h) # 0
  BY <1>4, EmptySeq
<1>6. Len(h) = n /\ n # 0 /\ n \in 1..(n - 1 + 1) /\ 1 + n - 1 = n
  BY <1>1, <1>4, <1>5
<1>7. h[n] = hist[a][n]
  BY <1>4, <1>6
<1> QED
  BY <1>2, <1>6, <1>7 DEF IsReply

LEMMA InputsHoldNoReply ==
    ASSUME NEW h, NEW i \in Inputs(h)
    PROVE  \A n \in 1..Len(i) : ~IsReply(i[n])
<1> DEFINE open == IF h = <<>> THEN {} ELSE h[Len(h)].ids
           firsts == {User("ask", {}, t) : t \in Topics}
                        \cup (IF open # {} THEN {User("results", open, 0)} ELSE {})
                        \cup {User("bad", {}, 0)}
<1>1. \A m \in firsts : ~IsReply(m)
  BY DEF User, IsReply
<1>2. ~IsReply(User("note", {}, 0))
  BY DEF User, IsReply
<1> HIDE DEF firsts
<1>3. PICK m \in firsts : i = <<m>> \/ i = <<m, User("note", {}, 0)>>
  BY DEF Inputs, firsts
<1>4. CASE i = <<m>>
  BY <1>1, <1>4
<1>5. CASE i = <<m, User("note", {}, 0)>>
  <2> DEFINE o == User("note", {}, 0)
  <2> HIDE DEF o
  <2>1. Len(i) = 2 /\ i[1] = m /\ i[2] = o
    BY <1>5 DEF o
  <2>2. ASSUME NEW n \in 1..Len(i) PROVE ~IsReply(i[n])
    <3>1. n = 1 \/ n = 2
      BY <2>1
    <3> QED
      BY <1>1, <1>2, <2>1, <3>1 DEF o
  <2> QED
    BY <2>2
<1> QED
  BY <1>3, <1>4, <1>5

LEMMA TurningStep ==
    ASSUME TypeInv, Agree, Turning, [Next]_vars
    PROVE  Turning'
<1>0. req \in [Requests -> ReqRec]
  BY DEF TypeInv, ReqTypes
<1>1. CASE Steady
  BY <1>1 DEF Steady, Turning
<1>2. ASSUME NEW a \in Clients, Asked(a) PROVE Turning'
  <2>4. PICK h \in Priors(a) : \E i \in Inputs(h), x \in ReqRec :
            x.prior = h /\ x.input = i /\ req' = [req EXCEPT ![sent + 1] = x]
    BY <1>2, Zenon DEF Asked
  <2>1. PICK i \in Inputs(h), x \in ReqRec :
            x.prior = h /\ x.input = i /\ req' = [req EXCEPT ![sent + 1] = x]
    BY <2>4
  <2>2. h # <<>> => IsReply(h[Len(h)])
    BY PriorsEnd DEF TypeInv
  <2>3. \A n \in 1..Len(i) : ~IsReply(i[n])
    BY InputsHoldNoReply
  <2> QED
    BY <1>0, <2>1, <2>2, <2>3 DEF Turning
<1>3. ASSUME NEW a \in Clients, Heard(a) PROVE Turning'
  <2>1. PICK x \in ReqRec : x.prior = <<>> /\ x.input = <<>> /\ req' = [req EXCEPT ![asks[a]] = x]
    BY <1>3, Zenon DEF Heard
  <2>2. \A r \in Requests : \/ req'[r].prior = <<>> /\ req'[r].input = <<>>
                            \/ req'[r].prior = req[r].prior /\ req'[r].input = req[r].input
    BY <1>0, <2>1
  <2>3. Len(<<>>) = 0
    OBVIOUS
  <2> QED
    BY <2>2, <2>3 DEF Turning
<1> QED
  BY <1>1, <1>2, <1>3, SpeechEffect

(* No two of the requests under way go on from one history.                 *)
Serving(r) == req[r].pc \notin {"none", "done"}
Apart ==
    \A r, q \in Requests : Serving(r) /\ Serving(q) /\ req[r].prior = req[q].prior /\ req[r].prior # <<>> => r = q

LEMMA ApartStep ==
    ASSUME ~CanRetry, TypeInv, Agree, Apart, [Next]_vars
    PROVE  Apart'
<1>0. req \in [Requests -> ReqRec]
  BY DEF TypeInv, ReqTypes
<1>1. CASE Steady
  BY <1>1 DEF Steady, Apart, Serving
<1>2. ASSUME NEW a \in Clients, Asked(a) PROVE Apart'
  <2>1. PICK h \in Priors(a), x \in ReqRec :
            /\ x.prior = h /\ req' = [req EXCEPT ![sent + 1] = x]
            /\ CanRetry \/ h = <<>> \/ \A q \in Requests : InHandler(q) => req[q].prior # h
    BY <1>2, Zenon DEF Asked
  <2>2. h # <<>> => \A q \in Requests : Serving(q) => req[q].prior # h
    BY <1>2, <2>1 DEF Asked, InHandler, Serving
  <2> QED
    BY <1>0, <2>1, <2>2 DEF Apart, Serving
<1>3. ASSUME NEW a \in Clients, Heard(a) PROVE Apart'
  BY <1>0, <1>3 DEF Heard, Apart, Serving
<1> QED
  BY <1>1, <1>2, <1>3, SpeechEffect
-----------------------------------------------------------------------------
(* Who holds a conversation: one request at a time, and the conversation is *)
(* busy as long.  The keys that lead to it end in one reply, which is the   *)
(* one its holder goes on from.                                             *)
Held == {"decide", "drop", "supersede", "push", "run", "wait", "rekey"}
Holds(r, c) == req[r].pc \in Held /\ req[r].conv = c
End(k) == k[Len(k)].n
KeysAgree ==
    /\ \A c \in Requests : \A k, l \in conv[c].keys : k # <<>> /\ End(k) = End(l)
    /\ \A r, c \in Requests : Holds(r, c) =>
           \A k \in conv[c].keys : req[r].prior # <<>> /\ End(k) = End(req[r].prior)
Sole == \A r, q, c \in Requests : Holds(r, c) /\ Holds(q, c) => r = q
Busy == \A r, c \in Requests : Holds(r, c) => conv[c].busy
ShutOut ==
    \A c \in Requests : conv[c].closed /\ c \notin raced => conv[c].keys = {} /\ \A r \in Requests : ~Holds(r, c)
HoldInv == KeysAgree /\ Sole /\ Busy /\ ShutOut

(* What any step does to that: a conversation is taken, opened, closed or   *)
(* given new keys by the one who lets go of it, all are lost, or at most    *)
(* one is let go of.                                                        *)
HoldsKept == \A q, c \in Requests : Holds(q, c)' => Holds(q, c)
ConvKept(c) == /\ conv'[c].keys = conv[c].keys /\ conv'[c].busy = conv[c].busy
               /\ conv'[c].closed = conv[c].closed
HoldSame == raced' = raced /\ HoldsKept /\ \A c \in Requests : ConvKept(c)
Takes(r, c) ==
    /\ raced' = raced /\ req[r].pc = "lookup" /\ req[r].prior \in conv[c].keys
    /\ \A d \in Requests : d # c => ConvKept(d)
    /\ conv'[c].keys = conv[c].keys /\ conv'[c].closed = conv[c].closed /\ conv'[c].busy
    /\ \A q, d \in Requests : Holds(q, d)' => Holds(q, d) \/ (q = r /\ d = c)
Founds(r) ==
    /\ raced' = raced /\ req[r].pc = "open"
    /\ \A d \in Requests : d # r => ConvKept(d)
    /\ conv'[r].keys = {} /\ ~conv'[r].closed /\ conv'[r].busy /\ ~conv'[r].parked
    /\ \A q, d \in Requests : Holds(q, d)' => Holds(q, d) \/ (q = r /\ d = r)
Shuts(c) ==
    /\ raced \subseteq raced' /\ HoldsKept
    /\ \A d \in Requests : d # c => ConvKept(d)
    /\ conv'[c].keys = {} /\ conv'[c].closed /\ conv'[c].busy = conv[c].busy
    /\ c \in raced' \/ ~conv[c].busy \/ \E r \in Requests : Holds(r, c) /\ ~Holds(r, c)'
Renews(r, c) ==
    /\ raced' = raced /\ HoldsKept /\ Holds(r, c) /\ ~Holds(r, c)'
    /\ \A d \in Requests : d # c => ConvKept(d)
    /\ conv'[c].keys = NewKeys(r) /\ conv'[c].closed = conv[c].closed
HoldLost ==
    /\ raced' = raced
    /\ \A c \in Requests : conv'[c].keys = {} /\ conv'[c].closed /\ \A r \in Requests : ~Holds(r, c)'

LEMMA ClosingEffect ==
    ASSUME TypeInv, NEW c \in Requests, CloseConv(c)
    PROVE  /\ \A d \in Requests : d # c => conv'[d] = conv[d]
           /\ conv'[c].keys = {} /\ conv'[c].closed /\ conv'[c].busy = conv[c].busy
  BY OwnConv, Zenon DEF CloseConv, ConvRec

LEMMA LookupTakes ==
    ASSUME TypeInv, Agree, NEW r \in Requests, Lookup(r)
    PROVE  HoldSame \/ \E c \in Requests : Takes(r, c)
<1>0. /\ req[r] \in ReqRec /\ req \in [Requests -> ReqRec] /\ conv \in [Requests -> ConvRec]
  BY OwnRec DEF TypeInv, ConvTypes
<1>1. PICK c : c = IF req[r].prior \in DOMAIN convs THEN convs[req[r].prior] ELSE 0
  OBVIOUS
<1>2. /\ req[r].pc = "lookup" /\ raced' = raced
      /\ conv' = IF c = 0 THEN conv ELSE [conv EXCEPT ![c].busy = TRUE]
      /\ req' = [req EXCEPT ![r].pc = "decide", ![r].conv = c]
  BY <1>1, Zenon DEF Lookup, At
<1>3. c # 0 => c \in Requests /\ req[r].prior \in conv[c].keys
  BY <1>1 DEF Agree
<1>4. /\ \A q \in Requests : q # r => req'[q] = req[q]
      /\ req'[r].pc = "decide" /\ req'[r].conv = c
  BY <1>0, <1>2 DEF ReqRec
<1>5. CASE c = 0
  <2>1. \A d \in Requests : d # 0
    BY DEF Requests
  <2>2. HoldsKept
    BY <1>4, <1>5, <2>1 DEF HoldsKept, Holds
  <2>3. conv' = conv
    BY <1>2, <1>5
  <2> QED
    BY <1>2, <2>2, <2>3 DEF HoldSame, ConvKept
<1>6. CASE c # 0
  <2>1. conv[c] \in ConvRec
    BY <1>0, <1>3, <1>6
  <2>2. /\ \A d \in Requests : d # c => conv'[d] = conv[d]
        /\ conv'[c].keys = conv[c].keys /\ conv'[c].closed = conv[c].closed /\ conv'[c].busy
    BY <1>0, <1>2, <1>3, <1>6, <2>1 DEF ConvRec
  <2>3. \A q, d \in Requests : Holds(q, d)' => Holds(q, d) \/ (q = r /\ d = c)
    BY <1>4 DEF Holds
  <2>4. \A d \in Requests : d # c => ConvKept(d)
    BY <2>2 DEF ConvKept
  <2> QED
    BY <1>2, <1>3, <1>6, <2>2, <2>3, <2>4 DEF Takes
<1> QED
  BY <1>5, <1>6

(* A step of a handler that leaves the conversations and their holders be.  *)
LEMMA QuietHolds ==
    ASSUME TypeInv, NEW r \in Requests,
           Decide(r) \/ StartRefuses(r) \/ StartPrepares(r) \/ OpenFails(r) \/ AdvancePush(r) \/ AdvanceRun(r)
    PROVE  HoldSame
<1>0. req[r] \in ReqRec /\ req \in [Requests -> ReqRec]
  BY OwnRec
<1>1. conv' = conv /\ raced' = raced
  BY Zenon DEF Decide, StartRefuses, StartPrepares, OpenFails, AdvancePush, AdvanceRun, convVars
<1>2. ASSUME NEW p, req' = [req EXCEPT ![r].pc = p] \/ req' = [req EXCEPT ![r].pc = p, ![r].step = NoStep],
             p \in Held => req[r].pc \in Held
      PROVE  HoldsKept
  <2>1. /\ \A q \in Requests : q # r => req'[q] = req[q]
        /\ req'[r].pc = p /\ req'[r].conv = req[r].conv
    BY <1>0, <1>2 DEF ReqRec
  <2> QED
    BY <1>2, <2>1 DEF HoldsKept, Holds
<1>3. \E p : /\ req' = [req EXCEPT ![r].pc = p] \/ req' = [req EXCEPT ![r].pc = p, ![r].step = NoStep]
             /\ p \in Held => req[r].pc \in Held
  <2>1. CASE Decide(r) \/ AdvancePush(r) \/ AdvanceRun(r)
    <3>1. req[r].pc \in Held /\ \E p : req' = [req EXCEPT ![r].pc = p]
      BY <2>1 DEF Decide, AdvancePush, AdvanceRun, At, Goto, Held
    <3> QED
      BY <3>1
  <2>2. CASE StartRefuses(r) \/ OpenFails(r)
    <3>1. req' = [req EXCEPT ![r].pc = "done", ![r].step = NoStep]
      BY <2>2, Zenon DEF StartRefuses, OpenFails, Respond
    <3>2. "done" \notin Held
      BY DEF Held
    <3> QED
      BY <3>1, <3>2, Zenon
  <2>3. CASE StartPrepares(r)
    <3>1. req' = [req EXCEPT ![r].pc = "open"]
      BY <2>3, Zenon DEF StartPrepares, Goto
    <3>2. "open" \notin Held
      BY DEF Held
    <3> QED
      BY <3>1, <3>2, Zenon
  <2> QED
    BY <2>1, <2>2, <2>3
<1> QED
  BY <1>1, <1>2, <1>3 DEF HoldSame, ConvKept

LEMMA DropShuts ==
    ASSUME TypeInv, NEW r \in Requests, DropConv(r)
    PROVE  \E c \in Requests : Shuts(c)
<1>0. /\ req[r] \in ReqRec /\ req \in [Requests -> ReqRec]
      /\ req[r].pc \in Holding => req[r].conv \in Requests /\ req[r].conv # 0
  BY OwnRec
<1>1. PICK c : c = req[r].conv
  OBVIOUS
<1>2. /\ req[r].pc = "drop" /\ CloseConv(c) /\ raced' = raced
      /\ req' = [req EXCEPT ![r].pc = "start", ![r].conv = 0]
  BY <1>1, Zenon DEF DropConv, At
<1>3. c \in Requests /\ Holds(r, c)
  BY <1>0, <1>1, <1>2 DEF Holding, Holds, Held
<1>4. /\ \A q \in Requests : q # r => req'[q] = req[q]
      /\ req'[r].pc = "start"
  BY <1>0, <1>2 DEF ReqRec
<1>5. HoldsKept /\ ~Holds(r, c)'
  BY <1>4 DEF HoldsKept, Holds, Held
<1> QED
  BY <1>2, <1>3, <1>5, ClosingEffect DEF Shuts, ConvKept

LEMMA FailureShuts ==
    ASSUME TypeInv, NEW r \in Requests, TakeFailure(r)
    PROVE  \E c \in Requests : Shuts(c)
<1>0. /\ req[r] \in ReqRec /\ req \in [Requests -> ReqRec]
      /\ req[r].pc \in Holding => req[r].conv \in Requests /\ req[r].conv # 0
  BY OwnRec
<1>1. PICK c : c = req[r].conv
  OBVIOUS
<1>2. /\ req[r].pc = "wait" /\ CloseConv(c) /\ raced' = raced
      /\ \E st : req' = [req EXCEPT ![r].pc = "done", ![r].step = st]
  BY <1>1, Zenon DEF TakeFailure, At, Respond
<1>3. c \in Requests /\ Holds(r, c)
  BY <1>0, <1>1, <1>2 DEF Holding, Holds, Held
<1>4. /\ \A q \in Requests : q # r => req'[q] = req[q]
      /\ req'[r].pc = "done"
  BY <1>0, <1>2 DEF ReqRec
<1>5. HoldsKept /\ ~Holds(r, c)'
  BY <1>4 DEF HoldsKept, Holds, Held
<1> QED
  BY <1>2, <1>3, <1>5, ClosingEffect DEF Shuts, ConvKept

LEMMA SupersedeShuts ==
    ASSUME TypeInv, NEW r \in Requests, Supersede(r)
    PROVE  \E c \in Requests : Shuts(c)
<1>0. req[r] \in ReqRec /\ req \in [Requests -> ReqRec]
  BY OwnRec
<1>1. PICK c \in req[r].victims :
         /\ CloseConv(c) /\ raced' = IF conv[c].busy THEN raced \cup {c} ELSE raced
         /\ req' = [req EXCEPT ![r].victims = @ \ {c}, ![r].pc = IF req[r].victims = {c} THEN "run" ELSE @]
  BY Zenon DEF Supersede
<1>2. req[r].pc = "supersede"
  BY DEF Supersede, At
<1>3. c \in Requests
  BY <1>0 DEF ReqRec
<1>4. /\ \A q \in Requests : q # r => req'[q] = req[q]
      /\ req'[r].conv = req[r].conv
  BY <1>0, <1>1 DEF ReqRec
<1>5. HoldsKept
  BY <1>2, <1>4 DEF HoldsKept, Holds, Held
<1>6. raced \subseteq raced' /\ (c \in raced' \/ ~conv[c].busy)
  BY <1>1
<1> QED
  BY <1>1, <1>3, <1>5, <1>6, ClosingEffect DEF Shuts, ConvKept

LEMMA ExpireShuts ==
    ASSUME TypeInv, ExpireCloses
    PROVE  \E c \in Requests : Shuts(c)
<1>1. PICK c \in stale : CloseConv(c) /\ raced' = IF conv[c].busy THEN raced \cup {c} ELSE raced
  BY Zenon DEF ExpireCloses
<1>2. c \in Requests /\ req' = req
  BY Zenon DEF TypeInv, ConvTypes, ExpireCloses
<1>3. HoldsKept
  BY <1>2 DEF HoldsKept, Holds
<1>4. raced \subseteq raced' /\ (c \in raced' \/ ~conv[c].busy)
  BY <1>1
<1> QED
  BY <1>1, <1>2, <1>3, <1>4, ClosingEffect DEF Shuts, ConvKept

LEMMA OpenFounds ==
    ASSUME TypeInv, NEW r \in Requests, Open(r)
    PROVE  Founds(r)
<1>0. /\ req[r] \in ReqRec /\ req \in [Requests -> ReqRec] /\ conv \in [Requests -> ConvRec]
  BY OwnRec DEF TypeInv, ConvTypes
<1>1. /\ req[r].pc = "open" /\ raced' = raced
      /\ \E p, v : req' = [req EXCEPT ![r].pc = p, ![r].conv = r, ![r].victims = v]
      /\ \E ro, kn, fi : conv' = [conv EXCEPT ![r] = [NoConv EXCEPT !.root = ro, !.knobs = kn,
                                                          !.busy = TRUE, !.closed = FALSE, !.file = fi]]
  BY Zenon DEF Open, At
<1>2. conv'[r].keys = {} /\ ~conv'[r].closed /\ conv'[r].busy /\ ~conv'[r].parked /\ \A d \in Requests : d # r => conv'[d] = conv[d]
  BY <1>0, <1>1 DEF NoConv
<1>3. /\ \A q \in Requests : q # r => req'[q] = req[q]
      /\ req'[r].conv = r
  BY <1>0, <1>1 DEF ReqRec
<1> QED
  BY <1>1, <1>2, <1>3 DEF Founds, ConvKept, Holds

LEMMA TakeStepHolds ==
    ASSUME TypeInv, NEW r \in Requests, TakeStep(r)
    PROVE  HoldSame
<1>0. /\ req[r] \in ReqRec /\ req \in [Requests -> ReqRec]
      /\ req[r].pc \in Holding => req[r].conv \in Requests /\ req[r].conv # 0
  BY OwnRec
<1>1. PICK c : c = req[r].conv
  OBVIOUS
<1>2. /\ req[r].pc = "wait" /\ raced' = raced
      /\ \E st : req' = [req EXCEPT ![r].pc = "rekey", ![r].step = st]
      /\ \E pk, ask : conv' = [conv EXCEPT ![c].parked = pk, ![c].asked = ask]
  BY <1>1, Zenon DEF TakeStep, At
<1>3. c \in Requests
  BY <1>0, <1>1, <1>2 DEF Holding
<1>4. conv[c] \in ConvRec /\ conv \in [Requests -> ConvRec]
  BY <1>3, OwnConv
<1>5. \A d \in Requests : ConvKept(d)
  BY <1>2, <1>4 DEF ConvKept, ConvRec
<1>6. /\ \A q \in Requests : q # r => req'[q] = req[q]
      /\ req'[r].conv = req[r].conv
  BY <1>0, <1>2 DEF ReqRec
<1>7. HoldsKept
  BY <1>2, <1>6 DEF HoldsKept, Holds, Held
<1> QED
  BY <1>2, <1>5, <1>7 DEF HoldSame

LEMMA RekeyRenews ==
    ASSUME TypeInv, NEW r \in Requests, Rekey(r)
    PROVE  \E c \in Requests : Renews(r, c)
<1>0. /\ req[r] \in ReqRec /\ req \in [Requests -> ReqRec]
      /\ req[r].pc \in Holding => req[r].conv \in Requests /\ req[r].conv # 0
  BY OwnRec
<1>1. PICK c : c = req[r].conv
  OBVIOUS
<1>2. /\ req[r].pc = "rekey" /\ raced' = raced
      /\ req' = [req EXCEPT ![r].pc = "done"]
      /\ conv' = [conv EXCEPT ![c].keys = NewKeys(r), ![c].busy = FALSE]
  BY <1>1, Zenon DEF Rekey, At, Goto
<1>3. c \in Requests /\ Holds(r, c)
  BY <1>0, <1>1, <1>2 DEF Holding, Holds, Held
<1>4. conv[c] \in ConvRec /\ conv \in [Requests -> ConvRec]
  BY <1>3, OwnConv
<1>5. /\ \A d \in Requests : d # c => conv'[d] = conv[d]
      /\ conv'[c].keys = NewKeys(r) /\ conv'[c].closed = conv[c].closed
  <2>1. PICK K : K = NewKeys(r)
    OBVIOUS
  <2>2. conv' = [conv EXCEPT ![c].keys = K, ![c].busy = FALSE]
    BY <1>2, <2>1
  <2>3. /\ \A d \in Requests : d # c => conv'[d] = conv[d]
        /\ conv'[c].keys = K /\ conv'[c].closed = conv[c].closed
    BY <1>3, <1>4, <2>2 DEF ConvRec
  <2> QED
    BY <2>1, <2>3
<1>6. /\ \A q \in Requests : q # r => req'[q] = req[q]
      /\ req'[r].pc = "done"
  BY <1>0, <1>2 DEF ReqRec
<1>7. HoldsKept /\ ~Holds(r, c)'
  BY <1>6 DEF HoldsKept, Holds, Held
<1> QED
  BY <1>2, <1>3, <1>5, <1>7 DEF Renews, ConvKept

LEMMA HoldEffect ==
    ASSUME TypeInv, Agree, [Next]_vars
    PROVE  \/ HoldSame \/ HoldLost
           \/ \E r \in Requests : Founds(r) \/ Shuts(r) \/ \E c \in Requests : Takes(r, c) \/ Renews(r, c)
<1>0. req \in [Requests -> ReqRec]
  BY DEF TypeInv, ReqTypes
<1>1. ASSUME NEW a \in Clients, ClientSends(a) PROVE HoldSame
  <2>1. conv' = conv /\ raced' = raced
    BY <1>1, Zenon DEF ClientSends, convVars
  <2>2. PICK x \in ReqRec : x.pc = "lookup" /\ req' = [req EXCEPT ![sent + 1] = x]
    BY <1>1, SentEffect DEF ReqSent
  <2> QED
    BY <1>0, <2>1, <2>2 DEF HoldSame, ConvKept, HoldsKept, Holds, Held
<1>2. ASSUME NEW a \in Clients, ClientReads(a) PROVE HoldSame
  <2>1. conv' = conv /\ raced' = raced
    BY <1>2, Zenon DEF ClientReads, convVars
  <2>2. PICK x \in ReqRec : x.pc = "done" /\ req' = [req EXCEPT ![asks[a]] = x]
    BY <1>2, ReadEffect DEF ReqRead
  <2> QED
    BY <1>0, <2>1, <2>2 DEF HoldSame, ConvKept, HoldsKept, Holds, Held
<1>3. ASSUME NEW r \in Requests, Handler(r)
      PROVE  HoldSame \/ Founds(r) \/ \E c \in Requests : Shuts(c) \/ Takes(r, c) \/ Renews(r, c)
  BY <1>3, LookupTakes, QuietHolds, DropShuts, FailureShuts, SupersedeShuts, OpenFounds, TakeStepHolds, RekeyRenews
     DEF Handler
<1>4. ASSUME \/ \E r \in Requests : RunSends(r) \/ ReadLoop(r) \/ ModelAsks(r)
             \/ ExpireCollects \/ Removals \/ Boot \/ UNCHANGED vars \/ \E a \in Clients : ClientHangsUp(a)
      PROVE  HoldSame
  <2>1. conv' = conv /\ raced' = raced /\ req' = req
    BY <1>4, Zenon DEF RunSends, ReadLoop, ModelAsks, Execute, ExecSends, ExecWakes, ExecCancelled, TurnEnds, TurnClosed, ProcessExits,
                       ExpireCollects, Removals, RemoveFile, Boot, vars, ClientHangsUp, convVars
  <2> QED
    BY <2>1 DEF HoldSame, ConvKept, HoldsKept, Holds
<1>5. CASE ExpireCloses
  BY <1>5, ExpireShuts
<1>6. ASSUME Stop \/ Killed PROVE HoldLost
  <2>1. ReqLost
    BY <1>6, LostEffect DEF Stop, Killed
  <2>2. raced' = raced /\ conv' = [c \in Requests |-> NoConv]
    BY <1>6, Zenon DEF Stop, Killed, Lost
  <2> QED
    BY <2>1, <2>2 DEF HoldLost, ReqLost, Holds, Held, NoConv
<1> QED
  BY <1>1, <1>2, <1>3, <1>4, <1>5, <1>6 DEF Next, Expire

LEMMA HoldersPrior ==
    ASSUME TypeInv, Agree, [Next]_vars, NEW r \in Requests, NEW c \in Requests, Holds(r, c)'
    PROVE  req'[r].prior = req[r].prior
<1>0. req \in [Requests -> ReqRec] /\ req'[r].pc \in Held
  BY DEF TypeInv, ReqTypes, Holds
<1>1. CASE Steady
  BY <1>1 DEF Steady
<1>2. ASSUME NEW a \in Clients, Asked(a) PROVE req'[r].prior = req[r].prior
  BY <1>0, <1>2 DEF Asked, Held
<1>3. ASSUME NEW a \in Clients, Heard(a) PROVE req'[r].prior = req[r].prior
  BY <1>0, <1>3 DEF Heard, Held
<1> QED
  BY <1>1, <1>2, <1>3, SpeechEffect

LEMMA OnePrior ==
    ASSUME TypeInv, Stories, Turning, NEW r \in Requests, NEW q \in Requests,
           req[r].prior # <<>>, req[q].prior # <<>>, End(req[r].prior) = End(req[q].prior)
    PROVE  req[r].prior = req[q].prior
<1>1. PICK g, h : g = req[r].prior /\ h = req[q].prior
  OBVIOUS
<1>2. g \in Tales /\ h \in Tales
  BY <1>1 DEF Tales
<1>3. OneStory(g, h)
  BY <1>2 DEF Stories
<1>4. g \in Seq(Message) /\ h \in Seq(Message) /\ Len(g) \in Nat /\ Len(h) \in Nat
  BY <1>2, TalesTyped
<1>5. Len(g) # 0 /\ Len(h) # 0
  BY <1>1, <1>4, EmptySeq
<1>6. IsReply(g[Len(g)]) /\ IsReply(h[Len(h)]) /\ g[Len(g)].n = h[Len(h)].n
  BY <1>1 DEF Turning, End
<1>7. Len(g) \in 1..Len(g) /\ Len(h) \in 1..Len(h)
  BY <1>4, <1>5
<1>8. Len(g) = Len(h) /\ \A k \in 1..Len(g) : g[k] = h[k]
  BY <1>3, <1>6, <1>7 DEF OneStory
<1> QED
  BY <1>1, <1>4, <1>8, SeqEqual

LEMMA NewKeysEnd ==
    ASSUME ReqTypes, Turning, NEW r \in Requests, NEW k \in NewKeys(r)
    PROVE  k # <<>> /\ End(k) = r
<1>1. PICK n \in 1..Len(req[r].input) : k = Key(r, n)
  BY DEF NewKeys, Key
<1>2. PICK l : l = Len(req[r].prior) + n + 1
  OBVIOUS
<1>3. /\ k \in Seq(Message) /\ Len(k) = l /\ Len(req[r].prior) \in Nat /\ n \in Nat
      /\ k[l] = Reply(r, req[r].step.ids)
  BY <1>1, <1>2, KeyParts
<1>4. Len(k) # 0
  BY <1>2, <1>3
<1>5. k # <<>>
  BY <1>3, <1>4, EmptySeq
<1> QED
  BY <1>3, <1>5 DEF End, Reply

(* A conversation nobody holds is the only one a request can take.          *)
LEMMA TakenWasFree ==
    ASSUME TypeInv, Stories, Turning, Apart, KeysAgree,
           NEW r \in Requests, NEW c \in Requests, Takes(r, c)
    PROVE  \A q \in Requests : ~Holds(q, c)
<1> SUFFICES ASSUME NEW q \in Requests, Holds(q, c) PROVE FALSE
  OBVIOUS
<1>1. req[r].pc = "lookup" /\ req[r].prior \in conv[c].keys
  BY DEF Takes
<1>2. req[r].prior # <<>>
  BY <1>1 DEF KeysAgree
<1>3. req[q].prior # <<>> /\ End(req[r].prior) = End(req[q].prior)
  BY <1>1 DEF KeysAgree
<1>4. req[r].prior = req[q].prior
  BY <1>2, <1>3, OnePrior
<1>5. Serving(r) /\ Serving(q)
  BY <1>1 DEF Serving, Holds, Held
<1>6. r = q
  BY <1>2, <1>4, <1>5 DEF Apart
<1> QED
  BY <1>1, <1>6 DEF Holds, Held

LEMMA FoundedWasFree ==
    ASSUME TypeInv, Agree, NEW r \in Requests, req[r].pc \in Early
    PROVE  \A q \in Requests : req[q].conv # r
  BY DEF Agree, Requests

LEMMA HoldStep ==
    ASSUME TypeInv, Agree, Stories, Turning, Apart, HoldInv, [Next]_vars
    PROVE  HoldInv'
<1>0. KeysAgree /\ Sole /\ Busy /\ ShutOut
  BY DEF HoldInv
<1>p. \A r, c \in Requests : Holds(r, c)' => req'[r].prior = req[r].prior
  BY HoldersPrior
<1> USE DEF ConvKept, HoldsKept
<1>1. CASE HoldSame
  <2>1. raced' = raced /\ HoldsKept /\ \A c \in Requests : ConvKept(c)
    BY <1>1 DEF HoldSame
  <2>2. KeysAgree'
    BY <1>0, <1>p, <2>1 DEF KeysAgree, End
  <2>3. Sole' /\ Busy' /\ ShutOut'
    BY <1>0, <2>1 DEF Sole, Busy, ShutOut
  <2> QED
    BY <2>2, <2>3 DEF HoldInv
<1>2. CASE HoldLost
  BY <1>2 DEF HoldLost, HoldInv, KeysAgree, Sole, Busy, ShutOut
<1>3. ASSUME NEW r \in Requests, Founds(r) PROVE HoldInv'
  <2>1. \A q \in Requests : ~Holds(q, r)
    BY <1>3, FoundedWasFree DEF Founds, Holds, Early
  <2>2. KeysAgree'
    BY <1>0, <1>3, <1>p DEF Founds, KeysAgree, End
  <2>3. Sole'
    BY <1>0, <1>3, <2>1 DEF Founds, Sole
  <2>4. Busy' /\ ShutOut'
    BY <1>0, <1>3 DEF Founds, Busy, ShutOut
  <2> QED
    BY <2>2, <2>3, <2>4 DEF HoldInv
<1>4. ASSUME NEW c \in Requests, Shuts(c) PROVE HoldInv'
  <2>1. KeysAgree'
    BY <1>0, <1>4, <1>p DEF Shuts, KeysAgree, End
  <2>2. Sole'
    BY <1>0, <1>4 DEF Shuts, Sole
  <2>3. Busy'
    BY <1>0, <1>4 DEF Shuts, Busy
  <2>4. c \in raced' \/ \A r \in Requests : ~Holds(r, c)'
    BY <1>0, <1>4 DEF Shuts, Sole, Busy
  <2>5. ShutOut'
    BY <1>0, <1>4, <2>4 DEF Shuts, ShutOut
  <2> QED
    BY <2>1, <2>2, <2>3, <2>5 DEF HoldInv
<1>5. ASSUME NEW r \in Requests, NEW c \in Requests, Takes(r, c) PROVE HoldInv'
  <2>1. \A q \in Requests : ~Holds(q, c)
    BY <1>0, <1>5, TakenWasFree
  <2>2. KeysAgree'
    <3>1. /\ \A d \in Requests : conv'[d].keys = conv[d].keys
          /\ \A q, d \in Requests : Holds(q, d)' => Holds(q, d) \/ (q = r /\ d = c)
          /\ req[r].prior \in conv[c].keys
      BY <1>5 DEF Takes
    <3>2. \A k \in conv[c].keys : req[r].prior # <<>> /\ End(k) = End(req[r].prior)
      BY <1>0, <3>1 DEF KeysAgree
    <3>3. \A d \in Requests : \A k, l \in conv'[d].keys : k # <<>> /\ End(k) = End(l)
      BY <1>0, <3>1 DEF KeysAgree
    <3>4. ASSUME NEW q \in Requests, NEW d \in Requests, Holds(q, d)', NEW k \in conv'[d].keys
          PROVE  req'[q].prior # <<>> /\ End(k) = End(req'[q].prior)
      <4>1. k \in conv[d].keys /\ req'[q].prior = req[q].prior
        BY <1>p, <3>1, <3>4
      <4>2. CASE Holds(q, d)
        BY <1>0, <4>1, <4>2 DEF KeysAgree
      <4>3. CASE q = r /\ d = c
        BY <3>2, <4>1, <4>3
      <4> QED
        BY <3>1, <3>4, <4>2, <4>3
    <3> QED
      BY <3>3, <3>4 DEF KeysAgree, End
  <2>3. Sole'
    BY <1>0, <1>5, <2>1 DEF Takes, Sole
  <2>4. Busy'
    BY <1>0, <1>5 DEF Takes, Busy
  <2>5. ShutOut'
    BY <1>0, <1>5 DEF Takes, ShutOut
  <2> QED
    BY <2>2, <2>3, <2>4, <2>5 DEF HoldInv
<1>6. ASSUME NEW r \in Requests, NEW c \in Requests, Renews(r, c) PROVE HoldInv'
  <2>1. \A q \in Requests : ~Holds(q, c)'
    BY <1>0, <1>6 DEF Renews, Sole
  <2>2. \A k, l \in NewKeys(r) : k # <<>> /\ End(k) = End(l)
    BY NewKeysEnd DEF TypeInv
  <2>3. KeysAgree'
    <3>1. /\ conv'[c].keys = NewKeys(r) /\ HoldsKept
          /\ \A d \in Requests : d # c => conv'[d].keys = conv[d].keys
      BY <1>6 DEF Renews
    <3>2. PICK K : K = NewKeys(r)
      OBVIOUS
    <3> QED
      BY <1>0, <1>p, <2>1, <2>2, <3>1, <3>2 DEF KeysAgree, End
  <2>4. Sole'
    BY <1>0, <1>6 DEF Renews, Sole
  <2>5. Busy'
    BY <1>0, <1>6, <2>1 DEF Renews, Busy
  <2>6. ShutOut'
    BY <1>0, <1>6, <2>1 DEF Renews, ShutOut
  <2> QED
    BY <2>3, <2>4, <2>5, <2>6 DEF HoldInv
<1> QED
  BY <1>1, <1>2, <1>3, <1>4, <1>5, <1>6, HoldEffect
-----------------------------------------------------------------------------
(* A turn is run by a request of its conversation; a request that has not   *)
(* opened one has left no trace; and what a turn or a step says was closed  *)
(* is.                                                                      *)
TurnsHome == \A c \in Requests : loop[c].turn # 0 => req[loop[c].turn].conv = c
Unopened ==
    \A c \in Requests : req[c].pc \in Early => steps[c] = <<>> /\ results[c] = <<>> /\ loop[c] = NoLoop
ClosedFails ==
    /\ \A q \in Requests : run[q] = "closed" => conv[req[q].conv].closed
    /\ \A c \in Requests : steps[c] # <<>> /\ Head(steps[c]).err = "closed" => conv[c].closed
FailedLast == \A r \in Requests : req[r].step.err # "none" => req[r].pc = "done"
CloseInv == TurnsHome /\ Unopened /\ ClosedFails /\ FailedLast

(* The steps that turns and channels see.                                   *)
FlowSame == UNCHANGED <<loop, steps, results, run, serving>>
Flows(r) ==
    \/ AdvancePush(r) \/ AdvanceRun(r) \/ TakeFailure(r) \/ TakeStep(r) \/ RunSends(r) \/ ModelAsks(r) \/ Execute(r)
    \/ ExecSends(r) \/ ExecWakes(r) \/ ExecCancelled(r) \/ TurnEnds(r) \/ TurnClosed(r) \/ ProcessExits(r)

LEMMA FlowCases ==
    ASSUME [Next]_vars
    PROVE  FlowSame \/ (Lost /\ up) \/ \E r \in Requests : Flows(r)
<1>1. CASE \E a \in Clients : ClientSends(a) \/ ClientReads(a) \/ ClientHangsUp(a)
  BY <1>1, Zenon DEF ClientSends, ClientReads, ClientHangsUp, loopVars, FlowSame
<1>2. ASSUME NEW r \in Requests, Handler(r) PROVE FlowSame \/ Flows(r)
  BY <1>2, Zenon DEF Handler, Flows, loopVars, FlowSame, Lookup, Decide, DropConv, StartRefuses, StartPrepares, OpenFails,
                     Open, Supersede, Rekey
<1>3. ASSUME NEW r \in Requests, RunSends(r) \/ ReadLoop(r) \/ ModelAsks(r) PROVE Flows(r)
  BY <1>3, Zenon DEF ReadLoop, Flows
<1>4. CASE Expire \/ Removals \/ Boot \/ UNCHANGED vars
  BY <1>4, Zenon DEF Expire, ExpireCollects, ExpireCloses, Removals, RemoveFile, Boot, vars, loopVars, FlowSame
<1>5. CASE Stop \/ Killed
  BY <1>5 DEF Stop, Killed
<1> QED
  BY <1>1, <1>2, <1>3, <1>4, <1>5 DEF Next

(* The conversation such a step is about, which is open or closed by now.   *)
LEMMA HandlerConv ==
    ASSUME TypeInv, Agree, NEW r \in Requests,
           \/ AdvancePush(r) \/ AdvanceRun(r) \/ TakeFailure(r) \/ TakeStep(r) \/ RunSends(r)
    PROVE  req[r].conv \in Requests /\ req[req[r].conv].pc \notin Early
<1>1. req[r].conv \in Requests /\ req[r].conv # 0
  <2>1. CASE RunSends(r)
    <3>1. run[r] # "none"
      BY <2>1 DEF RunSends
    <3> QED
      BY <3>1, OwnRun DEF Requests
  <2>2. CASE ~RunSends(r)
    <3>1. req[r].pc \in Holding
      BY <2>2 DEF AdvancePush, AdvanceRun, TakeFailure, TakeStep, At, Holding
    <3> QED
      BY <3>1, OwnRec
  <2> QED
    BY <2>1, <2>2
<1> QED
  BY <1>1 DEF Agree

LEMMA LoopConv ==
    ASSUME TypeInv, Unopened, NEW c \in Requests,
           \/ ModelAsks(c) \/ Execute(c) \/ ExecSends(c) \/ ExecWakes(c) \/ ExecCancelled(c)
           \/ TurnEnds(c) \/ TurnClosed(c) \/ ProcessExits(c)
    PROVE  req[c].pc \notin Early
<1>1. loop[c].turn # 0 \/ loop[c].at # "free"
  BY DEF ModelAsks, Execute, ExecSends, ExecWakes, ExecCancelled, TurnEnds, TurnClosed, ProcessExits
<1> QED
  BY <1>1 DEF Unopened, NoLoop

(* A step is about one conversation.                                        *)
FlowsAt(c) ==
    \A d \in Requests : d # c => /\ steps'[d] = steps[d] /\ results'[d] = results[d]
                                 /\ loop'[d] = loop[d] /\ serving'[d] = serving[d]

LEMMA HandlerAt ==
    ASSUME TypeInv, NEW r \in Requests,
           \/ AdvancePush(r) \/ AdvanceRun(r) \/ TakeFailure(r) \/ TakeStep(r) \/ RunSends(r)
    PROVE  FlowsAt(req[r].conv)
<1>1. PICK c : c = req[r].conv
  OBVIOUS
<1>2. /\ steps' = steps \/ \E s : steps' = [steps EXCEPT ![c] = s]
      /\ results' = results \/ \E s : results' = [results EXCEPT ![c] = s]
      /\ serving' = serving \/ \E s : serving' = [serving EXCEPT ![c] = s]
      /\ loop' = loop \/ \E x : loop' = [loop EXCEPT ![c].turn = x] \/ loop' = [loop EXCEPT ![c].pending = x]
  <2>1. CASE AdvancePush(r)
    BY <1>1, <2>1 DEF AdvancePush
  <2>2. CASE AdvanceRun(r)
    BY <1>1, <2>2 DEF AdvanceRun
  <2>3. CASE TakeFailure(r)
    BY <1>1, <2>3 DEF TakeFailure
  <2>4. CASE TakeStep(r)
    BY <1>1, <2>4 DEF TakeStep
  <2>5. CASE RunSends(r)
    BY <1>1, <2>5 DEF RunSends
  <2> QED
    BY <2>1, <2>2, <2>3, <2>4, <2>5
<1>3. /\ steps \in [Requests -> Seq(Step)] /\ results \in [Requests -> Seq(Answer)]
      /\ loop \in [Requests -> LoopRec] /\ serving \in [Requests -> 0..MaxRequests]
  BY DEF TypeInv, ChannelTypes, LoopTypes
<1> QED
  BY <1>1, <1>2, <1>3 DEF FlowsAt

LEMMA LoopAt ==
    ASSUME TypeInv, NEW c \in Requests,
           \/ ModelAsks(c) \/ Execute(c) \/ ExecSends(c) \/ ExecWakes(c) \/ ExecCancelled(c)
           \/ TurnEnds(c) \/ TurnClosed(c) \/ ProcessExits(c)
    PROVE  FlowsAt(c)
<1>1. /\ steps' = steps \/ \E s : steps' = [steps EXCEPT ![c] = s]
      /\ results' = results \/ \E s : results' = [results EXCEPT ![c] = s]
      /\ serving' = serving \/ \E s : serving' = [serving EXCEPT ![c] = s]
  BY DEF ModelAsks, Execute, ExecSends, ExecWakes, ExecCancelled, TurnEnds, TurnClosed, ProcessExits
<1>2. /\ steps \in [Requests -> Seq(Step)] /\ results \in [Requests -> Seq(Answer)]
      /\ loop \in [Requests -> LoopRec] /\ serving \in [Requests -> 0..MaxRequests]
  BY DEF TypeInv, ChannelTypes, LoopTypes
<1>3. \A d \in Requests : d # c => loop'[d] = loop[d]
  BY <1>2 DEF ModelAsks, Execute, ExecSends, ExecWakes, ExecCancelled, TurnEnds, TurnClosed, ProcessExits
<1> QED
  BY <1>1, <1>2, <1>3 DEF FlowsAt

LEMMA UnopenedStep ==
    ASSUME TypeInv, Agree, Unopened, [Next]_vars
    PROVE  Unopened'
<1> SUFFICES ASSUME NEW c \in Requests, req'[c].pc \in Early
             PROVE  steps'[c] = <<>> /\ results'[c] = <<>> /\ loop'[c] = NoLoop
  BY DEF Unopened
<1>1. req[c].pc \in Early
  BY OnwardStep DEF Onward
<1>2. steps[c] = <<>> /\ results[c] = <<>> /\ loop[c] = NoLoop
  BY <1>1 DEF Unopened
<1>3. CASE FlowSame
  BY <1>2, <1>3 DEF FlowSame
<1>4. CASE Lost
  BY <1>4 DEF Lost
<1>5. ASSUME NEW r \in Requests, Flows(r) PROVE \E d \in Requests : FlowsAt(d) /\ d # c
  <2>1. CASE AdvancePush(r) \/ AdvanceRun(r) \/ TakeFailure(r) \/ TakeStep(r) \/ RunSends(r)
    BY <1>1, <2>1, HandlerConv, HandlerAt
  <2>2. CASE \/ ModelAsks(r) \/ Execute(r) \/ ExecSends(r) \/ ExecWakes(r) \/ ExecCancelled(r)
             \/ TurnEnds(r) \/ TurnClosed(r) \/ ProcessExits(r)
    BY <1>1, <2>2, LoopConv, LoopAt
  <2> QED
    BY <1>5, <2>1, <2>2 DEF Flows
<1>6. CASE \E d \in Requests : FlowsAt(d) /\ d # c
  BY <1>2, <1>6 DEF FlowsAt
<1> QED
  BY <1>3, <1>4, <1>5, <1>6, FlowCases

(* A request whose turn is not over keeps its conversation. *)
LEMMA RunnerStays ==
    ASSUME TypeInv, Agree, [Next]_vars, NEW r \in Requests,
           run[r] # "none" \/ \E c \in Requests : loop[c].turn = r
    PROVE  req'[r].conv = req[r].conv /\ req[r].conv \in Requests /\ req[req[r].conv].pc \notin Early
<1>1. req[r].conv # 0 /\ req[r].pc \in {"wait", "rekey", "done"}
  BY DEF TypeInv, TurnsOwned
<1>2. req[r].conv \in Requests
  <2>1. req[r].conv \in 0..MaxRequests
    BY OwnRec DEF ReqRec
  <2> QED
    BY <1>1, <2>1, ProxyAssumption DEF Requests
<1>3. req'[r].conv = req[r].conv
  BY <1>1, OnwardStep DEF Onward, Early
<1> QED
  BY <1>1, <1>2, <1>3 DEF Agree

LEMMA TurnsHomeStep ==
    ASSUME TypeInv, Agree, Unopened, TurnsHome, [Next]_vars
    PROVE  TurnsHome'
<1>0. loop \in [Requests -> LoopRec]
  BY DEF TypeInv, LoopTypes
<1>1. \A c \in Requests : loop[c].turn # 0 => loop[c].turn \in Requests
  BY <1>0, ProxyAssumption DEF LoopRec, Requests
<1>2. \A c \in Requests : loop[c].turn # 0 => req'[loop[c].turn].conv = c
  BY <1>1, RunnerStays DEF TurnsHome
<1>3. ASSUME \A c \in Requests : loop'[c].turn \in {0, loop[c].turn} PROVE TurnsHome'
  BY <1>2, <1>3 DEF TurnsHome
<1>4. CASE FlowSame \/ Lost
  <2>1. loop' = loop \/ loop' = [c \in Requests |-> NoLoop]
    BY <1>4, Zenon DEF FlowSame, Lost
  <2>2. NoLoop.turn = 0
    BY DEF NoLoop
  <2>3. \A c \in Requests : loop'[c].turn \in {0, loop[c].turn}
    BY <2>1, <2>2
  <2> QED
    BY <1>3, <2>3
<1>5. ASSUME NEW r \in Requests, AdvanceRun(r) PROVE TurnsHome'
  <2>1. PICK c : c = req[r].conv
    OBVIOUS
  <2>2. /\ req' = [req EXCEPT ![r].pc = "wait"]
        /\ loop' = loop \/ loop' = [loop EXCEPT ![c].turn = r]
    BY <1>5, <2>1 DEF AdvanceRun, Goto
  <2>3. c \in Requests
    BY <1>5, <2>1, HandlerConv
  <2>4. req'[r].conv = c
    BY <2>1, <2>2, OwnRec DEF ReqRec
  <2>5. \A d \in Requests : loop'[d].turn = loop[d].turn \/ (d = c /\ loop'[d].turn = r)
    BY <1>0, <2>2, <2>3 DEF LoopRec
  <2> QED
    BY <1>2, <2>4, <2>5 DEF TurnsHome
<1>6. ASSUME NEW r \in Requests, Flows(r), ~AdvanceRun(r) PROVE TurnsHome'
  <2>1. CASE AdvancePush(r) \/ TakeFailure(r) \/ TakeStep(r)
    <3>1. loop' = loop
      BY <2>1, Zenon DEF AdvancePush, TakeFailure, TakeStep
    <3> QED
      BY <1>3, <3>1
  <2>2. CASE \/ RunSends(r) \/ ModelAsks(r) \/ Execute(r) \/ ExecSends(r) \/ ExecWakes(r) \/ ExecCancelled(r)
             \/ ProcessExits(r)
    <3>1. TurnSent(r) \/ TurnGoes
      BY <2>2, RunSendsEffect, GoesOn
    <3>2. \A d \in Requests : loop'[d].turn = loop[d].turn
      BY <1>0, <3>1 DEF TurnSent, TurnGoes
    <3> QED
      BY <1>3, <3>2
  <2>3. CASE TurnEnds(r) \/ TurnClosed(r)
    <3>1. TurnOver(r)
      BY <2>3, OverEffect
    <3>2. \A d \in Requests : loop'[d].turn \in {0, loop[d].turn}
      BY <1>0, <3>1 DEF TurnOver
    <3> QED
      BY <1>3, <3>2
  <2> QED
    BY <1>6, <2>1, <2>2, <2>3 DEF Flows
<1> QED
  BY <1>4, <1>5, <1>6, FlowCases

(* What is closed stays closed, until a request opens a conversation.       *)
LEMMA ClosedStays ==
    ASSUME TypeInv, Agree, [Next]_vars, NEW c \in Requests, conv[c].closed, req[c].pc \notin Early
    PROVE  conv'[c].closed
<1>1. CASE HoldSame \/ HoldLost
  BY <1>1 DEF HoldSame, HoldLost, ConvKept
<1>2. ASSUME NEW r \in Requests, Founds(r) PROVE conv'[c].closed
  BY <1>2 DEF Founds, ConvKept, Early
<1>3. ASSUME NEW r \in Requests, Shuts(r) PROVE conv'[c].closed
  BY <1>3 DEF Shuts, ConvKept
<1>4. ASSUME NEW r \in Requests, NEW d \in Requests, Takes(r, d) \/ Renews(r, d) PROVE conv'[c].closed
  BY <1>4 DEF Takes, Renews, ConvKept
<1> QED
  BY <1>1, <1>2, <1>3, <1>4, HoldEffect

LEMMA ClosedRuns ==
    ASSUME TypeInv, Agree, TurnsHome, [Next]_vars, NEW q \in Requests, run'[q] = "closed", run[q] # "closed"
    PROVE  /\ conv[req[q].conv].closed /\ req'[q].conv = req[q].conv
           /\ req[q].conv \in Requests /\ req[req[q].conv].pc \notin Early
<1>0. run \in [Requests -> Runs] /\ loop \in [Requests -> LoopRec]
  BY DEF TypeInv, LoopTypes, Runs
<1>1. CASE FlowSame \/ Lost
  BY <1>0, <1>1 DEF FlowSame, Lost
<1>2. ASSUME NEW r \in Requests, AdvanceRun(r)
      PROVE  /\ conv[req[q].conv].closed /\ req'[q].conv = req[q].conv
             /\ req[q].conv \in Requests /\ req[req[q].conv].pc \notin Early
  <2>1. \E s : run' = [run EXCEPT ![r] = s] /\ (s = "closed" => conv[req[r].conv].closed)
    BY <1>2 DEF AdvanceRun
  <2>2. req' = [req EXCEPT ![r].pc = "wait"]
    BY <1>2 DEF AdvanceRun, Goto
  <2>3. r = q /\ conv[req[q].conv].closed
    BY <1>0, <2>1
  <2>4. req'[q].conv = req[q].conv
    BY <2>2, OwnRec DEF ReqRec
  <2> QED
    BY <1>2, <2>3, <2>4, HandlerConv
<1>3. ASSUME NEW r \in Requests, RunSends(r) PROVE FALSE
  BY <1>0, <1>3 DEF RunSends
<1>4. ASSUME NEW c \in Requests, TurnEnds(c) \/ TurnClosed(c)
      PROVE  /\ conv[req[q].conv].closed /\ req'[q].conv = req[q].conv
             /\ req[q].conv \in Requests /\ req[req[q].conv].pc \notin Early
  <2>1. req' = req /\ loop[c].turn # 0
    BY <1>4 DEF TurnEnds, TurnClosed
  <2>2. loop[c].turn \in Requests
    BY <1>0, <2>1, ProxyAssumption DEF LoopRec, Requests
  <2>3. run' = [run EXCEPT ![loop[c].turn] = "closed"] /\ conv[c].closed
    <3>1. CASE TurnEnds(c)
      <4>1. \E s \in {"end_turn", "failed"} : run' = [run EXCEPT ![loop[c].turn] = s]
        BY <3>1 DEF TurnEnds
      <4> QED
        BY <1>0, <2>2, <4>1
    <3>2. CASE TurnClosed(c)
      BY <3>2 DEF TurnClosed
    <3> QED
      BY <1>4, <3>1, <3>2
  <2>4. q = loop[c].turn
    BY <1>0, <2>2, <2>3
  <2>5. req[q].conv = c
    BY <2>1, <2>4 DEF TurnsHome
  <2> QED
    BY <2>1, <2>3, <2>4, <2>5, RunnerStays
<1>5. ASSUME NEW r \in Requests, \/ AdvancePush(r) \/ TakeFailure(r) \/ TakeStep(r) \/ ModelAsks(r) \/ Execute(r)
                                 \/ ExecSends(r) \/ ExecWakes(r) \/ ExecCancelled(r) \/ ProcessExits(r)
      PROVE  FALSE
  <2>1. run' = run
    BY <1>5, Zenon DEF AdvancePush, TakeFailure, TakeStep, ModelAsks, Execute, ExecSends, ExecWakes, ExecCancelled, ProcessExits
  <2> QED
    BY <2>1
<1> QED
  BY <1>1, <1>2, <1>3, <1>4, <1>5, FlowCases DEF Flows

LEMMA TakenIsAll ==
    ASSUME NEW S, NEW s \in Seq(S), Len(s) <= 1, s # <<>>
    PROVE  Tail(s) = <<>>
<1>1. Tail(s) \in Seq(S) /\ Len(Tail(s)) = Len(s) - 1
  BY HeadTailProperties
<1>2. Len(s) \in Nat \ {0}
  BY EmptySeq
<1>3. Len(Tail(s)) = 0
  BY <1>1, <1>2
<1> QED
  BY <1>1, <1>3, EmptySeq

LEMMA ClosedSteps ==
    ASSUME TypeInv, [Next]_vars, NEW c \in Requests, steps'[c] # <<>>, Head(steps'[c]).err = "closed"
    PROVE  steps'[c] = steps[c] \/ \E r \in Requests : RunSends(r) /\ run[r] = "closed" /\ c = req[r].conv
<1>0. /\ steps \in [Requests -> Seq(Step)]
      /\ \A d \in Requests : Len(steps[d]) <= 1
  BY DEF TypeInv, ChannelTypes
<1>1. CASE FlowSame
  BY <1>1 DEF FlowSame
<1>2. CASE Lost
  <2>1. steps' = [d \in Requests |-> <<>>]
    BY <1>2 DEF Lost
  <2> QED
    BY <2>1
<1>3. ASSUME NEW r \in Requests, TakeFailure(r) \/ TakeStep(r) PROVE steps'[c] = steps[c]
  <2>1. PICK d : d = req[r].conv
    OBVIOUS
  <2>2. steps[d] # <<>> /\ steps' = [steps EXCEPT ![d] = Tail(@)]
    BY <1>3, <2>1, Zenon DEF TakeFailure, TakeStep
  <2>3. CASE c = d
    BY <1>0, <2>2, <2>3, TakenIsAll
  <2> QED
    BY <1>0, <2>2, <2>3
<1>4. ASSUME NEW r \in Requests, ExecSends(r) PROVE steps'[c] = steps[c]
  <2>3. PICK s : s = [by |-> serving[r], ids |-> loop[r].pending, stop |-> "tool_use", err |-> "none"]
    OBVIOUS
  <2>1. steps' = [steps EXCEPT ![r] = <<s>>] /\ s.err = "none"
    BY <1>4, <2>3 DEF ExecSends
  <2>2. c # r
    BY <1>0, <2>1
  <2> QED
    BY <1>0, <2>1, <2>2
<1>5. ASSUME NEW r \in Requests, RunSends(r), steps'[c] # steps[c] PROVE run[r] = "closed" /\ c = req[r].conv
  <2>4. PICK s : s = IF run[r] = "end_turn"
                     THEN [by |-> serving[req[r].conv], ids |-> loop[req[r].conv].pending, stop |-> "end_turn", err |-> "none"]
                     ELSE Failed(r, run[r])
    OBVIOUS
  <2>5. s.err = "closed" => run[r] = "closed"
    BY <2>4 DEF Failed
  <2>1. steps' = [steps EXCEPT ![req[r].conv] = <<s>>] /\ (s.err = "closed" => run[r] = "closed")
    BY <1>5, <2>4, <2>5, Zenon DEF RunSends
  <2>2. c = req[r].conv
    BY <1>0, <1>5, <2>1
  <2>3. steps'[c] = <<s>>
    BY <1>0, <2>1, <2>2
  <2> QED
    BY <2>1, <2>2, <2>3
<1>6. ASSUME NEW r \in Requests, \/ AdvancePush(r) \/ AdvanceRun(r) \/ ModelAsks(r) \/ Execute(r)
                                 \/ ExecWakes(r) \/ ExecCancelled(r) \/ TurnEnds(r) \/ TurnClosed(r) \/ ProcessExits(r)
      PROVE  steps' = steps
  BY <1>6, Zenon DEF AdvancePush, AdvanceRun, ModelAsks, Execute, ExecWakes, ExecCancelled, TurnEnds, TurnClosed, ProcessExits
<1> QED
  BY <1>1, <1>2, <1>3, <1>4, <1>5, <1>6, FlowCases DEF Flows

LEMMA ClosedFailsStep ==
    ASSUME TypeInv, Agree, TurnsHome, Unopened, ClosedFails, [Next]_vars
    PROVE  ClosedFails'
<1>1. ASSUME NEW q \in Requests, run'[q] = "closed" PROVE conv'[req'[q].conv].closed
  <2>1. /\ conv[req[q].conv].closed /\ req'[q].conv = req[q].conv
        /\ req[q].conv \in Requests /\ req[req[q].conv].pc \notin Early
    <3>1. CASE run[q] = "closed"
      BY <3>1, RunnerStays DEF ClosedFails
    <3>2. CASE run[q] # "closed"
      BY <1>1, <3>2, ClosedRuns
    <3> QED
      BY <3>1, <3>2
  <2> QED
    BY <2>1, ClosedStays
<1>2. ASSUME NEW c \in Requests, steps'[c] # <<>>, Head(steps'[c]).err = "closed" PROVE conv'[c].closed
  <2>1. CASE steps'[c] = steps[c]
    BY <1>2, <2>1, ClosedStays DEF ClosedFails, Unopened
  <2>2. ASSUME NEW r \in Requests, RunSends(r), run[r] = "closed", c = req[r].conv PROVE conv'[c].closed
    BY <2>2, HandlerConv, ClosedStays DEF ClosedFails
  <2> QED
    BY <1>2, <2>1, <2>2, ClosedSteps
<1> QED
  BY <1>1, <1>2 DEF ClosedFails

(* Who fails a request: the one that waits for a step, or nobody.           *)
Fails(q) ==
    /\ TakeFailure(q) /\ req'[q].pc = "done"
    /\ req'[q].step.err = "closed" => Head(steps[req[q].conv]).err = "closed"

LEMMA FailEffect ==
    ASSUME TypeInv, Agree, [Next]_vars, NEW q \in Requests
    PROVE  req'[q].step = req[q].step \/ req'[q].step.err = "none" \/ Fails(q)
<1>0. req \in [Requests -> ReqRec] /\ req[q] \in ReqRec
  BY DEF TypeInv, ReqTypes
<1>n. NoStep.err = "none"
  BY DEF NoStep
<1>1. ASSUME NEW a \in Clients, Asked(a) PROVE req'[q].step = req[q].step \/ req'[q].step.err = "none"
  BY <1>0, <1>n, <1>1 DEF Asked
<1>2. ASSUME NEW a \in Clients, Heard(a) PROVE req'[q].step = req[q].step
  BY <1>0, <1>2 DEF Heard
<1>3. ASSUME NEW r \in Requests, Handler(r)
      PROVE  req'[q].step = req[q].step \/ req'[q].step.err = "none" \/ Fails(q)
  <2>0. req[r] \in ReqRec
    BY <1>0
  <2>1. PICK x : req' = [req EXCEPT ![r] = x]
    BY <1>3, HandlerMoves DEF Moves
  <2>2. q # r => req'[q] = req[q]
    BY <1>0, <2>1
  <2>3. CASE q = r
    <3>1. CASE Lookup(r)
      <4>1. \E c : req' = [req EXCEPT ![r].pc = "decide", ![r].conv = c]
        BY <3>1, Zenon DEF Lookup
      <4> QED
        BY <1>0, <2>0, <2>3, <4>1 DEF ReqRec
    <3>2. CASE Decide(r) \/ StartPrepares(r) \/ AdvancePush(r) \/ AdvanceRun(r) \/ Rekey(r)
      <4>1. \E p : req' = [req EXCEPT ![r].pc = p]
        BY <3>2, Zenon DEF Decide, StartPrepares, AdvancePush, AdvanceRun, Rekey, Goto
      <4> QED
        BY <1>0, <2>0, <2>3, <4>1 DEF ReqRec
    <3>3. CASE DropConv(r)
      <4>1. req' = [req EXCEPT ![r].pc = "start", ![r].conv = 0]
        BY <3>3, Zenon DEF DropConv
      <4> QED
        BY <1>0, <2>0, <2>3, <4>1 DEF ReqRec
    <3>4. CASE StartRefuses(r) \/ OpenFails(r)
      <4>1. req' = [req EXCEPT ![r].pc = "done", ![r].step = NoStep]
        BY <3>4, Zenon DEF StartRefuses, OpenFails, Respond
      <4> QED
        BY <1>0, <1>n, <2>0, <2>3, <4>1 DEF ReqRec
    <3>5. CASE Open(r)
      <4>1. \E p, v : req' = [req EXCEPT ![r].pc = p, ![r].conv = r, ![r].victims = v]
        BY <3>5, Zenon DEF Open
      <4> QED
        BY <1>0, <2>0, <2>3, <4>1 DEF ReqRec
    <3>6. CASE Supersede(r)
      <4>1. PICK c \in req[r].victims :
               req' = [req EXCEPT ![r].victims = @ \ {c}, ![r].pc = IF req[r].victims = {c} THEN "run" ELSE @]
        BY <3>6, Zenon DEF Supersede
      <4> QED
        BY <1>0, <2>0, <2>3, <4>1 DEF ReqRec
    <3>7. CASE TakeFailure(r)
      <4>1. \E st : /\ req' = [req EXCEPT ![r].pc = "done", ![r].step = st]
                    /\ st = Failed(r, "dropped") \/ st = Head(steps[req[r].conv])
        BY <3>7, Zenon DEF TakeFailure, Respond
      <4>2. Failed(r, "dropped").err # "closed"
        BY DEF Failed
      <4>3. PICK st : /\ req' = [req EXCEPT ![r].pc = "done", ![r].step = st]
                      /\ st.err = "closed" => Head(steps[req[r].conv]).err = "closed"
        BY <4>1, <4>2
      <4>4. req'[r].pc = "done" /\ req'[r].step = st
        BY <1>0, <2>0, <4>3 DEF ReqRec
      <4> QED
        BY <2>3, <3>7, <4>3, <4>4 DEF Fails
    <3>8. CASE TakeStep(r)
      <4>1. \E st : st.err = "none" /\ req' = [req EXCEPT ![r].pc = "rekey", ![r].step = st]
        BY <3>8, Zenon DEF TakeStep
      <4> QED
        BY <1>0, <2>0, <2>3, <4>1 DEF ReqRec
    <3> QED
      BY <1>3, <3>1, <3>2, <3>3, <3>4, <3>5, <3>6, <3>7, <3>8 DEF Handler
  <2> QED
    BY <2>2, <2>3
<1>4. ASSUME \/ \E r \in Requests : RunSends(r) \/ ReadLoop(r) \/ ModelAsks(r)
             \/ Expire \/ Removals \/ Boot \/ UNCHANGED vars \/ \E a \in Clients : ClientHangsUp(a)
      PROVE  req' = req
  BY <1>4, Zenon DEF RunSends, ReadLoop, ModelAsks, Execute, ExecSends, ExecWakes, ExecCancelled, TurnEnds, TurnClosed, ProcessExits,
                     Expire, ExpireCollects, ExpireCloses, Removals, RemoveFile, Boot, vars, ClientHangsUp
<1>5. ASSUME Stop \/ Killed PROVE req'[q].step = req[q].step \/ req'[q].step.err = "none"
  <2>1. req' = [r \in Requests |-> IF InHandler(r) THEN [req[r] EXCEPT !.pc = "done", !.step = NoStep] ELSE req[r]]
    BY <1>5, Zenon DEF Stop, Killed, Lost
  <2>2. CASE InHandler(q)
    BY <1>0, <1>n, <2>1, <2>2 DEF ReqRec
  <2>3. CASE ~InHandler(q)
    BY <2>1, <2>3
  <2> QED
    BY <2>2, <2>3
<1> QED
  BY <1>1, <1>2, <1>3, <1>4, <1>5, SendAsks, ReadHears DEF Next

LEMMA DoneStays ==
    ASSUME TypeInv, Agree, [Next]_vars, NEW q \in Requests, req[q].pc = "done"
    PROVE  req'[q].pc = "done" /\ req'[q].conv = req[q].conv
<1>0. req \in [Requests -> ReqRec]
  BY DEF TypeInv, ReqTypes
<1>1. req'[q].conv = req[q].conv
  BY OnwardStep DEF Onward, Early
<1>2. req'[q].pc = "done"
  BY <1>0, SpeechEffect DEF Steady, Asked, Heard
<1> QED
  BY <1>1, <1>2

LEMMA FailedLastStep ==
    ASSUME TypeInv, Agree, FailedLast, [Next]_vars
    PROVE  FailedLast'
<1> SUFFICES ASSUME NEW q \in Requests, req'[q].step.err # "none" PROVE req'[q].pc = "done"
  BY DEF FailedLast
<1>1. CASE req'[q].step = req[q].step
  BY <1>1, DoneStays DEF FailedLast
<1>2. CASE Fails(q)
  BY <1>2 DEF Fails
<1> QED
  BY <1>1, <1>2, FailEffect

LEMMA RacedStays ==
    ASSUME TypeInv, Agree, [Next]_vars
    PROVE  raced \subseteq raced'
  BY HoldEffect DEF HoldSame, HoldLost, Founds, Shuts, Takes, Renews

LEMMA OnlyRacesFailStep ==
    ASSUME TypeInv, Agree, HoldInv, CloseInv, OnlyRacesFail, [Next]_vars
    PROVE  OnlyRacesFail'
<1> SUFFICES ASSUME NEW q \in Requests, req'[q].step.err = "closed" PROVE req'[q].conv \in raced'
  BY DEF OnlyRacesFail
<1>0. raced \subseteq raced'
  BY RacedStays
<1>1. CASE req'[q].step = req[q].step
  <2>1. req[q].conv \in raced
    BY <1>1 DEF OnlyRacesFail
  <2>2. req[q].pc = "done"
    BY <1>1 DEF CloseInv, FailedLast
  <2> QED
    BY <1>0, <2>1, <2>2, DoneStays
<1>2. CASE Fails(q)
  <2>1. PICK c : c = req[q].conv
    OBVIOUS
  <2>2. req[q].pc = "wait" /\ steps[c] # <<>> /\ Head(steps[c]).err = "closed"
    BY <1>2, <2>1 DEF Fails, TakeFailure, At
  <2>3. c \in Requests
    BY <2>1, <2>2, OwnRec DEF Holding
  <2>4. conv[c].closed
    BY <2>2, <2>3 DEF CloseInv, ClosedFails
  <2>5. Holds(q, c)
    BY <2>1, <2>2 DEF Holds, Held
  <2>6. c \in raced
    BY <2>3, <2>4, <2>5 DEF HoldInv, ShutOut
  <2>7. req'[q].conv = c
    BY <2>1, <2>2, OnwardStep DEF Onward, Early
  <2> QED
    BY <1>0, <2>6, <2>7
<1> QED
  BY <1>1, <1>2, FailEffect
-----------------------------------------------------------------------------
CareInv ==
    /\ Inv /\ Stories /\ Turning /\ Apart
    /\ HoldInv /\ CloseInv /\ OnlyRacesFail

LEMMA InitCare == Init => CareInv
<1> SUFFICES ASSUME Init PROVE CareInv
  OBVIOUS
<1>1. Inv
  BY InitInv
<1>2. /\ \A r \in Requests : /\ req[r].pc = "none" /\ req[r].prior = <<>> /\ req[r].input = <<>>
                             /\ req[r].conv = 0 /\ req[r].step = NoStep
      /\ \A a \in Clients : hist[a] = <<>>
      /\ \A c \in Requests : /\ conv[c] = NoConv /\ loop[c] = NoLoop /\ run[c] = "none"
                             /\ steps[c] = <<>> /\ results[c] = <<>>
  BY DEF Init, NoReq
<1>3. \A g \in Tales : g = <<>>
  BY <1>2 DEF Tales
<1>4. Len(<<>>) = 0
  OBVIOUS
<1>5. Stories /\ Turning
  BY <1>2, <1>3, <1>4 DEF Stories, Told, OneStory, Turning
<1>6. Apart
  BY <1>2 DEF Apart, Serving
<1>7. HoldInv
  <2>1. \A r, c \in Requests : ~Holds(r, c)
    BY <1>2 DEF Holds, Held
  <2>2. \A c \in Requests : conv[c].keys = {}
    BY <1>2 DEF NoConv
  <2> QED
    BY <2>1, <2>2 DEF HoldInv, KeysAgree, Sole, Busy, ShutOut
<1>8. CloseInv
  <2>1. NoLoop.turn = 0 /\ NoStep.err = "none"
    BY DEF NoLoop, NoStep
  <2> QED
    BY <1>2, <2>1 DEF CloseInv, TurnsHome, Unopened, ClosedFails, FailedLast
<1>9. OnlyRacesFail
  BY <1>2 DEF OnlyRacesFail, NoStep
<1> QED
  BY <1>1, <1>5, <1>6, <1>7, <1>8, <1>9 DEF CareInv

LEMMA NextCare == ~CanRetry /\ CareInv /\ [Next]_vars => CareInv'
<1> SUFFICES ASSUME ~CanRetry, CareInv, [Next]_vars PROVE CareInv'
  OBVIOUS
<1>1. Inv /\ TypeInv /\ Agree /\ Stories /\ Turning /\ Apart /\ HoldInv /\ CloseInv /\ OnlyRacesFail
  BY DEF CareInv, Inv
<1>2. TurnsHome /\ Unopened /\ ClosedFails /\ FailedLast
  BY <1>1 DEF CloseInv
<1>3. Inv'
  BY <1>1, NextInv
<1>4. Stories' /\ Turning' /\ Apart'
  BY <1>1, StoriesStep, TurningStep, ApartStep
<1>5. HoldInv'
  BY <1>1, HoldStep
<1>6. CloseInv'
  BY <1>1, <1>2, TurnsHomeStep, UnopenedStep, ClosedFailsStep, FailedLastStep DEF CloseInv
<1>7. OnlyRacesFail'
  BY <1>1, OnlyRacesFailStep
<1> QED
  BY <1>3, <1>4, <1>5, <1>6, <1>7 DEF CareInv

(* When no client sends a request again that is still under way, a request  *)
(* that finds its conversation closed under it lost a race: expire, or a    *)
(* request that opened another conversation of the same root, collected it  *)
(* while it was idle and closed it after it was taken.  Nothing else the    *)
(* server does closes a conversation that somebody else holds.              *)
(* (superseding: main.go:866-879; close: 884-899; expire: 911-924.)         *)
THEOREM NobodyElseCloses == ~CanRetry => (Spec => []OnlyRacesFail)
<1> SUFFICES ASSUME ~CanRetry PROVE Spec => []OnlyRacesFail
  OBVIOUS
<1>1. Init => CareInv
  BY InitCare
<1>2. CareInv /\ [Next]_vars => CareInv'
  BY NextCare
<1>3. CareInv => OnlyRacesFail
  BY DEF CareInv
<1> QED
  BY <1>1, <1>2, <1>3, PTL DEF Spec
-----------------------------------------------------------------------------
(* The turns of conv.run.  One goroutine is at work on a conversation, and  *)
(* it is the one whose turn it is.                                          *)
On(q, c) == run[q] # "none" /\ req[q].conv = c
Working(c) == \E q \in Requests : On(q, c)
OneRun == \A p, q, c \in Requests : On(p, c) /\ On(q, c) => p = q
TurnRuns ==
    /\ \A q \in Requests : run[q] = "turn" => loop[req[q].conv].turn = q
    /\ \A q, c \in Requests : loop[c].turn = q => run[q] = "turn"
Chosen ==
    \A r, c \in Requests : Holds(r, c) =>
        /\ req[r].pc = "push" => conv[c].parked /\ conv[c].asked = Resulted(req[r].input)
        /\ req[r].pc \in {"supersede", "run"} => ~conv[c].parked
Bare == \A c \in Requests : req[c].pc \in Early => conv[c].keys = {}

(* What a conversation is at when nobody waits for it, or the step that is  *)
(* waited for is there: its loop is parked, and answering ids lets it and   *)
(* what is left of its turn go on, or its turn is over.                     *)
Due(c, ids) ==
    /\ loop[c].id \in ids \cup loop[c].answered /\ loop[c].id \notin loop[c].unclaimed
    /\ loop[c].unclaimed \subseteq ids \cup loop[c].answered
InTurn(c) == \A q \in Requests : On(q, c) => run[q] \in {"turn", "closed"}
Cancelled(c) == loop[c].at = "free" /\ conv[c].closed
Parked(c, ids) == ((loop[c].at = "parked" /\ Due(c, ids)) \/ Cancelled(c)) /\ InTurn(c)
Idle(c) == loop[c].at = "free" /\ loop[c].unclaimed = {} /\ ~Working(c)
Rested(c, parked, ids) ==
    /\ results[c] = <<>>
    /\ parked => Parked(c, ids)
    /\ ~parked => Idle(c)
Failing(c) == steps[c] # <<>> /\ Head(steps[c]).err # "none"
Reached(c) == conv[c].keys # {} \/ \E r \in Requests : Holds(r, c)
Waits(r, c) == req[r].pc = "wait" /\ req[r].conv = c
RestAt(c) ==
    Reached(c) /\ (\A r \in Requests : ~Waits(r, c)) =>
        /\ Rested(c, conv[c].parked, conv[c].asked)
        /\ \/ steps[c] = <<>> /\ (conv[c].parked => Working(c))
           \/ conv[c].parked /\ Failing(c)

(* Someone waits: the step is there, or the loop is on its way to it with   *)
(* what the request gave it.                                                *)
Stepped(r, c) ==
    LET st == Head(steps[c]) IN
    /\ steps[c] # <<>> /\ st.err = "none" /\ st.by = r /\ serving[c] = r
    /\ Rested(c, st.stop = "tool_use", st.ids) /\ (st.stop = "tool_use" => Working(c))
Given(r, c) ==
    loop[c].at = "parked" /\ results[c] # <<>> /\ Head(results[c]).by = r /\ Due(c, Resulted(Head(results[c]).input))
Sending(r, c) == loop[c].at = "sends" /\ results[c] = <<>> /\ serving[c] = r /\ Due(c, loop[c].pending)
Running(r, c) ==
    /\ loop[c].at = "free" /\ results[c] = <<>> /\ serving[c] = r
    /\ loop[c].unclaimed \subseteq loop[c].pending \cup loop[c].answered
Exited(c) == loop[c].at = "exited"
Ongoing(r, c) ==
    /\ steps[c] = <<>> /\ Working(c)
    /\ Given(r, c) \/ Sending(r, c) \/ Running(r, c) \/ Exited(c) \/ (Cancelled(c) /\ InTurn(c))
    /\ \A q \in Requests : On(q, c) /\ run[q] = "end_turn" => loop[c].at = "free" /\ loop[c].unclaimed = {}
    /\ loop[c].at # "free" => InTurn(c)
WaitAt(c) == \A r \in Requests : Waits(r, c) => Failing(c) \/ Stepped(r, c) \/ Ongoing(r, c)
PhaseAt(c) == RestAt(c) /\ WaitAt(c)
PhaseInv == OneRun /\ TurnRuns /\ Chosen /\ Bare /\ \A c \in Requests : PhaseAt(c)

(* All this stays as it is at a conversation that nothing happens to but    *)
(* that its turn is over because it was closed.                             *)
SameLoop(c) ==
    /\ loop'[c].at = loop[c].at /\ loop'[c].id = loop[c].id /\ loop'[c].pending = loop[c].pending
    /\ loop'[c].unclaimed = loop[c].unclaimed /\ loop'[c].answered = loop[c].answered
SameRuns(c) ==
    \A q \in Requests :
        /\ On(q, c)' <=> On(q, c)
        /\ On(q, c) /\ run[q] \in {"turn", "closed"} => run'[q] \in {"turn", "closed"}
        /\ On(q, c) /\ run'[q] = "end_turn" => run[q] = "end_turn"
SameAt(c) ==
    /\ SameLoop(c) /\ steps'[c] = steps[c] /\ results'[c] = results[c] /\ serving'[c] = serving[c]
    /\ conv[c].closed => conv'[c].closed
    /\ SameRuns(c)
SameWaits(c) ==
    /\ Reached(c)' => Reached(c)
    /\ \A r \in Requests : Waits(r, c)' <=> Waits(r, c)

LEMMA RestedStays ==
    ASSUME NEW c \in Requests, NEW p \in BOOLEAN, NEW ids, Rested(c, p, ids),
           SameLoop(c), results'[c] = results[c], conv[c].closed => conv'[c].closed, SameRuns(c)
    PROVE  Rested(c, p, ids)'
<1>1. (Working(c)' <=> Working(c)) /\ (InTurn(c) => InTurn(c)')
  BY DEF Working, InTurn, SameRuns
<1>2. Parked(c, ids) => Parked(c, ids)'
  BY <1>1 DEF Parked, Cancelled, Due, SameLoop
<1>3. Idle(c) => Idle(c)'
  BY <1>1 DEF Idle, SameLoop
<1> QED
  BY <1>2, <1>3 DEF Rested

LEMMA SameStays ==
    ASSUME NEW c \in Requests, NEW r \in Requests, SameAt(c)
    PROVE  /\ Working(c)' <=> Working(c)
           /\ Failing(c)' <=> Failing(c)
           /\ Stepped(r, c) => Stepped(r, c)'
           /\ Ongoing(r, c) => Ongoing(r, c)'
<1>0. /\ SameLoop(c) /\ steps'[c] = steps[c] /\ results'[c] = results[c] /\ serving'[c] = serving[c]
      /\ conv[c].closed => conv'[c].closed
      /\ SameRuns(c)
  BY DEF SameAt
<1>1. (Working(c)' <=> Working(c)) /\ (InTurn(c) => InTurn(c)')
  BY <1>0 DEF Working, InTurn, SameRuns
<1>2. Failing(c)' <=> Failing(c)
  BY <1>0 DEF Failing
<1>3. Stepped(r, c) => Stepped(r, c)'
  <2> SUFFICES ASSUME Stepped(r, c) PROVE Stepped(r, c)'
    OBVIOUS
  <2>1. PICK st : st = Head(steps[c])
    OBVIOUS
  <2>2. PICK p \in BOOLEAN : p = (st.stop = "tool_use")
    OBVIOUS
  <2>3. /\ Rested(c, p, st.ids) /\ steps[c] # <<>> /\ st.err = "none" /\ st.by = r /\ serving[c] = r
        /\ p => Working(c)
    BY <2>1, <2>2 DEF Stepped
  <2>4. Rested(c, p, st.ids)'
    BY <1>0, <2>3, RestedStays
  <2>5. st = Head(steps'[c]) /\ steps'[c] # <<>>
    BY <1>0, <2>1, <2>3
  <2> QED
    BY <1>0, <1>1, <2>2, <2>3, <2>4, <2>5 DEF Stepped
<1>4. Ongoing(r, c) => Ongoing(r, c)'
  <2> SUFFICES ASSUME Ongoing(r, c) PROVE Ongoing(r, c)'
    OBVIOUS
  <2>1. Given(r, c) => Given(r, c)'
    BY <1>0 DEF Given, Due, SameLoop
  <2>2. Sending(r, c) => Sending(r, c)'
    BY <1>0 DEF Sending, Due, SameLoop
  <2>3. (Running(r, c) => Running(r, c)') /\ (Cancelled(c) => Cancelled(c)') /\ (Exited(c) => Exited(c)')
    BY <1>0 DEF Running, Cancelled, Exited, SameLoop
  <2>4. (\A q \in Requests : On(q, c) /\ run[q] = "end_turn" => loop[c].at = "free" /\ loop[c].unclaimed = {})'
    BY <1>0 DEF SameRuns, SameLoop, Ongoing
  <2>5. (loop[c].at # "free" => InTurn(c))'
    BY <1>0, <1>1 DEF Ongoing, SameLoop
  <2>6. steps'[c] = <<>> /\ Working(c)'
    BY <1>0, <1>1 DEF Ongoing
  <2> QED
    BY <1>1, <2>1, <2>2, <2>3, <2>4, <2>5, <2>6 DEF Ongoing
<1> QED
  BY <1>1, <1>2, <1>3, <1>4

LEMMA Frame ==
    ASSUME NEW c \in Requests, SameAt(c), SameWaits(c), conv[c].parked \in BOOLEAN,
           conv'[c].parked = conv[c].parked, conv'[c].asked = conv[c].asked, PhaseAt(c)
    PROVE  PhaseAt(c)'
<1>1. WaitAt(c)'
  BY SameStays DEF PhaseAt, WaitAt, SameWaits
<1>2. RestAt(c)'
  <2> SUFFICES ASSUME Reached(c)', \A r \in Requests : ~Waits(r, c)'
               PROVE  (/\ Rested(c, conv[c].parked, conv[c].asked)
                       /\ \/ steps[c] = <<>> /\ (conv[c].parked => Working(c))
                          \/ conv[c].parked /\ Failing(c))'
    BY DEF RestAt
  <2>0. PICK p \in BOOLEAN : p = conv[c].parked
    OBVIOUS
  <2>1. PICK ids : p = conv[c].parked /\ ids = conv[c].asked
    BY <2>0
  <2>2. Rested(c, p, ids) /\ ((steps[c] = <<>> /\ (p => Working(c))) \/ (p /\ Failing(c)))
    BY <2>1 DEF PhaseAt, RestAt, SameWaits
  <2>3. Rested(c, p, ids)'
    BY <2>2, RestedStays DEF SameAt
  <2>4. (steps'[c] = <<>> /\ (p => Working(c)')) \/ (p /\ Failing(c)')
    BY <2>2, SameStays DEF SameAt
  <2> QED
    BY <2>1, <2>3, <2>4
<1> QED
  BY <1>1, <1>2 DEF PhaseAt

(* What a step leaves alone: the runs of other conversations, whether they  *)
(* are parked, who waits.                                                   *)
RunsAt(c) == \A q \in Requests : run'[q] = run[q] \/ req[q].conv = c

LEMMA HandlerFlows ==
    ASSUME TypeInv, NEW r \in Requests,
           AdvancePush(r) \/ AdvanceRun(r) \/ TakeFailure(r) \/ TakeStep(r) \/ RunSends(r)
    PROVE  req[r].conv \in Requests /\ FlowsAt(req[r].conv) /\ RunsAt(req[r].conv)
<1>0. run \in [Requests -> Runs]
  BY DEF TypeInv, LoopTypes, Runs
<1>1. req[r].conv \in Requests
  <2>1. CASE RunSends(r)
    <3>1. run[r] # "none"
      BY <2>1 DEF RunSends
    <3> QED
      BY <3>1, OwnRun
  <2>2. CASE ~RunSends(r)
    <3>1. req[r].pc \in Holding
      BY <2>2 DEF AdvancePush, AdvanceRun, TakeFailure, TakeStep, At, Holding
    <3> QED
      BY <3>1, OwnRec
  <2> QED
    BY <2>1, <2>2
<1>2. run' = run \/ \E s : run' = [run EXCEPT ![r] = s]
  BY DEF AdvancePush, AdvanceRun, TakeFailure, TakeStep, RunSends
<1>3. RunsAt(req[r].conv)
  BY <1>0, <1>2 DEF RunsAt
<1> QED
  BY <1>1, <1>3, HandlerAt

LEMMA LoopFlows ==
    ASSUME TypeInv, TurnsHome, NEW c \in Requests,
           \/ ModelAsks(c) \/ Execute(c) \/ ExecSends(c) \/ ExecWakes(c) \/ ExecCancelled(c)
           \/ TurnEnds(c) \/ TurnClosed(c) \/ ProcessExits(c)
    PROVE  FlowsAt(c) /\ RunsAt(c)
<1>0. run \in [Requests -> Runs]
  BY DEF TypeInv, LoopTypes, Runs
<1>1. CASE \/ ModelAsks(c) \/ Execute(c) \/ ExecSends(c) \/ ExecWakes(c) \/ ExecCancelled(c)
           \/ ProcessExits(c)
  <2>1. run' = run
    BY <1>1, Zenon DEF ModelAsks, Execute, ExecSends, ExecWakes, ExecCancelled, ProcessExits
  <2> QED
    BY <2>1, LoopAt DEF RunsAt
<1>2. CASE TurnEnds(c) \/ TurnClosed(c)
  <2>1. loop[c].turn # 0 /\ \E s : run' = [run EXCEPT ![loop[c].turn] = s]
    BY <1>2 DEF TurnEnds, TurnClosed
  <2>2. req[loop[c].turn].conv = c
    BY <2>1 DEF TurnsHome
  <2>3. RunsAt(c)
    BY <1>0, <2>1, <2>2 DEF RunsAt
  <2> QED
    BY <2>3, LoopAt
<1> QED
  BY <1>1, <1>2

Falls == up /\ Lost

LEMMA ParkedStays ==
    ASSUME TypeInv, Agree, [Next]_vars, NEW c \in Requests
    PROVE  \/ conv'[c].parked = conv[c].parked /\ conv'[c].asked = conv[c].asked
           \/ Falls \/ req[c].pc \in Early
           \/ \E r \in Requests : TakeStep(r) /\ req[r].conv = c
<1>0. conv \in [Requests -> ConvRec] /\ conv[c] \in ConvRec
  BY OwnConv
<1> DEFINE Same == conv'[c].parked = conv[c].parked /\ conv'[c].asked = conv[c].asked
<1>1. ASSUME \/ \E a \in Clients : ClientSends(a) \/ ClientReads(a) \/ ClientHangsUp(a)
             \/ \E r \in Requests : RunSends(r) \/ ReadLoop(r) \/ ModelAsks(r)
             \/ ExpireCollects \/ Removals \/ Boot \/ UNCHANGED vars
      PROVE  Same
  <2>1. conv' = conv
    BY <1>1, Zenon DEF ClientSends, ClientReads, ClientHangsUp, RunSends, ReadLoop, ModelAsks, Execute, ExecSends,
                       ExecWakes, ExecCancelled, TurnEnds, TurnClosed, ProcessExits, ExpireCollects, Removals, RemoveFile, Boot, vars, convVars
  <2> QED
    BY <2>1
<1>2. ASSUME NEW d, CloseConv(d) PROVE Same
  BY <1>0, <1>2 DEF CloseConv, ConvRec
<1>3. ASSUME NEW r \in Requests, Handler(r) PROVE Same \/ req[c].pc \in Early \/ (TakeStep(r) /\ req[r].conv = c)
  <2>1. CASE Lookup(r)
    <3>1. PICK d : conv' = (IF d = 0 THEN conv ELSE [conv EXCEPT ![d].busy = TRUE])
      BY <2>1, Zenon DEF Lookup
    <3> QED
      BY <1>0, <3>1 DEF ConvRec
  <2>2. CASE Decide(r) \/ StartRefuses(r) \/ StartPrepares(r) \/ OpenFails(r) \/ AdvancePush(r) \/ AdvanceRun(r)
    <3>1. conv' = conv
      BY <2>2, Zenon DEF Decide, StartRefuses, StartPrepares, OpenFails, AdvancePush, AdvanceRun, convVars
    <3> QED
      BY <3>1
  <2>3. CASE DropConv(r) \/ Supersede(r) \/ TakeFailure(r)
    <3>1. \E d : CloseConv(d)
      BY <2>3, Zenon DEF DropConv, Supersede, TakeFailure
    <3> QED
      BY <1>2, <3>1
  <2>4. CASE Open(r)
    <3>1. req[r].pc = "open" /\ \E x : conv' = [conv EXCEPT ![r] = x]
      BY <2>4, Zenon DEF Open, At
    <3> QED
      BY <1>0, <3>1 DEF Early
  <2>5. CASE TakeStep(r)
    <3>1. \E p, s : conv' = [conv EXCEPT ![req[r].conv].parked = p, ![req[r].conv].asked = s]
      BY <2>5, Zenon DEF TakeStep
    <3> QED
      BY <1>0, <2>5, <3>1 DEF ConvRec
  <2>6. CASE Rekey(r)
    <3>1. \E k : conv' = [conv EXCEPT ![req[r].conv].keys = k, ![req[r].conv].busy = FALSE]
      BY <2>6, Zenon DEF Rekey
    <3> QED
      BY <1>0, <3>1 DEF ConvRec
  <2> HIDE DEF Same
  <2> QED
    BY <1>3, <2>1, <2>2, <2>3, <2>4, <2>5, <2>6 DEF Handler
<1>4. ASSUME ExpireCloses PROVE Same
  <2>1. \E d : CloseConv(d)
    BY <1>4, Zenon DEF ExpireCloses
  <2> QED
    BY <1>2, <2>1
<1>5. ASSUME Stop \/ Killed PROVE Falls
  BY <1>5 DEF Stop, Killed, Falls
<1> HIDE DEF Same
<1>6. \/ Same \/ Falls \/ req[c].pc \in Early
      \/ \E r \in Requests : TakeStep(r) /\ req[r].conv = c
  BY <1>1, <1>3, <1>4, <1>5 DEF Next, Expire
<1> QED
  BY <1>6 DEF Same

LEMMA WaitsFrom ==
    ASSUME TypeInv, Agree, [Next]_vars, NEW r \in Requests
    PROVE  /\ req'[r].pc = "wait" => /\ req[r].pc = "wait" \/ AdvancePush(r) \/ AdvanceRun(r)
                                     /\ req'[r].conv = req[r].conv
           /\ req[r].pc = "wait" => /\ req'[r].pc = "wait" \/ TakeFailure(r) \/ TakeStep(r) \/ Falls
                                    /\ req'[r].conv = req[r].conv
<1>0. req \in [Requests -> ReqRec]
  BY DEF TypeInv, ReqTypes
<1> DEFINE Same == req'[r].pc = "wait" <=> req[r].pc = "wait"
<1>1. ASSUME NEW a \in Clients, Asked(a) PROVE Same
  BY <1>0, <1>1 DEF Asked
<1>2. ASSUME NEW a \in Clients, Heard(a) PROVE Same
  BY <1>0, <1>2 DEF Heard
<1>3. ASSUME NEW q \in Requests, Handler(q), q # r PROVE Same
  <2>1. PICK x : req' = [req EXCEPT ![q] = x]
    BY <1>3, HandlerMoves DEF Moves
  <2> QED
    BY <1>0, <1>3, <2>1
<1>4. ASSUME Handler(r) PROVE Same \/ AdvancePush(r) \/ AdvanceRun(r) \/ TakeFailure(r) \/ TakeStep(r)
  <2>0. req[r] \in ReqRec
    BY <1>0
  <2>1. CASE Lookup(r) \/ Decide(r) \/ DropConv(r) \/ StartRefuses(r) \/ StartPrepares(r) \/ OpenFails(r) \/ Open(r)
             \/ Rekey(r)
    <3>1. req[r].pc # "wait"
      BY <2>1 DEF Lookup, Decide, DropConv, StartRefuses, StartPrepares, OpenFails, Open, Rekey, At
    <3>2. CASE Lookup(r)
      <4>1. \E c : req' = [req EXCEPT ![r].pc = "decide", ![r].conv = c]
        BY <3>2, Zenon DEF Lookup
      <4> QED
        BY <1>0, <2>0, <3>1, <4>1 DEF ReqRec
    <3>3. CASE Decide(r) \/ StartPrepares(r) \/ Rekey(r)
      <4>1. \E p \in {"push", "run", "drop", "start", "open", "done"} : req' = [req EXCEPT ![r].pc = p]
        BY <3>3, Zenon DEF Decide, StartPrepares, Rekey, Goto
      <4> QED
        BY <1>0, <2>0, <3>1, <4>1 DEF ReqRec
    <3>4. CASE DropConv(r)
      <4>1. req' = [req EXCEPT ![r].pc = "start", ![r].conv = 0]
        BY <3>4, Zenon DEF DropConv
      <4> QED
        BY <1>0, <2>0, <3>1, <4>1 DEF ReqRec
    <3>5. CASE StartRefuses(r) \/ OpenFails(r)
      <4>1. req' = [req EXCEPT ![r].pc = "done", ![r].step = NoStep]
        BY <3>5, Zenon DEF StartRefuses, OpenFails, Respond
      <4> QED
        BY <1>0, <2>0, <3>1, <4>1 DEF ReqRec
    <3>6. CASE Open(r)
      <4>1. \E p \in {"run", "supersede"} : \E v : req' = [req EXCEPT ![r].pc = p, ![r].conv = r, ![r].victims = v]
        BY <3>6, Zenon DEF Open
      <4> QED
        BY <1>0, <2>0, <3>1, <4>1 DEF ReqRec
    <3> QED
      BY <2>1, <3>2, <3>3, <3>4, <3>5, <3>6
  <2>2. CASE Supersede(r)
    <3>1. PICK c \in req[r].victims :
             req' = [req EXCEPT ![r].victims = @ \ {c}, ![r].pc = IF req[r].victims = {c} THEN "run" ELSE @]
      BY <2>2, Zenon DEF Supersede
    <3>2. req[r].pc = "supersede"
      BY <2>2 DEF Supersede, At
    <3> QED
      BY <1>0, <2>0, <3>1, <3>2 DEF ReqRec
  <2> HIDE DEF Same
  <2> QED
    BY <1>4, <2>1, <2>2 DEF Handler
<1>5. ASSUME \/ \E q \in Requests : RunSends(q) \/ ReadLoop(q) \/ ModelAsks(q)
             \/ Expire \/ Removals \/ Boot \/ UNCHANGED vars \/ \E a \in Clients : ClientHangsUp(a)
      PROVE  Same
  <2>1. req' = req
    BY <1>5, Zenon DEF RunSends, ReadLoop, ModelAsks, Execute, ExecSends, ExecWakes, ExecCancelled, TurnEnds, TurnClosed, ProcessExits,
                       Expire, ExpireCollects, ExpireCloses, Removals, RemoveFile, Boot, vars, ClientHangsUp
  <2> QED
    BY <2>1
<1>6. ASSUME Stop \/ Killed PROVE Falls /\ req'[r].pc # "wait"
  BY <1>6, LostEffect DEF Stop, Killed, Falls, ReqLost
<1> HIDE DEF Same
<1>7. Same \/ AdvancePush(r) \/ AdvanceRun(r) \/ TakeFailure(r) \/ TakeStep(r) \/ (Falls /\ req'[r].pc # "wait")
  BY <1>1, <1>2, <1>3, <1>4, <1>5, <1>6, SendAsks, ReadHears DEF Next
<1>8. /\ TakeFailure(r) \/ TakeStep(r) => req[r].pc = "wait"
      /\ AdvancePush(r) \/ AdvanceRun(r) => req[r].pc \in {"push", "run"}
  BY DEF TakeFailure, TakeStep, AdvancePush, AdvanceRun, At
<1>9. req[r].pc \in {"wait", "push", "run"} => req'[r].conv = req[r].conv
  BY OnwardStep DEF Onward, Early
<1> QED
  BY <1>7, <1>8, <1>9 DEF Same

LEMMA Begun ==
    ASSUME TypeInv, TurnRuns, [Next]_vars, NEW q \in Requests, run[q] = "none", run'[q] # "none"
    PROVE  AdvanceRun(q)
<1>0. run \in [Requests -> Runs] /\ loop \in [Requests -> LoopRec]
  BY DEF TypeInv, LoopTypes, Runs
<1>1. CASE FlowSame \/ Lost
  BY <1>1 DEF FlowSame, Lost
<1>2. ASSUME NEW r \in Requests, Flows(r) PROVE AdvanceRun(q)
  <2>1. CASE AdvanceRun(r)
    <3>1. \E s : run' = [run EXCEPT ![r] = s]
      BY <2>1 DEF AdvanceRun
    <3> QED
      BY <1>0, <2>1, <3>1
  <2>2. CASE TurnEnds(r) \/ TurnClosed(r)
    <3>1. loop[r].turn # 0 /\ \E s : run' = [run EXCEPT ![loop[r].turn] = s]
      BY <2>2 DEF TurnEnds, TurnClosed
    <3>2. loop[r].turn # q
      BY DEF TurnRuns
    <3> QED
      BY <1>0, <3>1, <3>2
  <2>3. CASE RunSends(r)
    <3>1. run' = [run EXCEPT ![r] = "none"]
      BY <2>3 DEF RunSends
    <3> QED
      BY <1>0, <3>1
  <2>4. CASE \/ AdvancePush(r) \/ TakeFailure(r) \/ TakeStep(r) \/ ModelAsks(r) \/ Execute(r)
             \/ ExecSends(r) \/ ExecWakes(r) \/ ExecCancelled(r) \/ ProcessExits(r)
    <3>1. run' = run
      BY <2>4, Zenon DEF AdvancePush, TakeFailure, TakeStep, ModelAsks, Execute, ExecSends, ExecWakes, ExecCancelled, ProcessExits
    <3> QED
      BY <3>1
  <2> QED
    BY <1>2, <2>1, <2>2, <2>3, <2>4 DEF Flows
<1> QED
  BY <1>1, <1>2, FlowCases

(* Who is at work on a conversation was, or just begins.                    *)
LEMMA OnFrom ==
    ASSUME TypeInv, Agree, TurnRuns, [Next]_vars, NEW q \in Requests, NEW c \in Requests, On(q, c)'
    PROVE  req[q].conv = c /\ req'[q].conv = req[q].conv /\ (On(q, c) \/ AdvanceRun(q))
<1>1. CASE run[q] # "none"
  BY <1>1, RunnerStays DEF On
<1>2. CASE run[q] = "none"
  <2>1. AdvanceRun(q)
    BY <1>2, Begun DEF On
  <2>2. req[q].pc = "run"
    BY <2>1 DEF AdvanceRun, At
  <2>3. req'[q].conv = req[q].conv
    BY <2>2, OnwardStep DEF Onward, Early
  <2> QED
    BY <2>1, <2>3 DEF On
<1> QED
  BY <1>1, <1>2

LEMMA OnStays ==
    ASSUME TypeInv, Agree, [Next]_vars, NEW q \in Requests, NEW c \in Requests, On(q, c)
    PROVE  req'[q].conv = c /\ req[c].pc \notin Early /\ (On(q, c)' <=> run'[q] # "none")
  BY RunnerStays DEF On

LEMMA ReachedFrom ==
    ASSUME TypeInv, Agree, [Next]_vars, NEW c \in Requests, Reached(c)', ~Founds(c)
    PROVE  Reached(c)
<1>1. CASE HoldSame \/ HoldLost
  BY <1>1 DEF HoldSame, HoldLost, HoldsKept, ConvKept, Reached
<1>2. ASSUME NEW r \in Requests, Founds(r) PROVE Reached(c)
  BY <1>2 DEF Founds, ConvKept, Reached
<1>3. ASSUME NEW r \in Requests, Shuts(r) PROVE Reached(c)
  BY <1>3 DEF Shuts, HoldsKept, ConvKept, Reached
<1>4. ASSUME NEW r \in Requests, NEW d \in Requests, Takes(r, d) PROVE Reached(c)
  BY <1>4 DEF Takes, ConvKept, Reached
<1>5. ASSUME NEW r \in Requests, NEW d \in Requests, Renews(r, d) PROVE Reached(c)
  BY <1>5 DEF Renews, HoldsKept, ConvKept, Reached
<1> QED
  BY <1>1, <1>2, <1>3, <1>4, <1>5, HoldEffect

(* Where nothing flows, all stays as it is.                                 *)
Quiet(c) ==
    /\ SameLoop(c) /\ steps'[c] = steps[c] /\ results'[c] = results[c] /\ serving'[c] = serving[c]
    /\ \A q \in Requests : run'[q] = run[q] \/ req[q].conv # c

LEMMA Touches ==
    ASSUME TypeInv, TurnRuns, NEW r \in Requests, NEW c \in Requests, req[r].conv = c, Quiet(c)
    PROVE  ~(AdvancePush(r) \/ AdvanceRun(r) \/ TakeFailure(r) \/ TakeStep(r))
<1>0. /\ steps \in [Requests -> Seq(Step)] /\ results \in [Requests -> Seq(Answer)] /\ run \in [Requests -> Runs]
      /\ \A d \in Requests : Len(steps[d]) <= 1
  BY DEF TypeInv, ChannelTypes, LoopTypes, Runs
<1>1. ASSUME AdvancePush(r) PROVE FALSE
  <2>1. results[c] = <<>> /\ \E x : results' = [results EXCEPT ![c] = <<x>>]
    BY <1>1 DEF AdvancePush
  <2> QED
    BY <1>0, <2>1 DEF Quiet
<1>2. ASSUME AdvanceRun(r) PROVE FALSE
  <2>1. req[r].pc = "run" /\ \E s : s # "none" /\ run' = [run EXCEPT ![r] = s]
    BY <1>2 DEF AdvanceRun, At
  <2>2. run[r] = "none"
    BY <2>1 DEF TypeInv, TurnsOwned
  <2> QED
    BY <1>0, <2>1, <2>2 DEF Quiet
<1>3. ASSUME TakeFailure(r) \/ TakeStep(r) PROVE FALSE
  <2>1. steps[c] # <<>> /\ steps' = [steps EXCEPT ![c] = Tail(@)]
    BY <1>3 DEF TakeFailure, TakeStep
  <2>2. Tail(steps[c]) = <<>>
    BY <1>0, <2>1, TakenIsAll
  <2> QED
    BY <1>0, <2>1, <2>2 DEF Quiet
<1> QED
  BY <1>1, <1>2, <1>3

LEMMA QuietRuns ==
    ASSUME TypeInv, Agree, TurnRuns, [Next]_vars, NEW c \in Requests, Quiet(c)
    PROVE  SameRuns(c)
<1> SUFFICES ASSUME NEW q \in Requests
             PROVE  /\ On(q, c)' <=> On(q, c)
                    /\ On(q, c) => run'[q] = run[q]
  BY DEF SameRuns
<1>1. ASSUME On(q, c)' PROVE On(q, c)
  <2>1. req[q].conv = c
    BY <1>1, OnFrom
  <2> QED
    BY <1>1, <2>1, OnFrom, Touches
<1>2. ASSUME On(q, c) PROVE run'[q] = run[q] /\ On(q, c)'
  <2>1. run'[q] = run[q]
    BY <1>2 DEF On, Quiet
  <2>2. run[q] # "none"
    BY <1>2 DEF On
  <2> QED
    BY <1>2, <2>1, <2>2, OnStays
<1> QED
  BY <1>1, <1>2

LEMMA QuietAt ==
    ASSUME TypeInv, Agree, TurnRuns, [Next]_vars, ~Falls,
           NEW c \in Requests, req[c].pc \notin Early, Quiet(c), PhaseAt(c)
    PROVE  PhaseAt(c)'
<1>1. SameAt(c)
  BY QuietRuns, ClosedStays DEF SameAt, Quiet
<1>2. Reached(c)' => Reached(c)
  BY ReachedFrom DEF Founds, Early
<1>3. ASSUME NEW r \in Requests PROVE Waits(r, c)' <=> Waits(r, c)
  BY WaitsFrom, Touches DEF Waits
<1>4. conv'[c].parked = conv[c].parked /\ conv'[c].asked = conv[c].asked
  BY ParkedStays, Touches
<1>5. conv[c].parked \in BOOLEAN
  BY OwnConv DEF ConvRec
<1>6. SameWaits(c)
  BY <1>2, <1>3 DEF SameWaits
<1> QED
  BY <1>1, <1>4, <1>5, <1>6, Frame

LEMMA LostAt ==
    ASSUME TypeInv, Lost, up, NEW c \in Requests
    PROVE  PhaseAt(c)'
<1>1. conv' = [d \in Requests |-> NoConv] /\ ReqLost
  BY LostEffect, Zenon DEF Lost
<1>2. conv'[c].keys = {}
  BY <1>1 DEF NoConv
<1>3. \A r \in Requests : req'[r].pc \in {"none", "done"}
  BY <1>1 DEF ReqLost
<1>4. ~Reached(c)' /\ \A r \in Requests : ~Waits(r, c)'
  BY <1>2, <1>3 DEF Reached, Holds, Held, Waits
<1> QED
  BY <1>4 DEF PhaseAt, RestAt, WaitAt

(* A conversation that is not open is reached by nobody, and has just been  *)
(* opened when it is.                                                       *)
LEMMA FreshAt ==
    ASSUME TypeInv, Agree, Unopened, TurnRuns, Bare, [Next]_vars, NEW c \in Requests, req[c].pc \in Early
    PROVE  PhaseAt(c)'
<1>1. steps'[c] = <<>> /\ results'[c] = <<>> /\ loop'[c] = NoLoop
  <2>0. steps[c] = <<>> /\ results[c] = <<>> /\ loop[c] = NoLoop
    BY DEF Unopened
  <2>1. CASE FlowSame
    BY <2>0, <2>1 DEF FlowSame
  <2>2. CASE Lost
    BY <2>2 DEF Lost
  <2>3. ASSUME NEW r \in Requests, Flows(r) PROVE \E d \in Requests : FlowsAt(d) /\ d # c
    <3>1. CASE AdvancePush(r) \/ AdvanceRun(r) \/ TakeFailure(r) \/ TakeStep(r) \/ RunSends(r)
      BY <3>1, HandlerConv, HandlerAt
    <3>2. CASE \/ ModelAsks(r) \/ Execute(r) \/ ExecSends(r) \/ ExecWakes(r) \/ ExecCancelled(r)
               \/ TurnEnds(r) \/ TurnClosed(r) \/ ProcessExits(r)
      BY <3>2, LoopConv, LoopAt
    <3> QED
      BY <2>3, <3>1, <3>2 DEF Flows
  <2>4. CASE \E d \in Requests : FlowsAt(d) /\ d # c
    BY <2>0, <2>4 DEF FlowsAt
  <2> QED
    BY <2>1, <2>2, <2>3, <2>4, FlowCases
<1>2. \A q \in Requests : req[q].conv # c
  BY FoundedWasFree
<1>3. ~Working(c)'
  BY <1>2, OnFrom DEF Working
<1>4. \A q \in Requests : ~Waits(q, c)'
  BY <1>2, WaitsFrom DEF Waits
<1>5. ~Reached(c)
  BY <1>2 DEF Bare, Reached, Holds
<1>6. Reached(c)' => ~conv'[c].parked
  BY <1>5, ReachedFrom DEF Founds
<1>7. Reached(c)' => Rested(c, conv[c].parked, conv[c].asked)'
  <2>1. loop'[c].at = "free" /\ loop'[c].unclaimed = {}
    BY <1>1 DEF NoLoop
  <2> QED
    BY <1>1, <1>3, <1>6, <2>1 DEF Rested, Idle
<1> QED
  BY <1>1, <1>4, <1>6, <1>7 DEF PhaseAt, RestAt, WaitAt

(* Who waits for a step has the conversation to itself.                     *)
LEMMA WaitsAlone ==
    ASSUME Sole, NEW r \in Requests, NEW c \in Requests, Holds(r, c)
    PROVE  \A q \in Requests : Waits(q, c) => q = r
  BY DEF Sole, Holds, Held, Waits

LEMMA PushAt ==
    ASSUME TypeInv, Agree, TurnRuns, Chosen, Sole, [Next]_vars, NEW r \in Requests, NEW c \in Requests,
           c = req[r].conv, AdvancePush(r), PhaseAt(c)
    PROVE  PhaseAt(c)'
<1>0. /\ req[r] \in ReqRec /\ req \in [Requests -> ReqRec]
      /\ results \in [Requests -> Seq(Answer)] /\ run \in [Requests -> Runs]
  BY OwnRec DEF TypeInv, ChannelTypes, LoopTypes, Runs
<1>1. /\ req[r].pc = "push" /\ results[c] = <<>> /\ req' = [req EXCEPT ![r].pc = "wait"]
      /\ results' = [results EXCEPT ![c] = <<[by |-> r, input |-> req[r].input]>>]
      /\ conv' = conv /\ loop' = loop /\ steps' = steps /\ run' = run /\ serving' = serving
  BY Zenon DEF AdvancePush, At, Goto, convVars
<1>2. Holds(r, c) /\ conv[c].parked /\ conv[c].asked = Resulted(req[r].input)
  BY <1>1 DEF Holds, Held, Chosen
<1>3. \A q \in Requests : ~Waits(q, c)
  BY <1>1, <1>2, WaitsAlone DEF Waits
<1>4. /\ Parked(c, conv[c].asked)
      /\ (steps[c] = <<>> /\ Working(c)) \/ Failing(c)
  BY <1>2, <1>3 DEF PhaseAt, RestAt, Reached, Rested
<1>5. /\ \A q \in Requests : req'[q].conv = req[q].conv /\ (q # r => req'[q] = req[q])
      /\ req'[r].pc = "wait"
  BY <1>0, <1>1 DEF ReqRec
<1>6. \A q \in Requests : On(q, c)' <=> On(q, c)
  BY <1>1, <1>5 DEF On
<1>7. (Working(c)' <=> Working(c)) /\ (InTurn(c) => InTurn(c)') /\ (Failing(c)' <=> Failing(c))
  BY <1>1, <1>6 DEF Working, InTurn, Failing
<1>8. Waits(r, c)'
  BY <1>5 DEF Waits
<1>9. ASSUME NEW q \in Requests, Waits(q, c)' PROVE q = r
  BY <1>3, <1>5, <1>9 DEF Waits
<1>10. ASSUME steps[c] = <<>>, Working(c) PROVE Ongoing(r, c)'
  <2>1. ASSUME loop[c].at = "parked", Due(c, conv[c].asked) PROVE Given(r, c)'
    <3>1. PICK m : m = [by |-> r, input |-> req[r].input]
      OBVIOUS
    <3>2. m.by = r /\ Resulted(m.input) = conv[c].asked
      BY <1>2, <3>1
    <3>3. results'[c] = <<m>>
      BY <1>0, <1>1, <3>1
    <3>4. results'[c] # <<>> /\ Head(results'[c]) = m
      BY <3>3
    <3> QED
      BY <1>1, <2>1, <3>2, <3>4 DEF Given, Due
  <2>2. Cancelled(c) => Cancelled(c)'
    BY <1>1 DEF Cancelled
  <2>3. InTurn(c)'
    BY <1>4, <1>7 DEF Parked
  <2>4. Given(r, c)' \/ (Cancelled(c)' /\ InTurn(c)')
    BY <1>4, <2>1, <2>2, <2>3 DEF Parked
  <2>5. (\A q \in Requests : On(q, c) /\ run[q] = "end_turn" => loop[c].at = "free" /\ loop[c].unclaimed = {})'
    BY <2>3 DEF InTurn
  <2> QED
    BY <1>1, <1>7, <1>10, <2>3, <2>4, <2>5 DEF Ongoing
<1>11. WaitAt(c)'
  BY <1>4, <1>7, <1>9, <1>10 DEF WaitAt
<1> QED
  BY <1>8, <1>11 DEF PhaseAt, RestAt

LEMMA RunAt ==
    ASSUME TypeInv, Agree, TurnsHome, TurnRuns, Chosen, Sole, [Next]_vars, NEW r \in Requests, NEW c \in Requests,
           c = req[r].conv, AdvanceRun(r), PhaseAt(c)
    PROVE  PhaseAt(c)'
<1>0. /\ req[r] \in ReqRec /\ req \in [Requests -> ReqRec] /\ loop \in [Requests -> LoopRec]
      /\ serving \in [Requests -> 0..MaxRequests] /\ run \in [Requests -> Runs]
  BY OwnRec DEF TypeInv, LoopTypes, Runs
<1>1. /\ req[r].pc = "run" /\ req' = [req EXCEPT ![r].pc = "wait"]
      /\ conv' = conv /\ steps' = steps /\ results' = results
      /\ \/ /\ conv[c].closed \/ loop[c].turn # 0
            /\ run' = [run EXCEPT ![r] = IF conv[c].closed THEN "closed" ELSE "inflight"]
            /\ loop' = loop
         \/ /\ run' = [run EXCEPT ![r] = "turn"] /\ loop' = [loop EXCEPT ![c].turn = r]
            /\ serving' = [serving EXCEPT ![c] = r]
  BY Zenon DEF AdvanceRun, At, Goto, convVars
<1>2. Holds(r, c) /\ ~conv[c].parked
  BY <1>1 DEF Holds, Held, Chosen
<1>3. \A q \in Requests : ~Waits(q, c)
  BY <1>1, <1>2, WaitsAlone DEF Waits
<1>4. Idle(c) /\ results[c] = <<>> /\ steps[c] = <<>>
  BY <1>2, <1>3 DEF PhaseAt, RestAt, Reached, Rested
<1>5. loop[c].turn = 0
  <2>1. SUFFICES ASSUME loop[c].turn # 0 PROVE FALSE
    OBVIOUS
  <2>2. loop[c].turn \in Requests
    BY <1>0, <2>1, ProxyAssumption DEF LoopRec, Requests
  <2>3. On(loop[c].turn, c)
    BY <2>1, <2>2 DEF TurnRuns, TurnsHome, On
  <2> QED
    BY <1>4, <2>2, <2>3 DEF Idle, Working
<1>6. req'[r].pc = "wait" /\ req'[r].conv = c /\ \A q \in Requests : q # r => req'[q] = req[q]
  BY <1>0, <1>1 DEF ReqRec
<1>7. Waits(r, c)'
  BY <1>6 DEF Waits
<1>8. ASSUME NEW q \in Requests, Waits(q, c)' PROVE q = r
  BY <1>3, <1>6, <1>8 DEF Waits
<1>9. ASSUME NEW q \in Requests, On(q, c)' PROVE q = r
  <2>1. ~On(q, c)
    BY <1>4 DEF Idle, Working
  <2>2. AdvanceRun(q)
    BY <1>9, <2>1, OnFrom
  <2>3. q # r => req'[q].pc = "wait" /\ req[q].pc = "run"
    <3>1. req[q].pc = "run" /\ req' = [req EXCEPT ![q].pc = "wait"]
      BY <2>2, Zenon DEF AdvanceRun, At, Goto
    <3>2. req[q] \in ReqRec
      BY <1>0
    <3> QED
      BY <1>0, <3>1, <3>2 DEF ReqRec
  <2> QED
    BY <1>6, <2>3
<1>10. Ongoing(r, c)'
  <2>1. /\ loop'[c].at = "free" /\ loop'[c].unclaimed = {}
        /\ (conv'[c].closed /\ run'[r] = "closed") \/ (run'[r] = "turn" /\ serving'[c] = r)
    <3>1. CASE conv[c].closed /\ loop' = loop /\ run' = [run EXCEPT ![r] = "closed"]
      BY <1>0, <1>1, <1>4, <3>1 DEF Idle
    <3>2. CASE /\ run' = [run EXCEPT ![r] = "turn"] /\ loop' = [loop EXCEPT ![c].turn = r]
               /\ serving' = [serving EXCEPT ![c] = r]
      <4>1. run'[r] = "turn" /\ serving'[c] = r
        BY <1>0, <3>2
      <4>2. loop[c] \in LoopRec /\ loop'[c] = [loop[c] EXCEPT !.turn = r]
        BY <1>0, <3>2
      <4>3. loop'[c].at = loop[c].at /\ loop'[c].unclaimed = loop[c].unclaimed
        BY <4>2 DEF LoopRec
      <4> QED
        BY <1>4, <4>1, <4>3 DEF Idle
    <3> QED
      BY <1>1, <1>5, <3>1, <3>2
  <2>2. Working(c)'
    BY <1>6, <2>1 DEF Working, On
  <2>3. InTurn(c)'
    BY <1>9, <2>1 DEF InTurn
  <2>4. Running(r, c)' \/ Cancelled(c)'
    BY <1>1, <1>4, <2>1 DEF Running, Cancelled
  <2>5. (\A q \in Requests : On(q, c) /\ run[q] = "end_turn" => loop[c].at = "free" /\ loop[c].unclaimed = {})'
    BY <2>1
  <2>6. steps'[c] = <<>>
    BY <1>1, <1>4
  <2> QED
    BY <2>2, <2>3, <2>4, <2>5, <2>6 DEF Ongoing
<1>11. WaitAt(c)'
  BY <1>8, <1>10 DEF WaitAt
<1> QED
  BY <1>7, <1>11 DEF PhaseAt, RestAt

LEMMA FailureAt ==
    ASSUME TypeInv, Agree, Sole, NEW r \in Requests, NEW c \in Requests,
           c = req[r].conv, TakeFailure(r)
    PROVE  PhaseAt(c)'
<1>0. req[r] \in ReqRec /\ req \in [Requests -> ReqRec]
  BY OwnRec
<1>1. /\ req[r].pc = "wait" /\ CloseConv(c)
      /\ \E st : req' = [req EXCEPT ![r].pc = "done", ![r].step = st]
  BY Zenon DEF TakeFailure, At, Respond
<1>2. conv'[c].keys = {}
  BY <1>1, ClosingEffect
<1>3. Holds(r, c)
  BY <1>1 DEF Holds, Held
<1>4. req'[r].pc = "done" /\ \A q \in Requests : q # r => req'[q] = req[q]
  BY <1>0, <1>1 DEF ReqRec
<1>5. \A q \in Requests : ~Holds(q, c)'
  BY <1>3, <1>4 DEF Holds, Held, Sole
<1>6. ~Reached(c)' /\ \A q \in Requests : ~Waits(q, c)'
  BY <1>2, <1>5 DEF Reached, Holds, Held, Waits
<1> QED
  BY <1>6 DEF PhaseAt, RestAt, WaitAt

LEMMA TakeAt ==
    ASSUME TypeInv, Agree, TurnRuns, Sole, [Next]_vars, NEW r \in Requests, NEW c \in Requests,
           c = req[r].conv, TakeStep(r), PhaseAt(c)
    PROVE  PhaseAt(c)'
<1>0. /\ req[r] \in ReqRec /\ req \in [Requests -> ReqRec] /\ conv[c] \in ConvRec /\ conv \in [Requests -> ConvRec]
      /\ steps \in [Requests -> Seq(Step)] /\ Len(steps[c]) <= 1
  BY OwnRec, OwnConv DEF TypeInv, ChannelTypes
<1>1. PICK st : st = Head(steps[c])
  OBVIOUS
<1>2. /\ req[r].pc = "wait" /\ steps[c] # <<>> /\ st.err = "none"
      /\ steps' = [steps EXCEPT ![c] = Tail(@)]
      /\ conv' = [conv EXCEPT ![c].parked = st.stop = "tool_use", ![c].asked = st.ids]
      /\ req' = [req EXCEPT ![r].pc = "rekey", ![r].step = st]
      /\ loop' = loop /\ results' = results /\ run' = run /\ serving' = serving
  BY <1>1, Zenon DEF TakeStep, At
<1>3. Holds(r, c) /\ Waits(r, c)
  BY <1>2 DEF Holds, Held, Waits
<1>4. Stepped(r, c)
  <2>1. ~Failing(c)
    BY <1>1, <1>2 DEF Failing
  <2>2. ~Ongoing(r, c)
    BY <1>2 DEF Ongoing
  <2> QED
    BY <1>3, <2>1, <2>2 DEF PhaseAt, WaitAt
<1>5. PICK p \in BOOLEAN : p = (st.stop = "tool_use")
  OBVIOUS
<1>6. Rested(c, p, st.ids) /\ (p => Working(c))
  BY <1>1, <1>4, <1>5 DEF Stepped
<1>7. /\ req'[r].pc = "rekey" /\ \A q \in Requests : q # r => req'[q] = req[q]
      /\ \A q \in Requests : req'[q].conv = req[q].conv
  BY <1>0, <1>2 DEF ReqRec
<1>8. conv'[c].parked = p /\ conv'[c].asked = st.ids /\ conv'[c].closed = conv[c].closed
  BY <1>0, <1>2, <1>5 DEF ConvRec
<1>9. steps'[c] = <<>>
  BY <1>0, <1>2, TakenIsAll
<1>10. SameRuns(c) /\ SameLoop(c)
  BY <1>2, <1>7 DEF SameRuns, SameLoop, On
<1>11. Rested(c, p, st.ids)' /\ (p => Working(c)')
  BY <1>2, <1>6, <1>8, <1>10, RestedStays DEF SameRuns, Working
<1>12. \A q \in Requests : ~Waits(q, c)'
  BY <1>3, <1>7, WaitsAlone DEF Waits
<1>13. RestAt(c)'
  <2>1. Rested(c, conv[c].parked, conv[c].asked)'
    BY <1>8, <1>11 DEF Rested
  <2> QED
    BY <1>8, <1>9, <1>11, <2>1 DEF RestAt
<1> QED
  BY <1>12, <1>13 DEF PhaseAt, WaitAt

(* A turn goes on in a process that is not closed only if somebody waits.   *)
LEMMA OpenTurn ==
    ASSUME TypeInv, TurnsHome, OneRun, TurnRuns, NEW c \in Requests, NEW t, t = loop[c].turn,
           t # 0, loop[c].at = "free", ~conv[c].closed, PhaseAt(c)
    PROVE  /\ t \in Requests /\ On(t, c) /\ run[t] = "turn" /\ InTurn(c) /\ Working(c)
           /\ \A q \in Requests : On(q, c) => q = t
           /\ Reached(c) => \E r \in Requests : Waits(r, c)
           /\ \A r \in Requests : Waits(r, c) => Failing(c) \/ (steps[c] = <<>> /\ Running(r, c))
<1>1. t \in Requests
  BY ProxyAssumption DEF TypeInv, LoopTypes, LoopRec, Requests
<1>2. On(t, c) /\ run[t] = "turn"
  BY <1>1 DEF TurnRuns, TurnsHome, On
<1>3. \A q \in Requests : On(q, c) => q = t
  BY <1>1, <1>2 DEF OneRun
<1>4. Working(c) /\ InTurn(c)
  BY <1>1, <1>2, <1>3 DEF Working, InTurn
<1>5. ASSUME NEW p \in BOOLEAN, NEW ids PROVE ~Rested(c, p, ids)
  BY <1>4 DEF Rested, Parked, Cancelled, Idle
<1>6. conv[c].parked \in BOOLEAN
  BY OwnConv DEF ConvRec
<1>7. Reached(c) => \E r \in Requests : Waits(r, c)
  BY <1>5, <1>6 DEF PhaseAt, RestAt
<1>8. ASSUME NEW r \in Requests, Waits(r, c) PROVE Failing(c) \/ (steps[c] = <<>> /\ Running(r, c))
  <2>1. ~Stepped(r, c)
    <3>1. PICK st : st = Head(steps[c])
      OBVIOUS
    <3>2. PICK p \in BOOLEAN : p = (st.stop = "tool_use")
      OBVIOUS
    <3>3. ~Rested(c, p, st.ids)
      BY <1>5
    <3> QED
      BY <3>1, <3>2, <3>3 DEF Stepped
  <2>2. Ongoing(r, c) => steps[c] = <<>> /\ Running(r, c)
    BY DEF Ongoing, Given, Sending, Exited, Cancelled
  <2> QED
    BY <1>8, <2>1, <2>2 DEF PhaseAt, WaitAt
<1> QED
  BY <1>1, <1>2, <1>3, <1>4, <1>7, <1>8

(* The read loop changes neither who holds a conversation nor who waits.    *)
LEMMA LoopHolds ==
    ASSUME req' = req, conv' = conv, NEW c \in Requests
    PROVE  /\ Reached(c)' <=> Reached(c)
           /\ \A r \in Requests : Waits(r, c)' <=> Waits(r, c)
           /\ \A r \in Requests : On(r, c)' <=> run'[r] # "none" /\ req[r].conv = c
  BY DEF Reached, Holds, Waits, On

LEMMA AsksAt ==
    ASSUME TypeInv, TurnsHome, OneRun, TurnRuns, NEW c \in Requests,
           ModelAsks(c) \/ Execute(c) \/ TurnEnds(c) \/ ProcessExits(c), PhaseAt(c)
    PROVE  PhaseAt(c)'
<1>0. /\ loop \in [Requests -> LoopRec] /\ loop[c] \in LoopRec /\ run \in [Requests -> Runs]
  BY DEF TypeInv, LoopTypes, Runs
<1>1. PICK t : t = loop[c].turn
  OBVIOUS
<1>2. /\ t # 0 /\ loop[c].at = "free" /\ ~conv[c].closed
      /\ req' = req /\ conv' = conv /\ steps' = steps /\ results' = results /\ serving' = serving
  BY <1>1, Zenon DEF ModelAsks, Execute, TurnEnds, ProcessExits, convVars
<1>3. /\ t \in Requests /\ On(t, c) /\ run[t] = "turn" /\ InTurn(c) /\ Working(c)
      /\ \A q \in Requests : On(q, c) => q = t
      /\ Reached(c) => \E r \in Requests : Waits(r, c)
      /\ \A r \in Requests : Waits(r, c) => Failing(c) \/ (steps[c] = <<>> /\ Running(r, c))
  BY <1>1, <1>2, OpenTurn
<1>4. /\ Reached(c)' <=> Reached(c)
      /\ \A r \in Requests : Waits(r, c)' <=> Waits(r, c)
      /\ \A r \in Requests : On(r, c)' <=> run'[r] # "none" /\ req[r].conv = c
  BY <1>2, LoopHolds
<1>5. Failing(c)' <=> Failing(c)
  BY <1>2 DEF Failing
<1>6. RestAt(c)'
  BY <1>3, <1>4 DEF RestAt
<1>7. ASSUME \A q \in Requests : run'[q] = run[q] PROVE InTurn(c)' /\ Working(c)'
  BY <1>3, <1>4, <1>7 DEF InTurn, Working, On
<1>8. ASSUME NEW r \in Requests, steps[c] = <<>>, Running(r, c), ModelAsks(c) PROVE Ongoing(r, c)'
  <2>1. PICK new : loop' = [loop EXCEPT ![c].pending = @ \cup new, ![c].unclaimed = @ \cup new]
    BY <1>8 DEF ModelAsks
  <2>2. run' = run
    BY <1>8, Zenon DEF ModelAsks
  <2>3. /\ loop'[c].at = "free" /\ loop'[c].pending = loop[c].pending \cup new
        /\ loop'[c].unclaimed = loop[c].unclaimed \cup new /\ loop'[c].answered = loop[c].answered
    BY <1>0, <1>2, <2>1 DEF LoopRec
  <2>4. Running(r, c)'
    BY <1>2, <1>8, <2>3 DEF Running
  <2>5. InTurn(c)' /\ Working(c)'
    BY <1>7, <2>2
  <2>6. (\A q \in Requests : On(q, c) /\ run[q] = "end_turn" => loop[c].at = "free" /\ loop[c].unclaimed = {})'
    BY <2>5 DEF InTurn
  <2> QED
    BY <1>2, <1>8, <2>4, <2>5, <2>6 DEF Ongoing
<1>9. ASSUME NEW r \in Requests, steps[c] = <<>>, Running(r, c), Execute(c) PROVE Ongoing(r, c)'
  <2>1. PICK id \in loop[c].unclaimed :
           loop' = [loop EXCEPT ![c] = IF id \in loop[c].answered
                                    THEN [[loop[c] EXCEPT !.unclaimed = @ \ {id}] EXCEPT !.answered = @ \ {id}]
                                    ELSE [[loop[c] EXCEPT !.unclaimed = @ \ {id}] EXCEPT !.at = "sends", !.id = id]]
    BY <1>9, Zenon DEF Execute
  <2>2. run' = run
    BY <1>9, Zenon DEF Execute
  <2>3. InTurn(c)' /\ Working(c)'
    BY <1>7, <2>2
  <2>4. loop'[c].unclaimed = loop[c].unclaimed \ {id} /\ loop'[c].pending = loop[c].pending
    BY <1>0, <2>1 DEF LoopRec
  <2>5. ASSUME id \in loop[c].answered PROVE Running(r, c)'
    <3>1. loop'[c].at = "free" /\ loop'[c].answered = loop[c].answered \ {id}
      BY <1>0, <1>2, <2>1, <2>5 DEF LoopRec
    <3> QED
      BY <1>2, <1>9, <2>4, <3>1 DEF Running
  <2>6. ASSUME id \notin loop[c].answered PROVE Sending(r, c)'
    <3>1. loop'[c].at = "sends" /\ loop'[c].id = id /\ loop'[c].answered = loop[c].answered
      BY <1>0, <2>1, <2>6 DEF LoopRec
    <3> QED
      BY <1>2, <1>9, <2>1, <2>4, <3>1 DEF Running, Sending, Due
  <2>7. (\A q \in Requests : On(q, c) /\ run[q] = "end_turn" => loop[c].at = "free" /\ loop[c].unclaimed = {})'
    BY <2>3 DEF InTurn
  <2>8. Running(r, c)' \/ Sending(r, c)'
    BY <2>5, <2>6
  <2> QED
    BY <1>2, <1>9, <2>3, <2>7, <2>8 DEF Ongoing
<1>10. ASSUME NEW r \in Requests, steps[c] = <<>>, Running(r, c), TurnEnds(c) PROVE Ongoing(r, c)'
  <2>1. /\ loop' = [loop EXCEPT ![c].turn = 0]
        /\ \/ loop[c].unclaimed = {} /\ run' = [run EXCEPT ![t] = "end_turn"]
           \/ run' = [run EXCEPT ![t] = "failed"]
    BY <1>1, <1>10, Zenon DEF TurnEnds
  <2>2. /\ loop'[c].at = "free" /\ loop'[c].unclaimed = loop[c].unclaimed
        /\ loop'[c].pending = loop[c].pending /\ loop'[c].answered = loop[c].answered
    BY <1>0, <1>2, <2>1 DEF LoopRec
  <2>3. run'[t] # "none" /\ (run'[t] = "end_turn" => loop'[c].unclaimed = {})
    BY <1>0, <1>3, <2>1, <2>2
  <2>4. Working(c)'
    BY <1>3, <1>4, <2>3 DEF Working, On
  <2>5. Running(r, c)'
    BY <1>2, <1>10, <2>2 DEF Running
  <2>6. ASSUME NEW q \in Requests, On(q, c)', run'[q] = "end_turn" PROVE loop'[c].unclaimed = {}
    <3>1. q = t
      BY <1>0, <1>3, <1>4, <2>1, <2>6 DEF On
    <3> QED
      BY <2>3, <2>6, <3>1
  <2>7. (\A q \in Requests : On(q, c) /\ run[q] = "end_turn" => loop[c].at = "free" /\ loop[c].unclaimed = {})'
    BY <2>2, <2>6
  <2> QED
    BY <1>2, <1>10, <2>2, <2>4, <2>5, <2>7 DEF Ongoing
<1>11. ASSUME NEW r \in Requests, steps[c] = <<>>, Running(r, c), ProcessExits(c) PROVE Ongoing(r, c)'
  <2>1. loop' = [loop EXCEPT ![c].at = "exited"] /\ run' = run
    BY <1>11, Zenon DEF ProcessExits
  <2>2. Exited(c)'
    BY <1>0, <2>1 DEF Exited, LoopRec
  <2>3. InTurn(c)' /\ Working(c)'
    BY <1>7, <2>1
  <2>4. (\A q \in Requests : On(q, c) /\ run[q] = "end_turn" => loop[c].at = "free" /\ loop[c].unclaimed = {})'
    BY <2>3 DEF InTurn
  <2> QED
    BY <1>2, <1>11, <2>2, <2>3, <2>4 DEF Ongoing
<1>12. WaitAt(c)'
  BY <1>3, <1>4, <1>5, <1>8, <1>9, <1>10, <1>11 DEF WaitAt
<1> QED
  BY <1>6, <1>12 DEF PhaseAt

LEMMA SendsAt ==
    ASSUME TypeInv, NEW c \in Requests, ExecSends(c), PhaseAt(c)
    PROVE  PhaseAt(c)'
<1>0. /\ loop \in [Requests -> LoopRec] /\ loop[c] \in LoopRec /\ steps \in [Requests -> Seq(Step)]
  BY DEF TypeInv, LoopTypes, ChannelTypes
<1>1. PICK st : st = [by |-> serving[c], ids |-> loop[c].pending, stop |-> "tool_use", err |-> "none"]
  OBVIOUS
<1>2. /\ loop[c].at = "sends" /\ steps[c] = <<>> /\ steps' = [steps EXCEPT ![c] = <<st>>]
      /\ loop' = [loop EXCEPT ![c].at = "parked", ![c].pending = {}]
      /\ req' = req /\ conv' = conv /\ results' = results /\ serving' = serving /\ run' = run
  BY <1>1, Zenon DEF ExecSends, convVars
<1>3. /\ Reached(c)' <=> Reached(c)
      /\ \A r \in Requests : Waits(r, c)' <=> Waits(r, c)
      /\ \A r \in Requests : On(r, c)' <=> run'[r] # "none" /\ req[r].conv = c
  BY <1>2, LoopHolds
<1>4. (InTurn(c)' <=> InTurn(c)) /\ (Working(c)' <=> Working(c))
  BY <1>2, <1>3 DEF InTurn, Working, On
<1>5. /\ loop'[c].at = "parked" /\ loop'[c].id = loop[c].id /\ loop'[c].unclaimed = loop[c].unclaimed
      /\ loop'[c].answered = loop[c].answered
  BY <1>0, <1>2 DEF LoopRec
<1>6. steps'[c] # <<>> /\ Head(steps'[c]) = st
  BY <1>0, <1>2
<1>7. ASSUME NEW r \in Requests, Ongoing(r, c) PROVE Stepped(r, c)'
  <2>1. Sending(r, c) /\ InTurn(c) /\ Working(c)
    BY <1>2, <1>7 DEF Ongoing, Given, Running, Exited, Cancelled
  <2>2. st.err = "none" /\ st.by = r /\ serving'[c] = r /\ st.stop = "tool_use" /\ st.ids = loop[c].pending
    BY <1>1, <1>2, <2>1 DEF Sending
  <2>3. Due(c, st.ids)'
    BY <1>5, <2>1, <2>2 DEF Sending, Due
  <2>4. results'[c] = <<>>
    BY <1>2, <2>1 DEF Sending
  <2>5. Rested(c, TRUE, st.ids)'
    BY <1>4, <1>5, <2>1, <2>3, <2>4 DEF Rested, Parked
  <2> QED
    BY <1>4, <1>6, <2>1, <2>2, <2>5 DEF Stepped
<1>8. ASSUME NEW p \in BOOLEAN, NEW ids PROVE ~Rested(c, p, ids)
  BY <1>2 DEF Rested, Parked, Cancelled, Idle
<1>9. RestAt(c)'
  <2>1. conv[c].parked \in BOOLEAN
    BY OwnConv DEF ConvRec
  <2> QED
    BY <1>3, <1>8, <2>1 DEF PhaseAt, RestAt
<1>10. WaitAt(c)'
  BY <1>2, <1>3, <1>7 DEF PhaseAt, WaitAt, Failing, Stepped
<1> QED
  BY <1>9, <1>10 DEF PhaseAt

LEMMA WakesAt ==
    ASSUME TypeInv, NEW c \in Requests, ExecWakes(c), PhaseAt(c)
    PROVE  PhaseAt(c)'
<1>0. /\ loop \in [Requests -> LoopRec] /\ loop[c] \in LoopRec /\ serving \in [Requests -> 0..MaxRequests]
      /\ results \in [Requests -> Seq(Answer)] /\ Len(results[c]) <= 1
  BY DEF TypeInv, LoopTypes, ChannelTypes
<1>1. PICK m, got : m = Head(results[c]) /\ got = loop[c].answered \cup Resulted(Head(results[c]).input)
  OBVIOUS
<1>2. /\ loop[c].at = "parked" /\ results[c] # <<>> /\ results' = [results EXCEPT ![c] = Tail(@)]
      /\ loop' = [loop EXCEPT ![c].answered = got \ {loop[c].id},
                              ![c].at = IF loop[c].id \in got THEN "free" ELSE "panicked"]
      /\ serving' = [serving EXCEPT ![c] = m.by]
      /\ req' = req /\ conv' = conv /\ steps' = steps /\ run' = run
  BY <1>1, Zenon DEF ExecWakes, convVars
<1>3. /\ Reached(c)' <=> Reached(c)
      /\ \A r \in Requests : Waits(r, c)' <=> Waits(r, c)
      /\ \A r \in Requests : On(r, c)' <=> run'[r] # "none" /\ req[r].conv = c
  BY <1>2, LoopHolds
<1>4. (InTurn(c)' <=> InTurn(c)) /\ (Working(c)' <=> Working(c)) /\ (Failing(c)' <=> Failing(c))
  BY <1>2, <1>3 DEF InTurn, Working, On, Failing
<1>5. ASSUME NEW r \in Requests, Ongoing(r, c) PROVE Ongoing(r, c)'
  <2>1. Given(r, c) /\ InTurn(c) /\ Working(c) /\ steps[c] = <<>>
    BY <1>2, <1>5 DEF Ongoing, Sending, Running, Exited, Cancelled
  <2>2. /\ m.by = r /\ loop[c].id \in got /\ loop[c].id \notin loop[c].unclaimed /\ loop[c].unclaimed \subseteq got
    BY <1>1, <2>1 DEF Given, Due
  <2>3. /\ loop'[c].at = "free" /\ loop'[c].answered = got \ {loop[c].id}
        /\ loop'[c].unclaimed = loop[c].unclaimed
    BY <1>0, <1>2, <2>2 DEF LoopRec
  <2>4. results'[c] = <<>>
    BY <1>0, <1>2, TakenIsAll
  <2>5. serving'[c] = r
    BY <1>0, <1>2, <2>2
  <2>6. Running(r, c)'
    BY <2>2, <2>3, <2>4, <2>5 DEF Running
  <2>7. (\A q \in Requests : On(q, c) /\ run[q] = "end_turn" => loop[c].at = "free" /\ loop[c].unclaimed = {})'
    BY <1>4, <2>1 DEF InTurn
  <2> QED
    BY <1>2, <1>4, <2>1, <2>3, <2>6, <2>7 DEF Ongoing
<1>6. ASSUME NEW p, NEW ids PROVE ~Rested(c, p, ids)
  BY <1>2 DEF Rested
<1>7. RestAt(c)'
  BY <1>3, <1>6 DEF PhaseAt, RestAt
<1>8. \A r \in Requests : ~Stepped(r, c)
  <2> SUFFICES ASSUME NEW r \in Requests PROVE ~Stepped(r, c)
    OBVIOUS
  <2>1. PICK st, p : st = Head(steps[c]) /\ p = (st.stop = "tool_use")
    OBVIOUS
  <2> QED
    BY <1>6, <2>1 DEF Stepped
<1>9. WaitAt(c)'
  BY <1>3, <1>4, <1>5, <1>8 DEF PhaseAt, WaitAt
<1> QED
  BY <1>7, <1>9 DEF PhaseAt

LEMMA CancelledAt ==
    ASSUME TypeInv, NEW c \in Requests, ExecCancelled(c), PhaseAt(c)
    PROVE  PhaseAt(c)'
<1>0. loop \in [Requests -> LoopRec] /\ loop[c] \in LoopRec
  BY DEF TypeInv, LoopTypes
<1>1. /\ loop[c].at = "parked" /\ conv[c].closed /\ loop' = [loop EXCEPT ![c].at = "free"]
      /\ req' = req /\ conv' = conv /\ results' = results /\ steps' = steps /\ run' = run /\ serving' = serving
  BY Zenon DEF ExecCancelled, convVars
<1>2. /\ Reached(c)' <=> Reached(c)
      /\ \A r \in Requests : Waits(r, c)' <=> Waits(r, c)
      /\ \A r \in Requests : On(r, c)' <=> run'[r] # "none" /\ req[r].conv = c
  BY <1>1, LoopHolds
<1>3. (InTurn(c)' <=> InTurn(c)) /\ (Working(c)' <=> Working(c)) /\ (Failing(c)' <=> Failing(c))
  BY <1>1, <1>2 DEF InTurn, Working, On, Failing
<1>4. Cancelled(c)' /\ loop'[c].at = "free"
  BY <1>0, <1>1 DEF Cancelled, LoopRec
<1>5. ASSUME NEW p \in BOOLEAN, NEW ids, Rested(c, p, ids) PROVE Rested(c, p, ids)'
  <2>1. p /\ Parked(c, ids) /\ results'[c] = <<>>
    BY <1>1, <1>5 DEF Rested, Idle
  <2>2. Parked(c, ids)'
    BY <1>3, <1>4, <2>1 DEF Parked
  <2> QED
    BY <2>1, <2>2 DEF Rested
<1>6. ASSUME NEW r \in Requests, Ongoing(r, c) PROVE Ongoing(r, c)'
  <2>1. InTurn(c)'
    BY <1>1, <1>3, <1>6 DEF Ongoing
  <2>2. (\A q \in Requests : On(q, c) /\ run[q] = "end_turn" => loop[c].at = "free" /\ loop[c].unclaimed = {})'
    BY <2>1 DEF InTurn
  <2> QED
    BY <1>1, <1>3, <1>4, <1>6, <2>1, <2>2 DEF Ongoing
<1>7. ASSUME NEW r \in Requests, Stepped(r, c) PROVE Stepped(r, c)'
  <2>1. PICK st : st = Head(steps[c])
    OBVIOUS
  <2>2. PICK p \in BOOLEAN : p = (st.stop = "tool_use")
    OBVIOUS
  <2>3. Rested(c, p, st.ids)
    BY <1>7, <2>1, <2>2 DEF Stepped
  <2>4. Rested(c, p, st.ids)'
    BY <1>5, <2>3
  <2>5. Head(steps'[c]) = st /\ steps'[c] = steps[c]
    BY <1>1, <2>1
  <2> QED
    BY <1>1, <1>3, <1>7, <2>1, <2>2, <2>4, <2>5 DEF Stepped
<1>8. RestAt(c)'
  <2>0. PICK p \in BOOLEAN : p = conv[c].parked
    BY OwnConv DEF ConvRec
  <2>1. PICK ids : p = conv[c].parked /\ ids = conv[c].asked
    BY <2>0
  <2>2. Rested(c, p, ids) => Rested(c, p, ids)'
    BY <1>5
  <2>3. Rested(c, p, ids)' => Rested(c, conv[c].parked, conv[c].asked)'
    BY <1>1, <2>1 DEF Rested
  <2> QED
    BY <1>1, <1>2, <1>3, <2>1, <2>2, <2>3 DEF PhaseAt, RestAt
<1>9. WaitAt(c)'
  BY <1>2, <1>3, <1>6, <1>7 DEF PhaseAt, WaitAt
<1> QED
  BY <1>8, <1>9 DEF PhaseAt

LEMMA ClosedAt ==
    ASSUME TypeInv, TurnsHome, TurnRuns, NEW c \in Requests, TurnClosed(c), PhaseAt(c)
    PROVE  PhaseAt(c)'
<1>0. /\ loop \in [Requests -> LoopRec] /\ loop[c] \in LoopRec /\ run \in [Requests -> Runs]
  BY DEF TypeInv, LoopTypes, Runs
<1>1. PICK t : t = loop[c].turn
  OBVIOUS
<1>2. /\ t # 0 /\ loop' = [loop EXCEPT ![c].turn = 0] /\ run' = [run EXCEPT ![t] = "closed"]
      /\ req' = req /\ conv' = conv /\ results' = results /\ steps' = steps /\ serving' = serving
  BY <1>1, Zenon DEF TurnClosed, convVars
<1>3. t \in Requests /\ run[t] = "turn"
  BY <1>0, <1>1, <1>2, ProxyAssumption DEF LoopRec, Requests, TurnRuns
<1>4. /\ Reached(c)' <=> Reached(c)
      /\ \A r \in Requests : Waits(r, c)' <=> Waits(r, c)
      /\ \A r \in Requests : On(r, c)' <=> run'[r] # "none" /\ req[r].conv = c
  BY <1>2, LoopHolds
<1>5. SameLoop(c)
  BY <1>0, <1>2 DEF SameLoop, LoopRec
<1>6. SameRuns(c)
  BY <1>0, <1>2, <1>3, <1>4 DEF SameRuns, On
<1>7. SameAt(c) /\ SameWaits(c)
  BY <1>2, <1>4, <1>5, <1>6 DEF SameAt, SameWaits
<1>8. conv[c].parked \in BOOLEAN
  BY OwnConv DEF ConvRec
<1> QED
  BY <1>2, <1>7, <1>8, Frame

LEMMA RunSendsAt ==
    ASSUME TypeInv, Agree, OneRun, NEW r \in Requests, NEW c \in Requests,
           c = req[r].conv, RunSends(r), PhaseAt(c)
    PROVE  PhaseAt(c)'
<1>0. /\ loop \in [Requests -> LoopRec] /\ loop[c] \in LoopRec /\ run \in [Requests -> Runs]
      /\ steps \in [Requests -> Seq(Step)]
  BY DEF TypeInv, LoopTypes, ChannelTypes, Runs
<1>1. PICK st : st = (IF run[r] = "end_turn"
                      THEN [by |-> serving[c], ids |-> loop[c].pending, stop |-> "end_turn", err |-> "none"]
                      ELSE Failed(r, run[r]))
  OBVIOUS
<1>2. /\ run[r] \in {"end_turn", "failed", "closed", "inflight"} /\ steps[c] = <<>>
      /\ steps' = [steps EXCEPT ![c] = <<st>>]
      /\ run' = [run EXCEPT ![r] = "none"] /\ loop' = [loop EXCEPT ![c].pending = {}]
      /\ req' = req /\ conv' = conv /\ results' = results /\ serving' = serving
  BY <1>1, Zenon DEF RunSends, convVars
<1>3. /\ Reached(c)' <=> Reached(c)
      /\ \A q \in Requests : Waits(q, c)' <=> Waits(q, c)
      /\ \A q \in Requests : On(q, c)' <=> run'[q] # "none" /\ req[q].conv = c
  BY <1>2, LoopHolds
<1>4. On(r, c) /\ Working(c) /\ \A q \in Requests : On(q, c) => q = r
  BY <1>2 DEF On, Working, OneRun
<1>5. ~Working(c)' /\ InTurn(c)'
  <2>1. ASSUME NEW q \in Requests PROVE ~On(q, c)'
    <3>1. CASE q = r
      BY <1>0, <1>2, <1>3, <3>1
    <3>2. CASE q # r
      BY <1>0, <1>2, <1>3, <1>4, <3>2 DEF On
    <3> QED
      BY <3>1, <3>2
  <2> QED
    BY <2>1 DEF Working, InTurn
<1>6. /\ loop'[c].at = loop[c].at /\ loop'[c].id = loop[c].id /\ loop'[c].unclaimed = loop[c].unclaimed
      /\ loop'[c].answered = loop[c].answered
  BY <1>0, <1>2 DEF LoopRec
<1>7. steps'[c] # <<>> /\ Head(steps'[c]) = st
  BY <1>0, <1>2
<1>8. run[r] # "end_turn" => Failing(c)'
  <2>1. run[r] # "end_turn" => st.err # "none"
    BY <1>1, <1>2 DEF Failed
  <2> QED
    BY <1>7, <2>1 DEF Failing
<1>9. RestAt(c)'
  <2>1. SUFFICES ASSUME Reached(c), \A q \in Requests : ~Waits(q, c)
                 PROVE  Rested(c, conv[c].parked, conv[c].asked)' /\ conv'[c].parked /\ Failing(c)'
    BY <1>3 DEF RestAt
  <2>0. PICK p \in BOOLEAN : p = conv[c].parked
    BY OwnConv DEF ConvRec
  <2>2. PICK ids : p = conv[c].parked /\ ids = conv[c].asked
    BY <2>0
  <2>3. Rested(c, p, ids)
    BY <2>1, <2>2 DEF PhaseAt, RestAt
  <2>4. p /\ Parked(c, ids) /\ results'[c] = <<>>
    BY <1>2, <1>4, <2>3 DEF Rested, Idle
  <2>5. run[r] # "end_turn"
    BY <1>4, <2>4 DEF Parked, InTurn
  <2>6. Parked(c, ids)'
    BY <1>2, <1>5, <1>6, <2>4 DEF Parked, Due, Cancelled
  <2>7. Rested(c, p, ids)'
    BY <2>4, <2>6 DEF Rested
  <2> QED
    BY <1>2, <1>8, <2>2, <2>4, <2>5, <2>7 DEF Rested
<1>10. ASSUME NEW w \in Requests, Waits(w, c) PROVE Failing(c)' \/ Stepped(w, c)'
  <2>1. SUFFICES ASSUME run[r] = "end_turn" PROVE Stepped(w, c)'
    BY <1>8
  <2>2. Ongoing(w, c)
    BY <1>2, <1>10 DEF PhaseAt, WaitAt, Failing, Stepped
  <2>3. loop[c].at = "free" /\ loop[c].unclaimed = {} /\ ~InTurn(c)
    BY <1>4, <2>1, <2>2 DEF Ongoing, InTurn
  <2>4. Running(w, c)
    BY <2>2, <2>3 DEF Ongoing, Given, Sending, Exited
  <2>5. st.err = "none" /\ st.by = w /\ serving'[c] = w /\ st.stop = "end_turn" /\ results'[c] = <<>>
    BY <1>1, <1>2, <2>1, <2>4 DEF Running
  <2>6. Idle(c)'
    BY <1>5, <1>6, <2>3 DEF Idle
  <2>7. Rested(c, FALSE, st.ids)'
    BY <2>5, <2>6 DEF Rested
  <2>8. (st.stop = "tool_use") = FALSE
    BY <2>5
  <2> QED
    BY <1>7, <2>5, <2>7, <2>8 DEF Stepped
<1>11. WaitAt(c)'
  BY <1>3, <1>10 DEF WaitAt
<1> QED
  BY <1>9, <1>11 DEF PhaseAt

(* What flows at one conversation leaves the others alone.                  *)
LEMMA FlowLeaves ==
    ASSUME TypeInv, Agree, TurnsHome, TurnRuns, [Next]_vars, ~Falls, \A c \in Requests : PhaseAt(c),
           NEW k \in Requests, FlowsAt(k), RunsAt(k), NEW c \in Requests, c # k, req[c].pc \notin Early
    PROVE  PhaseAt(c)'
<1>1. Quiet(c)
  BY DEF Quiet, FlowsAt, RunsAt, SameLoop
<1> QED
  BY <1>1, QuietAt

LEMMA FlowAt ==
    ASSUME TypeInv, Agree, TurnsHome, Sole, PhaseInv, [Next]_vars, ~Falls, NEW r \in Requests, Flows(r),
           NEW c \in Requests, req[c].pc \notin Early
    PROVE  PhaseAt(c)'
<1>0. OneRun /\ TurnRuns /\ Chosen /\ \A d \in Requests : PhaseAt(d)
  BY DEF PhaseInv
<1>1. ASSUME AdvancePush(r) \/ AdvanceRun(r) \/ TakeFailure(r) \/ TakeStep(r) \/ RunSends(r)
      PROVE  PhaseAt(c)'
  <2>1. req[r].conv \in Requests /\ FlowsAt(req[r].conv) /\ RunsAt(req[r].conv)
    BY <1>1, HandlerFlows
  <2>2. CASE c # req[r].conv
    BY <1>0, <2>1, <2>2, FlowLeaves
  <2>3. CASE c = req[r].conv
    BY <1>0, <1>1, <2>3, PushAt, RunAt, FailureAt, TakeAt, RunSendsAt
  <2> QED
    BY <2>2, <2>3
<1>2. ASSUME \/ ModelAsks(r) \/ Execute(r) \/ ExecSends(r) \/ ExecWakes(r) \/ ExecCancelled(r)
             \/ TurnEnds(r) \/ TurnClosed(r) \/ ProcessExits(r)
      PROVE  PhaseAt(c)'
  <2>1. FlowsAt(r) /\ RunsAt(r)
    BY <1>2, LoopFlows
  <2>2. CASE c # r
    BY <1>0, <2>1, <2>2, FlowLeaves
  <2>3. CASE c = r
    BY <1>0, <1>2, <2>3, AsksAt, SendsAt, WakesAt, CancelledAt, ClosedAt
  <2> QED
    BY <2>2, <2>3
<1> QED
  BY <1>1, <1>2 DEF Flows

LEMMA PhaseStep ==
    ASSUME TypeInv, Agree, TurnsHome, Unopened, Sole, PhaseInv, [Next]_vars
    PROVE  \A c \in Requests : PhaseAt(c)'
<1> SUFFICES ASSUME NEW c \in Requests PROVE PhaseAt(c)'
  OBVIOUS
<1>0. TurnRuns /\ Bare /\ \A d \in Requests : PhaseAt(d)
  BY DEF PhaseInv
<1>1. CASE req[c].pc \in Early
  BY <1>0, <1>1, FreshAt
<1>2. CASE Falls
  BY <1>2, LostAt DEF Falls
<1>3. CASE req[c].pc \notin Early /\ ~Falls /\ FlowSame
  <2>1. Quiet(c)
    BY <1>3 DEF FlowSame, Quiet, SameLoop
  <2> QED
    BY <1>0, <1>3, <2>1, QuietAt
<1>4. ASSUME req[c].pc \notin Early, ~Falls, NEW r \in Requests, Flows(r) PROVE PhaseAt(c)'
  BY <1>4, FlowAt
<1> QED
  BY <1>1, <1>2, <1>3, <1>4, FlowCases DEF Falls

LEMMA BareStep ==
    ASSUME TypeInv, Agree, Bare, [Next]_vars
    PROVE  Bare'
<1> SUFFICES ASSUME NEW c \in Requests, req'[c].pc \in Early PROVE conv'[c].keys = {}
  BY DEF Bare
<1>1. req[c].pc \in Early
  BY OnwardStep DEF Onward
<1>2. conv[c].keys = {} /\ \A r \in Requests : ~Holds(r, c)
  BY <1>1, FoundedWasFree DEF Bare, Holds
<1>3. CASE HoldSame \/ HoldLost
  BY <1>2, <1>3 DEF HoldSame, HoldLost, ConvKept
<1>4. ASSUME NEW r \in Requests, Founds(r) PROVE conv'[c].keys = {}
  BY <1>2, <1>4 DEF Founds, ConvKept
<1>5. ASSUME NEW r \in Requests, Shuts(r) PROVE conv'[c].keys = {}
  BY <1>2, <1>5 DEF Shuts, ConvKept
<1>6. ASSUME NEW r \in Requests, NEW d \in Requests, Takes(r, d) PROVE conv'[c].keys = {}
  BY <1>2, <1>6 DEF Takes, ConvKept
<1>7. ASSUME NEW r \in Requests, NEW d \in Requests, Renews(r, d) PROVE conv'[c].keys = {}
  BY <1>2, <1>7 DEF Renews, ConvKept
<1> QED
  BY <1>3, <1>4, <1>5, <1>6, <1>7, HoldEffect

LEMMA OneRunStep ==
    ASSUME TypeInv, Agree, Sole, PhaseInv, [Next]_vars
    PROVE  OneRun'
<1> SUFFICES ASSUME NEW p \in Requests, NEW q \in Requests, NEW c \in Requests, On(p, c)', On(q, c)'
             PROVE  p = q
  BY DEF OneRun
<1>0. OneRun /\ TurnRuns /\ Chosen /\ PhaseAt(c)
  BY DEF PhaseInv
<1>1. ASSUME NEW a \in Requests, req[a].conv = c, AdvanceRun(a) PROVE ~Working(c) /\ Holds(a, c)
  <2>1. req[a].pc = "run"
    BY <1>1 DEF AdvanceRun, At
  <2>2. Holds(a, c) /\ ~conv[c].parked
    BY <1>0, <1>1, <2>1 DEF Holds, Held, Chosen
  <2>3. \A b \in Requests : ~Waits(b, c)
    BY <2>1, <2>2, WaitsAlone DEF Waits
  <2> QED
    BY <1>0, <2>2, <2>3 DEF PhaseAt, RestAt, Reached, Rested, Idle
<1>2. /\ req[p].conv = c /\ (On(p, c) \/ AdvanceRun(p))
      /\ req[q].conv = c /\ (On(q, c) \/ AdvanceRun(q))
  BY <1>0, OnFrom
<1>3. CASE On(p, c) /\ On(q, c)
  BY <1>0, <1>3 DEF OneRun
<1>4. CASE AdvanceRun(p) /\ AdvanceRun(q)
  BY <1>1, <1>2, <1>4 DEF Sole
<1>5. CASE (AdvanceRun(p) /\ On(q, c)) \/ (AdvanceRun(q) /\ On(p, c))
  BY <1>1, <1>2, <1>5 DEF Working
<1> QED
  BY <1>2, <1>3, <1>4, <1>5

LEMMA TurnRunsStep ==
    ASSUME TypeInv, Agree, TurnsHome, TurnRuns, [Next]_vars
    PROVE  TurnRuns'
<1>0. loop \in [Requests -> LoopRec] /\ run \in [Requests -> Runs] /\ req \in [Requests -> ReqRec]
  BY DEF TypeInv, LoopTypes, ReqTypes, Runs
<1>1. \A q \in Requests : run[q] = "turn" => req'[q].conv = req[q].conv /\ req[q].conv \in Requests
  BY RunnerStays
<1>2. ASSUME run' = run, \A c \in Requests : loop'[c].turn = loop[c].turn PROVE TurnRuns'
  BY <1>1, <1>2 DEF TurnRuns
<1>3. CASE FlowSame
  BY <1>2, <1>3 DEF FlowSame
<1>4. CASE Lost
  <2>1. /\ \A c \in Requests : loop'[c].turn = 0
        /\ \A q \in Requests : run'[q] = "none" /\ q # 0
    <3>1. loop' = [c \in Requests |-> NoLoop] /\ run' = [q \in Requests |-> "none"]
      BY <1>4, Zenon DEF Lost
    <3> QED
      BY <3>1, ProxyAssumption DEF NoLoop, Requests
  <2> QED
    BY <2>1 DEF TurnRuns
<1>5. ASSUME NEW r \in Requests, \/ AdvancePush(r) \/ TakeFailure(r) \/ TakeStep(r) \/ ModelAsks(r) \/ Execute(r)
                                 \/ ExecSends(r) \/ ExecWakes(r) \/ ExecCancelled(r) \/ ProcessExits(r)
      PROVE  TurnRuns'
  <2>1. run' = run
    BY <1>5, Zenon DEF AdvancePush, TakeFailure, TakeStep, ModelAsks, Execute, ExecSends, ExecWakes, ExecCancelled, ProcessExits
  <2>2. ASSUME NEW c \in Requests PROVE loop'[c].turn = loop[c].turn
    <3>1. CASE AdvancePush(r) \/ TakeFailure(r) \/ TakeStep(r)
      <4>1. loop' = loop
        BY <3>1, Zenon DEF AdvancePush, TakeFailure, TakeStep
      <4> QED
        BY <4>1
    <3>2. CASE ModelAsks(r)
      <4>1. \E n : loop' = [loop EXCEPT ![r].pending = @ \cup n, ![r].unclaimed = @ \cup n]
        BY <3>2, Zenon DEF ModelAsks
      <4> QED
        BY <1>0, <4>1 DEF LoopRec
    <3>3. CASE Execute(r)
      <4>1. PICK id \in loop[r].unclaimed :
               loop' = [loop EXCEPT ![r] = IF id \in loop[r].answered
                                    THEN [[loop[r] EXCEPT !.unclaimed = @ \ {id}] EXCEPT !.answered = @ \ {id}]
                                    ELSE [[loop[r] EXCEPT !.unclaimed = @ \ {id}] EXCEPT !.at = "sends", !.id = id]]
        BY <3>3, Zenon DEF Execute
      <4> QED
        BY <1>0, <4>1 DEF LoopRec
    <3>4. CASE ExecSends(r)
      <4>1. loop' = [loop EXCEPT ![r].at = "parked", ![r].pending = {}]
        BY <3>4, Zenon DEF ExecSends
      <4> QED
        BY <1>0, <4>1 DEF LoopRec
    <3>5. CASE ExecWakes(r)
      <4>1. PICK got : loop' = [loop EXCEPT ![r].answered = got \ {loop[r].id},
                                           ![r].at = IF loop[r].id \in got THEN "free" ELSE "panicked"]
        BY <3>5, Zenon DEF ExecWakes
      <4> QED
        BY <1>0, <4>1 DEF LoopRec
    <3>6. CASE ExecCancelled(r)
      <4>1. loop' = [loop EXCEPT ![r].at = "free"]
        BY <3>6, Zenon DEF ExecCancelled
      <4> QED
        BY <1>0, <4>1 DEF LoopRec
    <3>7. CASE ProcessExits(r)
      <4>1. loop' = [loop EXCEPT ![r].at = "exited"]
        BY <3>7, Zenon DEF ProcessExits
      <4> QED
        BY <1>0, <4>1 DEF LoopRec
    <3> QED
      BY <1>5, <3>1, <3>2, <3>3, <3>4, <3>5, <3>6, <3>7
  <2> QED
    BY <1>2, <2>1, <2>2
<1>6. ASSUME NEW r \in Requests, AdvanceRun(r) PROVE TurnRuns'
  <2>0. req[r].conv \in Requests /\ run[r] = "none" /\ req'[r].conv = req[r].conv
    <3>1. req[r].pc = "run"
      BY <1>6 DEF AdvanceRun, At
    <3>2. run[r] = "none"
      BY <3>1 DEF TypeInv, TurnsOwned
    <3> QED
      BY <3>1, <3>2, OwnRec, OnwardStep DEF Holding, Onward, Early
  <2>1. PICK c \in Requests : c = req[r].conv
    BY <2>0
  <2>2. CASE loop' = loop /\ \E s : s # "turn" /\ run' = [run EXCEPT ![r] = s]
    <3>1. \A q \in Requests : q # r => run'[q] = run[q]
      BY <1>0, <2>2
    <3>2. run'[r] # "turn"
      BY <1>0, <2>2
    <3> QED
      BY <1>1, <2>0, <2>2, <3>1, <3>2 DEF TurnRuns
  <2>3. CASE loop[c].turn = 0 /\ run' = [run EXCEPT ![r] = "turn"] /\ loop' = [loop EXCEPT ![c].turn = r]
    <3>1. run'[r] = "turn" /\ \A q \in Requests : q # r => run'[q] = run[q]
      BY <1>0, <2>3
    <3>2. loop'[c].turn = r /\ \A d \in Requests : d # c => loop'[d] = loop[d]
      BY <1>0, <2>3 DEF LoopRec
    <3>3. \A q \in Requests : q # 0
      BY ProxyAssumption DEF Requests
    <3> QED
      BY <1>1, <2>0, <2>1, <2>3, <3>1, <3>2, <3>3 DEF TurnRuns
  <2>4. \/ loop' = loop /\ \E s : s # "turn" /\ run' = [run EXCEPT ![r] = s]
        \/ loop[c].turn = 0 /\ run' = [run EXCEPT ![r] = "turn"] /\ loop' = [loop EXCEPT ![c].turn = r]
    BY <1>6, <2>1 DEF AdvanceRun
  <2> QED
    BY <2>2, <2>3, <2>4
<1>7. ASSUME NEW c \in Requests, TurnEnds(c) \/ TurnClosed(c) PROVE TurnRuns'
  <2>1. PICK t : t = loop[c].turn
    OBVIOUS
  <2>2. /\ t # 0 /\ loop' = [loop EXCEPT ![c].turn = 0]
        /\ \E s : s # "turn" /\ run' = [run EXCEPT ![t] = s]
    BY <1>7, <2>1 DEF TurnEnds, TurnClosed
  <2>3. t \in Requests
    BY <1>0, <2>1, <2>2, ProxyAssumption DEF LoopRec, Requests
  <2>4. run'[t] # "turn" /\ \A q \in Requests : q # t => run'[q] = run[q]
    BY <1>0, <2>2, <2>3
  <2>5. loop'[c].turn = 0 /\ \A d \in Requests : d # c => loop'[d] = loop[d]
    BY <1>0, <2>2 DEF LoopRec
  <2>6. \A d \in Requests : d # c => loop[d].turn # t
    BY <2>1, <2>2 DEF TurnsHome
  <2>7. \A q \in Requests : q # 0
    BY ProxyAssumption DEF Requests
  <2> QED
    BY <1>1, <2>1, <2>4, <2>5, <2>6, <2>7 DEF TurnRuns
<1>8. ASSUME NEW r \in Requests, RunSends(r) PROVE TurnRuns'
  <2>1. /\ run[r] \in {"end_turn", "failed", "closed", "inflight"} /\ run' = [run EXCEPT ![r] = "none"]
        /\ \E k : loop' = [loop EXCEPT ![k].pending = {}]
    BY <1>8, Zenon DEF RunSends
  <2>2. run'[r] = "none" /\ run[r] # "turn" /\ \A q \in Requests : q # r => run'[q] = run[q]
    BY <1>0, <2>1
  <2>3. \A d \in Requests : loop'[d].turn = loop[d].turn
    BY <1>0, <2>1 DEF LoopRec
  <2> QED
    BY <1>1, <2>2, <2>3 DEF TurnRuns
<1> QED
  BY <1>3, <1>4, <1>5, <1>6, <1>7, <1>8, FlowCases DEF Flows

(* How a request came to push or to run: it decided to, or it opened the    *)
(* conversation.                                                            *)
LEMMA ChosenFrom ==
    ASSUME TypeInv, Agree, [Next]_vars, NEW r \in Requests
    PROVE  /\ req'[r].pc = "push" => req[r].pc = "push" \/ Decide(r)
           /\ req'[r].pc \in {"supersede", "run"} => \/ req[r].pc \in {"supersede", "run"}
                                                     \/ Decide(r) \/ Open(r)
<1>0. req \in [Requests -> ReqRec] /\ req[r] \in ReqRec
  BY DEF TypeInv, ReqTypes
<1> DEFINE Same == /\ req'[r].pc = "push" => req[r].pc = "push"
                   /\ req'[r].pc \in {"supersede", "run"} => req[r].pc \in {"supersede", "run"}
<1>1. ASSUME NEW a \in Clients, Asked(a) PROVE Same
  BY <1>0, <1>1 DEF Asked
<1>2. ASSUME NEW a \in Clients, Heard(a) PROVE Same
  BY <1>0, <1>2 DEF Heard
<1>3. ASSUME NEW q \in Requests, Handler(q), q # r PROVE Same
  <2>1. PICK x : req' = [req EXCEPT ![q] = x]
    BY <1>3, HandlerMoves DEF Moves
  <2> QED
    BY <1>0, <1>3, <2>1
<1>4. ASSUME Handler(r) PROVE Same \/ Decide(r) \/ Open(r)
  <2>1. CASE Supersede(r)
    <3>1. PICK c \in req[r].victims :
             req' = [req EXCEPT ![r].victims = @ \ {c}, ![r].pc = IF req[r].victims = {c} THEN "run" ELSE @]
      BY <2>1, Zenon DEF Supersede
    <3>2. req[r].pc = "supersede"
      BY <2>1 DEF Supersede, At
    <3> QED
      BY <1>0, <3>1, <3>2 DEF ReqRec
  <2>2. CASE Lookup(r)
    <3>1. \E c : req' = [req EXCEPT ![r].pc = "decide", ![r].conv = c]
      BY <2>2, Zenon DEF Lookup
    <3> QED
      BY <1>0, <3>1 DEF ReqRec
  <2>3. CASE DropConv(r)
    <3>1. req' = [req EXCEPT ![r].pc = "start", ![r].conv = 0]
      BY <2>3, Zenon DEF DropConv
    <3> QED
      BY <1>0, <3>1 DEF ReqRec
  <2>4. CASE StartPrepares(r) \/ AdvancePush(r) \/ AdvanceRun(r) \/ Rekey(r)
    <3>1. \E p \in {"open", "wait", "done"} : req' = [req EXCEPT ![r].pc = p]
      BY <2>4, Zenon DEF StartPrepares, AdvancePush, AdvanceRun, Rekey, Goto
    <3> QED
      BY <1>0, <3>1 DEF ReqRec
  <2>5. CASE StartRefuses(r) \/ OpenFails(r) \/ TakeFailure(r) \/ TakeStep(r)
    <3>1. \E p \in {"done", "rekey"} : \E st : req' = [req EXCEPT ![r].pc = p, ![r].step = st]
      BY <2>5, Zenon DEF StartRefuses, OpenFails, TakeFailure, TakeStep, Respond
    <3> QED
      BY <1>0, <3>1 DEF ReqRec
  <2> HIDE DEF Same
  <2> QED
    BY <1>4, <2>1, <2>2, <2>3, <2>4, <2>5 DEF Handler
<1>5. ASSUME \/ \E q \in Requests : RunSends(q) \/ ReadLoop(q) \/ ModelAsks(q)
             \/ Expire \/ Removals \/ Boot \/ UNCHANGED vars \/ \E a \in Clients : ClientHangsUp(a)
      PROVE  Same
  <2>1. req' = req
    BY <1>5, Zenon DEF RunSends, ReadLoop, ModelAsks, Execute, ExecSends, ExecWakes, ExecCancelled, TurnEnds, TurnClosed, ProcessExits,
                       Expire, ExpireCollects, ExpireCloses, Removals, RemoveFile, Boot, vars, ClientHangsUp
  <2> QED
    BY <2>1
<1>6. ASSUME Stop \/ Killed PROVE Same
  BY <1>6, LostEffect DEF Stop, Killed, ReqLost
<1> HIDE DEF Same
<1>7. Same \/ Decide(r) \/ Open(r)
  BY <1>1, <1>2, <1>3, <1>4, <1>5, <1>6, SendAsks, ReadHears DEF Next
<1>8. Open(r) => req'[r].pc # "push"
  <2> SUFFICES ASSUME Open(r) PROVE req'[r].pc # "push"
    OBVIOUS
  <2>1. \E p \in {"run", "supersede"} : \E v : req' = [req EXCEPT ![r].pc = p, ![r].conv = r, ![r].victims = v]
    BY Zenon DEF Open
  <2> QED
    BY <1>0, <2>1 DEF ReqRec
<1> QED
  BY <1>7, <1>8 DEF Same

LEMMA DecideChooses ==
    ASSUME TypeInv, NEW r \in Requests, Decide(r)
    PROVE  /\ conv' = conv /\ req'[r].conv = req[r].conv /\ req'[r].input = req[r].input
           /\ req'[r].pc = "push" => /\ conv[req[r].conv].parked
                                     /\ conv[req[r].conv].asked = Resulted(req[r].input)
           /\ req'[r].pc = "run" => ~conv[req[r].conv].parked
           /\ req'[r].pc # "supersede"
<1>0. req \in [Requests -> ReqRec] /\ req[r] \in ReqRec
  BY DEF TypeInv, ReqTypes
<1>1. PICK p : /\ p = (CASE Carries(r) -> IF conv[req[r].conv].parked THEN "push" ELSE "run"
                         [] ~Carries(r) /\ req[r].conv # 0 -> "drop"
                         [] OTHER -> "start")
               /\ req' = [req EXCEPT ![r].pc = p]
  BY Zenon DEF Decide, Goto
<1>2. req'[r].pc = p /\ req'[r].conv = req[r].conv /\ req'[r].input = req[r].input
  BY <1>0, <1>1 DEF ReqRec
<1>3. conv' = conv
  BY Zenon DEF Decide, convVars
<1>4. CASE Carries(r)
  <2>1. p = IF conv[req[r].conv].parked THEN "push" ELSE "run"
    BY <1>1, <1>4
  <2>2. conv[req[r].conv].parked => conv[req[r].conv].asked = Resulted(req[r].input)
    BY <1>4 DEF Carries, Answers
  <2> QED
    BY <1>2, <1>3, <2>1, <2>2
<1>5. CASE ~Carries(r)
  <2>1. p = "drop" \/ p = "start"
    BY <1>1, <1>5
  <2> QED
    BY <1>2, <1>3, <2>1
<1> QED
  BY <1>4, <1>5

LEMMA InputStays ==
    ASSUME TypeInv, Agree, [Next]_vars, NEW r \in Requests, req[r].pc \notin {"none", "done"}
    PROVE  req'[r].input = req[r].input
<1>0. req \in [Requests -> ReqRec]
  BY DEF TypeInv, ReqTypes
<1>1. CASE Steady
  BY <1>1 DEF Steady
<1>2. ASSUME NEW a \in Clients, Asked(a) PROVE req'[r].input = req[r].input
  BY <1>0, <1>2 DEF Asked
<1>3. ASSUME NEW a \in Clients, Heard(a) PROVE req'[r].input = req[r].input
  BY <1>0, <1>3 DEF Heard
<1> QED
  BY <1>1, <1>2, <1>3, SpeechEffect

LEMMA ChosenStep ==
    ASSUME TypeInv, Agree, Sole, Chosen, [Next]_vars
    PROVE  Chosen'
<1> SUFFICES ASSUME NEW r \in Requests, NEW c \in Requests, Holds(r, c)'
             PROVE  /\ req'[r].pc = "push" => conv'[c].parked /\ conv'[c].asked = Resulted(req'[r].input)
                    /\ req'[r].pc \in {"supersede", "run"} => ~conv'[c].parked
  BY DEF Chosen
<1>0. req'[r].conv = c
  BY DEF Holds
<1>1. CASE Decide(r)
  <2>1. req[r].conv = c
    BY <1>0, <1>1, DecideChooses
  <2> QED
    BY <1>1, <2>1, DecideChooses
<1>2. CASE Open(r)
  <2>1. Founds(r)
    BY <1>2, OpenFounds
  <2>2. req'[r].conv = r
    <3>1. \E p, v : req' = [req EXCEPT ![r].pc = p, ![r].conv = r, ![r].victims = v]
      BY <1>2, Zenon DEF Open
    <3>2. req \in [Requests -> ReqRec] /\ req[r] \in ReqRec
      BY OwnRec
    <3> QED
      BY <3>1, <3>2 DEF ReqRec
  <2>3. ~conv'[c].parked
    BY <1>0, <2>1, <2>2 DEF Founds
  <2>4. req'[r].pc = "push" => req[r].pc = "push" \/ Decide(r)
    BY ChosenFrom
  <2>5. req[r].pc = "open"
    BY <1>2 DEF Open, At
  <2>6. ~Decide(r)
    BY <2>5 DEF Decide, At
  <2> QED
    BY <2>3, <2>4, <2>5, <2>6
<1>3. CASE req[r].pc \in {"push", "supersede", "run"} /\ ~Decide(r) /\ ~Open(r)
  <2>1. Holds(r, c)
    BY <1>0, <1>3, OnwardStep DEF Onward, Early, Holds, Held
  <2>2. req[c].pc \notin Early
    BY <2>1 DEF Agree, Holds, Requests
  <2>3. ~Falls
    BY LostEffect DEF Falls, ReqLost, Holds, Held
  <2>4. \A q \in Requests : ~(TakeStep(q) /\ req[q].conv = c)
    BY <1>3, <2>1 DEF TakeStep, At, Holds, Held, Sole
  <2>5. conv'[c].parked = conv[c].parked /\ conv'[c].asked = conv[c].asked
    BY <2>2, <2>3, <2>4, ParkedStays
  <2>6. req'[r].input = req[r].input
    BY <1>3, InputStays
  <2> QED
    BY <1>3, <2>1, <2>5, <2>6, ChosenFrom DEF Chosen
<1> QED
  BY <1>1, <1>2, <1>3, ChosenFrom

LEMMA InitPhase == Init => PhaseInv
<1> SUFFICES ASSUME Init PROVE PhaseInv
  OBVIOUS
<1>1. /\ \A r \in Requests : req[r].pc = "none" /\ run[r] = "none" /\ r # 0
      /\ \A c \in Requests : conv[c].keys = {} /\ loop[c].turn = 0
  BY ProxyAssumption DEF Init, NoReq, NoConv, NoLoop, Requests
<1>2. \A r, c \in Requests : ~Holds(r, c) /\ ~On(r, c) /\ ~Waits(r, c)
  BY <1>1 DEF Holds, Held, On, Waits
<1> QED
  BY <1>1, <1>2 DEF PhaseInv, OneRun, TurnRuns, Chosen, Bare, PhaseAt, RestAt, WaitAt, Reached

LEMMA NextPhase == CareInv /\ PhaseInv /\ [Next]_vars => PhaseInv'
<1> SUFFICES ASSUME CareInv, PhaseInv, [Next]_vars PROVE PhaseInv'
  OBVIOUS
<1>1. TypeInv /\ Agree /\ Sole /\ TurnsHome /\ Unopened
  BY DEF CareInv, Inv, HoldInv, CloseInv
<1>2. TurnRuns /\ Chosen /\ Bare
  BY DEF PhaseInv
<1>3. OneRun' /\ TurnRuns' /\ Chosen' /\ Bare'
  BY <1>1, <1>2, OneRunStep, TurnRunsStep, ChosenStep, BareStep
<1>4. \A c \in Requests : PhaseAt(c)'
  BY <1>1, PhaseStep
<1> QED
  BY <1>3, <1>4 DEF PhaseInv

LEMMA PhaseServes ==
    ASSUME CareInv, PhaseInv
    PROVE  WaiterIsServed
<1> SUFFICES ASSUME NEW r \in Requests, req[r].pc = "wait"
             PROVE  LET c == req[r].conv IN
                    \/ steps[c] # <<>>
                    \/ loop[c].at = "exited"
                    \/ /\ \E q \in Requests : run[q] # "none" /\ req[q].conv = c
                       /\ loop[c].at # "panicked"
                       /\ loop[c].at = "parked" => results[c] # <<>> \/ conv[c].closed
  BY DEF WaiterIsServed
<1>1. PICK c : c = req[r].conv
  OBVIOUS
<1>2. c \in Requests
  BY <1>1, OwnRec DEF CareInv, Inv, Holding
<1>3. Failing(c) \/ Stepped(r, c) \/ Ongoing(r, c)
  BY <1>1, <1>2 DEF PhaseInv, PhaseAt, WaitAt, Waits
<1>4. CASE Failing(c) \/ Stepped(r, c)
  BY <1>1, <1>4 DEF Failing, Stepped
<1>5. CASE Ongoing(r, c)
  <2>1. \E q \in Requests : run[q] # "none" /\ req[q].conv = c
    BY <1>5 DEF Ongoing, Working, On
  <2>2. loop[c].at # "panicked" /\ (loop[c].at = "parked" => results[c] # <<>>)
    BY <1>5 DEF Ongoing, Given, Sending, Running, Exited, Cancelled
  <2> QED
    BY <1>1, <2>1, <2>2
<1> QED
  BY <1>3, <1>4, <1>5

(* When no client sends a request again that is still under way, a handler  *)
(* that waits for a step of its conversation is going to get it: the step   *)
(* is in the channel, or a goroutine is at work on the turn that sends the  *)
(* next one, and if the call it is at waits for results, they are in the    *)
(* other channel or the conversation is closed, which cancels the call.     *)
(* Only a process that exits in the middle of its turn leaves it waiting.   *)
(* (messages: main.go:696; collect and execute: 1024-1100.)                 *)
THEOREM WaitersAreServed == ~CanRetry => (Spec => []WaiterIsServed)
<1> SUFFICES ASSUME ~CanRetry PROVE Spec => []WaiterIsServed
  OBVIOUS
<1> DEFINE I == CareInv /\ PhaseInv
<1>1. Init => I
  BY InitCare, InitPhase
<1>2. I /\ [Next]_vars => I'
  BY NextCare, NextPhase
<1>3. I => WaiterIsServed
  BY PhaseServes
<1> HIDE DEF I
<1> QED
  BY <1>1, <1>2, <1>3, PTL DEF Spec

(* When no client sends a request again that is still under way, no two     *)
(* requests wait for a step of one conversation, as the comment has it.     *)
(* What the run ProxyRetry shows is that they need to be as careful as      *)
(* that. (messages: main.go:635-640, 693-696.)                              *)
THEOREM OneWaits == ~CanRetry => (Spec => []RetryIsRebuilt)
<1> SUFFICES ASSUME ~CanRetry PROVE Spec => []RetryIsRebuilt
  OBVIOUS
<1>1. Init => CareInv
  BY InitCare
<1>2. CareInv /\ [Next]_vars => CareInv'
  BY NextCare
<1>3. CareInv => RetryIsRebuilt
  <2> SUFFICES ASSUME CareInv, NEW r \in Requests, NEW q \in Requests,
                      req[r].pc = "wait", req[q].pc = "wait", req[r].conv = req[q].conv
               PROVE  r = q
    BY DEF RetryIsRebuilt
  <2>1. req[r].conv \in Requests
    BY OwnRec DEF CareInv, Inv, Holding
  <2> QED
    BY <2>1 DEF CareInv, HoldInv, Sole, Holds, Held
<1> QED
  BY <1>1, <1>2, <1>3, PTL DEF Spec
-----------------------------------------------------------------------------
(* What is replayed of a history.  A set that has 0, and with a number the  *)
(* next up to m, has all of them: the least one it lacks would be the next  *)
(* of one it has.                                                           *)
LEMMA Climb ==
    ASSUME NEW m \in Nat, NEW S, 0 \in S, \A n \in 1..m : n - 1 \in S => n \in S
    PROVE  0..m \subseteq S
<1> DEFINE Lacking == {n \in 0..m : n \notin S}
<1> SUFFICES ASSUME Lacking # {} PROVE FALSE
  OBVIOUS
<1>1. IsWellFoundedOn(OpToRel(<, Nat), Nat)
  BY NatLessThanWellFounded
<1>2. Lacking \subseteq Nat
  OBVIOUS
<1>3. PICK x \in Lacking : \A y \in Lacking : ~ (<<y, x>> \in OpToRel(<, Nat))
  BY <1>1, <1>2, WFMin
<1>4. \A y \in Lacking : ~ (y < x)
  BY <1>2, <1>3 DEF OpToRel
<1>5. x \in 1..m /\ x - 1 \in 0..m /\ x - 1 < x
  <2>1. x \in 0..m /\ x # 0
    OBVIOUS
  <2> QED
    BY <2>1
<1> QED
  BY <1>4, <1>5

Bit(m) == IF m.kind = "note" THEN <<>> ELSE <<m>>
Keeping(h, f) == f = [n \in 0..Len(h) |-> IF n = 0 THEN <<>> ELSE f[n - 1] \o Bit(h[n])]
KeptTo(h, m, f) == f = [n \in 0..m |-> IF n = 0 THEN <<>> ELSE f[n - 1] \o Bit(h[n])]

LEMMA KeptLonger ==
    ASSUME NEW h, NEW m \in Nat, NEW f, KeptTo(h, m, f)
    PROVE  \E g : KeptTo(h, m + 1, g)
<1> DEFINE g == [k \in 0..(m + 1) |-> IF k <= m THEN f[k] ELSE f[m] \o Bit(h[m + 1])]
<1>1. \A k \in 0..m : g[k] = f[k]
  OBVIOUS
<1>2. g[m + 1] = f[m] \o Bit(h[m + 1])
  OBVIOUS
<1>3. \A k \in 0..m : f[k] = IF k = 0 THEN <<>> ELSE f[k - 1] \o Bit(h[k])
  BY DEF KeptTo
<1>4. g = [k \in 0..(m + 1) |-> g[k]]
  OBVIOUS
<1> HIDE DEF g
<1>5. ASSUME NEW k \in 0..m PROVE g[k] = IF k = 0 THEN <<>> ELSE g[k - 1] \o Bit(h[k])
  <2>1. k # 0 => k - 1 \in 0..m
    OBVIOUS
  <2> QED
    BY <1>1, <1>3, <2>1
<1>6. m \in 0..m /\ (m + 1) - 1 = m /\ m + 1 # 0
  OBVIOUS
<1>7. g[m + 1] = g[(m + 1) - 1] \o Bit(h[m + 1])
  BY <1>1, <1>2, <1>6
<1>8. \A k \in 0..(m + 1) : k \in 0..m \/ k = m + 1
  OBVIOUS
<1>9. \A k \in 0..(m + 1) : g[k] = IF k = 0 THEN <<>> ELSE g[k - 1] \o Bit(h[k])
  BY <1>5, <1>6, <1>7, <1>8
<1> QED
  BY <1>4, <1>9 DEF KeptTo

LEMMA KeptExists ==
    ASSUME NEW h, NEW m \in Nat
    PROVE  \E f : KeptTo(h, m, f)
<1> DEFINE S == {n \in Nat : \E f : KeptTo(h, n, f)}
<1>1. 0 \in S
  <2>1. KeptTo(h, 0, [n \in 0..0 |-> <<>>])
    BY DEF KeptTo
  <2> QED
    BY <2>1
<1>2. ASSUME NEW n \in 1..m, n - 1 \in S PROVE n \in S
  <2>1. PICK f : KeptTo(h, n - 1, f)
    BY <1>2
  <2>2. n - 1 \in Nat /\ (n - 1) + 1 = n
    OBVIOUS
  <2>3. \E g : KeptTo(h, n, g)
    BY <2>1, <2>2, KeptLonger
  <2> QED
    BY <2>2, <2>3
<1> HIDE DEF S
<1>3. 0..m \subseteq S
  BY <1>1, <1>2, Climb
<1> QED
  BY <1>3 DEF S

LEMMA ReplayedIs ==
    ASSUME NEW h \in Seq(Message)
    PROVE  \E f : Keeping(h, f) /\ Replayed(h) = f[Len(h)]
<1> DEFINE F == CHOOSE f : f = [n \in 0..Len(h) |-> IF n = 0 THEN <<>>
                                        ELSE f[n - 1] \o (IF h[n].kind = "note" THEN <<>> ELSE <<h[n]>>)]
<1>1. \E f : f = [n \in 0..Len(h) |-> IF n = 0 THEN <<>>
                                        ELSE f[n - 1] \o (IF h[n].kind = "note" THEN <<>> ELSE <<h[n]>>)]
  BY KeptExists, LenProperties DEF KeptTo, Bit
<1>2. Replayed(h) = F[Len(h)]
  BY DEF Replayed
<1>3. F = [n \in 0..Len(h) |-> IF n = 0 THEN <<>>
                                        ELSE F[n - 1] \o (IF h[n].kind = "note" THEN <<>> ELSE <<h[n]>>)]
  BY <1>1, Zenon
<1> HIDE DEF F
<1> QED
  BY <1>2, <1>3 DEF Keeping, Bit

LEMMA KeepingParts ==
    ASSUME NEW h \in Seq(Message), NEW f, Keeping(h, f)
    PROVE  /\ f[0] = <<>>
           /\ \A n \in 1..Len(h) : f[n] = f[n - 1] \o Bit(h[n]) /\ Bit(h[n]) \in Seq(Message)
           /\ \A n \in 0..Len(h) : f[n] \in Seq(Message)
<1>0. Len(h) \in Nat /\ <<>> \in Seq(Message)
  BY LenProperties, EmptySeq
<1>1. f[0] = <<>> /\ \A n \in 1..Len(h) : f[n] = f[n - 1] \o Bit(h[n])
  BY <1>0 DEF Keeping
<1>2. ASSUME NEW n \in 1..Len(h) PROVE Bit(h[n]) \in Seq(Message)
  <2>1. h[n] \in Message
    BY ElementOfSeq
  <2>2. <<h[n]>> \in Seq(Message)
    BY <2>1
  <2> QED
    BY <1>0, <2>2 DEF Bit
<1> DEFINE S == {n \in 0..Len(h) : f[n] \in Seq(Message)}
<1>3. 0 \in S
  <2>1. 0 \in 0..Len(h) /\ f[0] \in Seq(Message)
    BY <1>0, <1>1
  <2> QED
    BY <2>1
<1>4. ASSUME NEW n \in 1..Len(h), n - 1 \in S PROVE n \in S
  <2>1. f[n - 1] \in Seq(Message)
    BY <1>4
  <2>2. f[n] \in Seq(Message)
    BY <1>1, <1>2, <2>1, ConcatProperties
  <2> QED
    BY <1>0, <2>2
<1> HIDE DEF S
<1>5. 0..Len(h) \subseteq S
  BY <1>0, <1>3, <1>4, Climb
<1> QED
  BY <1>1, <1>2, <1>5 DEF S

(* Of two histories in a row is replayed what is of the one, then of the    *)
(* other.                                                                   *)
LEMMA ReplayedJoins ==
    ASSUME NEW s \in Seq(Message), NEW t \in Seq(Message)
    PROVE  /\ Replayed(s \o t) = Replayed(s) \o Replayed(t)
           /\ Replayed(s) \in Seq(Message)
<1>1. PICK u : u = s \o t
  OBVIOUS
<1>2. PICK a, b : a = Len(s) /\ b = Len(t)
  OBVIOUS
<1>3. /\ a \in Nat /\ b \in Nat /\ u \in Seq(Message) /\ Len(u) = a + b
      /\ \A i \in 1..(a + b) : u[i] = IF i <= a THEN s[i] ELSE t[i - a]
  BY <1>1, <1>2, LenProperties, ConcatProperties
<1>4. PICK f : Keeping(s, f) /\ Replayed(s) = f[a]
  BY <1>2, ReplayedIs
<1>5. PICK g : Keeping(t, g) /\ Replayed(t) = g[b]
  BY <1>2, ReplayedIs
<1>6. PICK k : Keeping(u, k) /\ Replayed(u) = k[a + b]
  BY <1>3, ReplayedIs
<1>7. /\ f[0] = <<>>
      /\ \A n \in 1..a : f[n] = f[n - 1] \o Bit(s[n])
      /\ \A n \in 0..a : f[n] \in Seq(Message)
  BY <1>2, <1>4, KeepingParts
<1>8. /\ g[0] = <<>>
      /\ \A n \in 1..b : g[n] = g[n - 1] \o Bit(t[n]) /\ Bit(t[n]) \in Seq(Message)
      /\ \A n \in 0..b : g[n] \in Seq(Message)
  BY <1>2, <1>5, KeepingParts
<1>9. k[0] = <<>> /\ \A n \in 1..(a + b) : k[n] = k[n - 1] \o Bit(u[n])
  <2>1. k[0] = <<>> /\ \A n \in 1..Len(u) : k[n] = k[n - 1] \o Bit(u[n])
    BY <1>3, <1>6, KeepingParts
  <2> QED
    BY <1>3, <2>1
<1> DEFINE S == {n \in 0..a : k[n] = f[n]}
           T == {n \in 0..b : k[a + n] = f[a] \o g[n]}
<1>10. 0 \in S
  BY <1>3, <1>7, <1>9
<1>11. ASSUME NEW n \in 1..a, n - 1 \in S PROVE n \in S
  <2>1. n \in 1..(a + b) /\ n <= a /\ n \in 0..a
    BY <1>3
  <2>2. k[n - 1] = f[n - 1] /\ u[n] = s[n]
    BY <1>3, <1>11, <2>1
  <2>3. k[n] = f[n]
    BY <1>7, <1>9, <2>1, <2>2
  <2> QED
    BY <2>1, <2>3
<1>12. 0..a \subseteq S
  <2> HIDE DEF S
  <2> QED
    BY <1>3, <1>10, <1>11, Climb
<1>13. k[a] = f[a] /\ f[a] \in Seq(Message)
  BY <1>3, <1>7, <1>12
<1>14. 0 \in T
  <2>1. f[a] \o g[0] = f[a]
    BY <1>8, <1>13, ConcatEmptySeq
  <2>2. 0 \in 0..b /\ a + 0 = a
    BY <1>3
  <2>3. k[a + 0] = f[a] \o g[0]
    BY <1>13, <2>1, <2>2
  <2> QED
    BY <2>2, <2>3
<1>15. ASSUME NEW n \in 1..b, n - 1 \in T PROVE n \in T
  <2>1. a + n \in 1..(a + b) /\ ~(a + n <= a) /\ n \in 0..b /\ n - 1 \in 0..b /\ (a + n) - 1 = a + (n - 1) /\ (a + n) - a = n
    BY <1>3
  <2>2. k[(a + n) - 1] = f[a] \o g[n - 1] /\ u[a + n] = t[n]
    BY <1>3, <1>15, <2>1
  <2>3. k[a + n] = (f[a] \o g[n - 1]) \o Bit(t[n])
    BY <1>9, <2>1, <2>2
  <2>4. (f[a] \o g[n - 1]) \o Bit(t[n]) = f[a] \o (g[n - 1] \o Bit(t[n]))
    <3>1. PICK x, y, z : x = f[a] /\ y = g[n - 1] /\ z = Bit(t[n])
      OBVIOUS
    <3>2. x \in Seq(Message) /\ y \in Seq(Message) /\ z \in Seq(Message)
      BY <1>8, <1>13, <2>1, <3>1
    <3>3. (x \o y) \o z = x \o (y \o z)
      BY <3>2, ConcatAssociative
    <3> QED
      BY <3>1, <3>3
  <2>5. k[a + n] = f[a] \o g[n]
    BY <1>8, <2>3, <2>4
  <2> QED
    BY <2>1, <2>5
<1>16. 0..b \subseteq T
  <2> HIDE DEF T
  <2> QED
    BY <1>3, <1>14, <1>15, Climb
<1>17. k[a + b] = f[a] \o g[b]
  <2>0. b \in 0..b
    BY <1>3
  <2>1. b \in T
    BY <1>16, <2>0
  <2> QED
    BY <2>1
<1> QED
  BY <1>1, <1>4, <1>5, <1>6, <1>13, <1>17

LEMMA ReplayedNote ==
    ASSUME NEW m \in Message, m.kind = "note"
    PROVE  Replayed(<<m>>) = <<>>
<1>0. PICK h : h = <<m>>
  OBVIOUS
<1>1. h \in Seq(Message) /\ Len(h) = 1 /\ h[1] = m
  BY <1>0
<1>2. PICK f : Keeping(h, f) /\ Replayed(h) = f[1]
  BY <1>1, ReplayedIs
<1>3. f[0] = <<>> /\ f[1] = f[0] \o Bit(m)
  <2>1. f[0] = <<>> /\ \A n \in 1..Len(h) : f[n] = f[n - 1] \o Bit(h[n])
    BY <1>1, <1>2, KeepingParts
  <2>2. 1 \in 1..Len(h) /\ 1 - 1 = 0
    BY <1>1
  <2> QED
    BY <1>1, <2>1, <2>2
<1>4. Bit(m) = <<>>
  BY DEF Bit
<1>5. <<>> \o <<>> = <<>>
  BY EmptySeq, ConcatEmptySeq
<1> QED
  BY <1>0, <1>2, <1>3, <1>4, <1>5

(* What a client puts behind its prompt is a reminder, so all the keys of a *)
(* conversation replay the same: the history, the prompt and the reply.     *)
Tidy ==
    \A r \in Requests : Len(req[r].input) <= 2 /\ (Len(req[r].input) = 2 => req[r].input[2].kind = "note")

LEMMA InputsTidy ==
    ASSUME NEW h, NEW i \in Inputs(h)
    PROVE  Len(i) <= 2 /\ (Len(i) = 2 => i[2].kind = "note")
<1> DEFINE open == IF h = <<>> THEN {} ELSE h[Len(h)].ids
           firsts == {User("ask", {}, t) : t \in Topics}
                        \cup (IF open # {} THEN {User("results", open, 0)} ELSE {})
                        \cup {User("bad", {}, 0)}
           o == User("note", {}, 0)
<1>1. o.kind = "note"
  BY DEF User
<1> HIDE DEF firsts
<1>2. PICK m \in firsts : i = <<m>> \/ i = <<m, o>>
  BY DEF Inputs, firsts
<1> HIDE DEF o
<1>3. CASE i = <<m>>
  <2>1. Len(i) = 1
    BY <1>3
  <2> QED
    BY <2>1
<1>4. CASE i = <<m, o>>
  <2>1. Len(i) = 2 /\ i[2] = o
    BY <1>4
  <2> QED
    BY <1>1, <2>1
<1> QED
  BY <1>2, <1>3, <1>4

LEMMA TidyStep ==
    ASSUME TypeInv, Agree, Tidy, [Next]_vars
    PROVE  Tidy'
<1>0. req \in [Requests -> ReqRec]
  BY DEF TypeInv, ReqTypes
<1>1. CASE Steady
  BY <1>1 DEF Steady, Tidy
<1>2. ASSUME NEW a \in Clients, Asked(a) PROVE Tidy'
  <2>1. PICK h \in Priors(a) : \E i \in Inputs(h), x \in ReqRec : x.input = i /\ req' = [req EXCEPT ![sent + 1] = x]
    BY <1>2, Zenon DEF Asked
  <2>2. PICK i \in Inputs(h), x \in ReqRec : x.input = i /\ req' = [req EXCEPT ![sent + 1] = x]
    BY <2>1
  <2>3. Len(i) <= 2 /\ (Len(i) = 2 => i[2].kind = "note")
    BY InputsTidy
  <2> QED
    BY <1>0, <2>2, <2>3 DEF Tidy
<1>3. ASSUME NEW a \in Clients, Heard(a) PROVE Tidy'
  <2>1. PICK x \in ReqRec : x.input = <<>> /\ req' = [req EXCEPT ![asks[a]] = x]
    BY <1>3, Zenon DEF Heard
  <2>2. Len(<<>>) = 0
    OBVIOUS
  <2>3. \A r \in Requests : req'[r].input = <<>> \/ req'[r].input = req[r].input
    BY <1>0, <2>1
  <2> QED
    BY <2>2, <2>3 DEF Tidy
<1> QED
  BY <1>1, <1>2, <1>3, SpeechEffect

(* A key replays as the history and the whole input do, then the reply.     *)
LEMMA KeyReplays ==
    ASSUME ReqTypes, Tidy, NEW r \in Requests, NEW k \in NewKeys(r)
    PROVE  Replayed(k) = Replayed((req[r].prior \o req[r].input) \o <<Reply(r, req[r].step.ids)>>)
<1>1. PICK p, i, e : p = req[r].prior /\ i = req[r].input /\ e = <<Reply(r, req[r].step.ids)>>
  OBVIOUS
<1>2. p \in Seq(Message) /\ i \in Seq(Message) /\ e \in Seq(Message) /\ Len(i) \in Nat
  <2>1. req[r].step.ids \subseteq Ids /\ req[r].prior \in Seq(Message) /\ req[r].input \in Seq(Message)
    BY DEF ReqTypes, ReqRec, Step
  <2>2. <<Reply(r, req[r].step.ids)>> \in Seq(Message)
    BY <2>1, Replies
  <2> QED
    BY <1>1, <2>1, <2>2, LenProperties
<1>3. PICK n \in 1..Len(i) : k = (p \o SubSeq(i, 1, n)) \o e
  BY <1>1 DEF NewKeys
<1>4. PICK s : s = SubSeq(i, 1, n)
  OBVIOUS
<1>5. s \in Seq(Message) /\ Replayed(s) = Replayed(i)
  <2>1. CASE n = Len(i)
    <3>1. s = i
      BY <1>2, <1>4, <2>1, SubSeqFull
    <3> QED
      BY <1>2, <3>1
  <2>2. CASE n # Len(i)
    <3>0. Len(i) <= 2 /\ (Len(i) = 2 => i[2].kind = "note")
      BY <1>1 DEF Tidy
    <3>1. n = 1 /\ Len(i) = 2 /\ i[2].kind = "note"
      <4>1. \A l \in Nat : l <= 2 /\ n \in 1..l /\ n # l => n = 1 /\ l = 2
        OBVIOUS
      <4> QED
        BY <1>2, <2>2, <3>0, <4>1
    <3>2. i[1] \in Message /\ i[2] \in Message
      <4>1. 1 \in 1..Len(i) /\ 2 \in 1..Len(i)
        BY <3>1
      <4> QED
        BY <1>2, <4>1, ElementOfSeq
    <3>3. i = <<i[1], i[2]>>
      BY <1>2, <3>1
    <3>4. s = <<i[1]>>
      <4>1. /\ s \in Seq(Message) /\ Len(s) = (IF 1 <= 1 THEN 1 - 1 + 1 ELSE 0)
            /\ \A l \in 1..(1 - 1 + 1) : s[l] = i[1 + l - 1]
        <5>1. 1 \in Int /\ \A l \in 1..1 : i[l] \in Message
          BY <3>2
        <5> QED
          BY <1>4, <3>1, <5>1, SubSeqProperties
      <4>2. Len(s) = 1 /\ s[1] = i[1]
        BY <4>1
      <4>3. <<i[1]>> \in Seq(Message) /\ Len(<<i[1]>>) = 1 /\ <<i[1]>>[1] = i[1]
        BY <3>2
      <4> QED
        BY <4>1, <4>2, <4>3, SeqEqual
    <3>5. PICK x, y : x = <<i[1]>> /\ y = <<i[2]>>
      OBVIOUS
    <3>6. x \in Seq(Message) /\ y \in Seq(Message) /\ i = x \o y
      BY <3>2, <3>3, <3>5
    <3>7. Replayed(y) = <<>>
      BY <3>1, <3>2, <3>5, ReplayedNote
    <3>8. Replayed(i) = Replayed(x) \o Replayed(y) /\ Replayed(x) \in Seq(Message)
      BY <3>6, ReplayedJoins
    <3>9. Replayed(i) = Replayed(x)
      BY <3>7, <3>8, ConcatEmptySeq
    <3> QED
      BY <3>4, <3>5, <3>6, <3>9
  <2> QED
    BY <2>1, <2>2
<1>6. PICK q, w : q = p \o s /\ w = p \o i
  OBVIOUS
<1>7. q \in Seq(Message) /\ w \in Seq(Message)
  BY <1>2, <1>5, <1>6, ConcatProperties
<1>8. Replayed(q) = Replayed(p) \o Replayed(s) /\ Replayed(w) = Replayed(p) \o Replayed(i)
  BY <1>2, <1>5, <1>6, ReplayedJoins
<1>9. Replayed(q \o e) = Replayed(q) \o Replayed(e) /\ Replayed(w \o e) = Replayed(w) \o Replayed(e)
  BY <1>2, <1>7, ReplayedJoins
<1> QED
  BY <1>1, <1>3, <1>4, <1>5, <1>6, <1>8, <1>9

(* Only who waits for a step, or has waited, gave a process anything.       *)
Served ==
    \A c \in Requests :
        /\ serving[c] # 0 => req[serving[c]].pc \in Answered
        /\ results[c] # <<>> => req[Head(results[c]).by].pc \in Answered

LEMMA WakesFrom ==
    ASSUME TypeInv, NEW c \in Requests, ExecWakes(c)
    PROVE  LET m == Head(results[c]) IN
           /\ m.by \in Requests /\ m.input \in Seq(Message)
           /\ seen' = [seen EXCEPT ![c] = @ \o m.input]
           /\ serving' = [serving EXCEPT ![c] = m.by]
           /\ results[c] # <<>> /\ results'[c] = <<>> /\ req' = req /\ conv' = conv /\ steps' = steps
<1>0. results \in [Requests -> Seq(Answer)] /\ Len(results[c]) <= 1
  BY DEF TypeInv, ChannelTypes
<1>1. PICK m : m = Head(results[c])
  OBVIOUS
<1>2. /\ seen' = [seen EXCEPT ![c] = @ \o m.input]
      /\ serving' = [serving EXCEPT ![c] = m.by]
      /\ results[c] # <<>> /\ results' = [results EXCEPT ![c] = Tail(@)]
      /\ req' = req /\ conv' = conv /\ steps' = steps
  BY <1>1, Zenon DEF ExecWakes, convVars
<1>3. m \in Answer
  BY <1>0, <1>1, <1>2, HeadTailProperties
<1>4. results'[c] = <<>>
  BY <1>0, <1>2, TakenIsAll
<1> QED
  BY <1>1, <1>2, <1>3, <1>4 DEF Answer

(* The steps that give a process something, or take note of who did.        *)
SeenSame ==
    /\ seen' = seen /\ serving' = serving
    /\ \A c \in Requests : results'[c] = results[c] \/ results'[c] = <<>>

LEMMA SeenCases ==
    ASSUME TypeInv, [Next]_vars
    PROVE  \/ SeenSame \/ Falls
           \/ \E r \in Requests : Open(r) \/ AdvancePush(r) \/ AdvanceRun(r) \/ Rekey(r) \/ ExecWakes(r)
<1>1. CASE \E a \in Clients : ClientSends(a) \/ ClientReads(a) \/ ClientHangsUp(a)
  BY <1>1, Zenon DEF ClientSends, ClientReads, ClientHangsUp, loopVars, SeenSame
<1>2. ASSUME NEW r \in Requests, Handler(r), ~(Open(r) \/ AdvancePush(r) \/ AdvanceRun(r) \/ Rekey(r)) PROVE SeenSame
  <2>1. results' = results /\ seen' = seen /\ serving' = serving
    BY <1>2, Zenon DEF Handler, loopVars, Lookup, Decide, DropConv, StartRefuses, StartPrepares, OpenFails, Supersede,
                       TakeFailure, TakeStep
  <2> QED
    BY <2>1 DEF SeenSame
<1>3. ASSUME NEW r \in Requests, RunSends(r) \/ ReadLoop(r) \/ ModelAsks(r), ~ExecWakes(r) PROVE SeenSame
  <2>1. results' = results /\ seen' = seen /\ serving' = serving
    BY <1>3, Zenon DEF RunSends, ReadLoop, ModelAsks, Execute, ExecSends, ExecCancelled, TurnEnds, TurnClosed, ProcessExits
  <2> QED
    BY <2>1 DEF SeenSame
<1>4. CASE Expire \/ Removals \/ Boot \/ UNCHANGED vars
  BY <1>4, Zenon DEF Expire, ExpireCollects, ExpireCloses, Removals, RemoveFile, Boot, vars, loopVars, SeenSame
<1>5. CASE Stop \/ Killed
  BY <1>5 DEF Stop, Killed, Falls
<1> QED
  BY <1>1, <1>2, <1>3, <1>4, <1>5 DEF Next

LEMMA PushFrom ==
    ASSUME TypeInv, NEW r \in Requests, AdvancePush(r)
    PROVE  LET c == req[r].conv  m == [by |-> r, input |-> req[r].input] IN
           /\ c \in Requests /\ req[r].pc = "push" /\ results[c] = <<>> /\ results' = [results EXCEPT ![c] = <<m>>]
           /\ req' = [req EXCEPT ![r].pc = "wait"]
           /\ seen' = seen /\ serving' = serving /\ conv' = conv /\ steps' = steps
<1>1. PICK c, m : c = req[r].conv /\ m = [by |-> r, input |-> req[r].input]
  OBVIOUS
<1>2. /\ req[r].pc = "push" /\ results[c] = <<>> /\ results' = [results EXCEPT ![c] = <<m>>]
      /\ req' = [req EXCEPT ![r].pc = "wait"]
      /\ seen' = seen /\ serving' = serving /\ conv' = conv /\ steps' = steps
  BY <1>1, Zenon DEF AdvancePush, At, Goto, convVars
<1>3. c \in Requests
  BY <1>1, <1>2, OwnRec DEF Holding
<1> QED
  BY <1>1, <1>2, <1>3

LEMMA ServedStep ==
    ASSUME TypeInv, Agree, Served, [Next]_vars
    PROVE  Served'
<1>0. /\ serving \in [Requests -> 0..MaxRequests] /\ results \in [Requests -> Seq(Answer)]
      /\ req \in [Requests -> ReqRec]
  BY DEF TypeInv, LoopTypes, ChannelTypes, ReqTypes
<1>1. \A r \in Requests : req[r].pc \in Answered => req'[r].pc \in Answered
  BY OnwardStep DEF Onward
<1>2. ASSUME NEW c \in Requests
      PROVE  /\ serving[c] # 0 => req'[serving[c]].pc \in Answered
             /\ results[c] # <<>> => req'[Head(results[c]).by].pc \in Answered
  <2>1. serving[c] # 0 => serving[c] \in Requests
    BY <1>0, ProxyAssumption DEF Requests
  <2>2. results[c] # <<>> => Head(results[c]).by \in Requests
    <3>1. results[c] # <<>> => Head(results[c]) \in Answer
      BY <1>0, HeadTailProperties
    <3> QED
      BY <3>1 DEF Answer
  <2> QED
    BY <1>1, <2>1, <2>2 DEF Served
<1>3. CASE SeenSame
  <2> SUFFICES ASSUME NEW c \in Requests
               PROVE  /\ serving'[c] # 0 => req'[serving'[c]].pc \in Answered
                      /\ results'[c] # <<>> => req'[Head(results'[c]).by].pc \in Answered
    BY DEF Served
  <2> QED
    BY <1>2, <1>3 DEF SeenSame
<1>4. CASE Falls
  <2>1. \A c \in Requests : serving'[c] = 0 /\ results'[c] = <<>>
    BY <1>4 DEF Falls, Lost
  <2> QED
    BY <2>1 DEF Served
<1>5. ASSUME NEW r \in Requests, Open(r) \/ Rekey(r) PROVE Served'
  <2>1. results' = results /\ serving' = serving
    BY <1>5, Zenon DEF Open, Rekey
  <2> QED
    BY <1>2, <2>1 DEF Served
<1>6. ASSUME NEW r \in Requests, AdvancePush(r) PROVE Served'
  <2>1. PICK c, m : c = req[r].conv /\ m = [by |-> r, input |-> req[r].input]
    OBVIOUS
  <2>2. /\ c \in Requests /\ results' = [results EXCEPT ![c] = <<m>>] /\ serving' = serving
        /\ req' = [req EXCEPT ![r].pc = "wait"]
    BY <1>6, <2>1, PushFrom
  <2>3. req'[r].pc = "wait"
    BY <1>0, <2>2 DEF ReqRec
  <2>4. Head(results'[c]) = m /\ m.by = r
    BY <1>0, <2>1, <2>2
  <2>5. \A d \in Requests : d # c => results'[d] = results[d]
    BY <1>0, <2>2
  <2> QED
    BY <1>2, <2>2, <2>3, <2>4, <2>5 DEF Served, Answered
<1>7. ASSUME NEW r \in Requests, AdvanceRun(r) PROVE Served'
  <2>1. /\ req' = [req EXCEPT ![r].pc = "wait"] /\ results' = results
        /\ serving' = serving \/ serving' = [serving EXCEPT ![req[r].conv] = r]
    BY <1>7, Zenon DEF AdvanceRun, Goto
  <2>2. req'[r].pc = "wait"
    BY <1>0, <2>1 DEF ReqRec
  <2>3. \A c \in Requests : serving'[c] = serving[c] \/ serving'[c] = r
    BY <1>0, <2>1
  <2> QED
    BY <1>2, <2>1, <2>2, <2>3 DEF Served, Answered
<1>8. ASSUME NEW d \in Requests, ExecWakes(d) PROVE Served'
  <2>1. PICK m : m = Head(results[d])
    OBVIOUS
  <2>2. /\ serving' = [serving EXCEPT ![d] = m.by] /\ results[d] # <<>> /\ results'[d] = <<>>
        /\ \A c \in Requests : c # d => results'[c] = results[c]
    BY <1>8, <2>1, WakesFrom, LoopAt DEF FlowsAt
  <2>3. \A c \in Requests : serving'[c] = IF c = d THEN m.by ELSE serving[c]
    BY <1>0, <2>2
  <2> QED
    BY <1>2, <2>1, <2>2, <2>3 DEF Served
<1> QED
  BY <1>3, <1>4, <1>5, <1>6, <1>7, <1>8, SeenCases

(* Whoever lets go of a conversation has answered for it, or leaves nothing *)
(* that leads to it.                                                        *)
LEMMA LetGo ==
    ASSUME TypeInv, Agree, [Next]_vars, NEW r \in Requests, NEW c \in Requests, Holds(r, c)
    PROVE  Holds(r, c)' \/ Rekey(r) \/ conv'[c].keys = {}
<1>0. /\ req \in [Requests -> ReqRec] /\ req[r] \in ReqRec
      /\ req[r].pc \in Held /\ req[r].conv = c /\ c # 0
  BY OwnRec DEF Holds, Requests
<1> DEFINE Stays == Holds(r, c)'
<1>1. ASSUME NEW a \in Clients, Asked(a) PROVE Stays
  BY <1>0, <1>1 DEF Asked, Held, Holds
<1>2. ASSUME NEW a \in Clients, Heard(a) PROVE Stays
  BY <1>0, <1>2 DEF Heard, Held, Holds
<1>3. ASSUME NEW q \in Requests, Handler(q), q # r PROVE Stays
  <2>1. PICK x : req' = [req EXCEPT ![q] = x]
    BY <1>3, HandlerMoves DEF Moves
  <2> QED
    BY <1>0, <1>3, <2>1 DEF Holds
<1>4. ASSUME Handler(r) PROVE Stays \/ Rekey(r) \/ conv'[c].keys = {}
  <2>1. CASE Lookup(r) \/ StartRefuses(r) \/ StartPrepares(r) \/ OpenFails(r) \/ Open(r)
    BY <1>0, <2>1 DEF Lookup, StartRefuses, StartPrepares, OpenFails, Open, At, Held
  <2>2. CASE Decide(r)
    <3>1. PICK p : /\ p = (CASE Carries(r) -> IF conv[req[r].conv].parked THEN "push" ELSE "run"
                             [] ~Carries(r) /\ req[r].conv # 0 -> "drop"
                             [] OTHER -> "start")
                   /\ req' = [req EXCEPT ![r].pc = p]
      BY <2>2, Zenon DEF Decide, Goto
    <3>2. p \in Held
      <4>1. CASE Carries(r)
        BY <3>1, <4>1 DEF Held
      <4>2. CASE ~Carries(r)
        BY <1>0, <3>1, <4>2 DEF Held
      <4> QED
        BY <4>1, <4>2
    <3> QED
      BY <1>0, <3>1, <3>2 DEF Holds, ReqRec
  <2>3. CASE DropConv(r) \/ TakeFailure(r)
    <3>1. CloseConv(c)
      BY <1>0, <2>3, Zenon DEF DropConv, TakeFailure
    <3> QED
      BY <3>1, ClosingEffect
  <2>4. CASE Supersede(r)
    <3>1. PICK v \in req[r].victims :
             req' = [req EXCEPT ![r].victims = @ \ {v}, ![r].pc = IF req[r].victims = {v} THEN "run" ELSE @]
      BY <2>4, Zenon DEF Supersede
    <3> QED
      BY <1>0, <3>1 DEF Holds, Held, ReqRec
  <2>5. CASE AdvancePush(r) \/ AdvanceRun(r)
    <3>1. req' = [req EXCEPT ![r].pc = "wait"]
      BY <2>5, Zenon DEF AdvancePush, AdvanceRun, Goto
    <3> QED
      BY <1>0, <3>1 DEF Holds, Held, ReqRec
  <2>6. CASE TakeStep(r)
    <3>1. \E st : req' = [req EXCEPT ![r].pc = "rekey", ![r].step = st]
      BY <2>6, Zenon DEF TakeStep
    <3> QED
      BY <1>0, <3>1 DEF Holds, Held, ReqRec
  <2> HIDE DEF Stays
  <2> QED
    BY <1>4, <2>1, <2>2, <2>3, <2>4, <2>5, <2>6 DEF Handler
<1>5. ASSUME \/ \E q \in Requests : RunSends(q) \/ ReadLoop(q) \/ ModelAsks(q)
             \/ Expire \/ Removals \/ Boot \/ UNCHANGED vars \/ \E a \in Clients : ClientHangsUp(a)
      PROVE  Stays
  <2>1. req' = req
    BY <1>5, Zenon DEF RunSends, ReadLoop, ModelAsks, Execute, ExecSends, ExecWakes, ExecCancelled, TurnEnds, TurnClosed, ProcessExits,
                       Expire, ExpireCollects, ExpireCloses, Removals, RemoveFile, Boot, vars, ClientHangsUp
  <2> QED
    BY <1>0, <2>1 DEF Holds
<1>6. ASSUME Stop \/ Killed PROVE conv'[c].keys = {}
  <2>1. conv' = [d \in Requests |-> NoConv]
    BY <1>6, Zenon DEF Stop, Killed, Lost
  <2> QED
    BY <2>1 DEF NoConv
<1> HIDE DEF Stays
<1>7. Stays \/ Rekey(r) \/ conv'[c].keys = {}
  BY <1>1, <1>2, <1>3, <1>4, <1>5, <1>6, SendAsks, ReadHears DEF Next
<1> QED
  BY <1>7 DEF Stays

(* Who holds a conversation held it, or has just taken or opened it.        *)
LEMMA HeldFrom ==
    ASSUME TypeInv, Agree, [Next]_vars, NEW r \in Requests, NEW c \in Requests, Holds(r, c)'
    PROVE  Holds(r, c) \/ Takes(r, c) \/ (Founds(c) /\ r = c)
<1>1. CASE HoldSame \/ HoldLost
  BY <1>1 DEF HoldSame, HoldLost, HoldsKept
<1>2. ASSUME NEW q \in Requests, Founds(q) PROVE Holds(r, c) \/ (Founds(c) /\ r = c)
  BY <1>2 DEF Founds
<1>3. ASSUME NEW q \in Requests, Shuts(q) PROVE Holds(r, c)
  BY <1>3 DEF Shuts, HoldsKept
<1>4. ASSUME NEW q \in Requests, NEW d \in Requests, Takes(q, d) PROVE Holds(r, c) \/ Takes(r, c)
  BY <1>4 DEF Takes
<1>5. ASSUME NEW q \in Requests, NEW d \in Requests, Renews(q, d) PROVE Holds(r, c)
  BY <1>5 DEF Renews, HoldsKept
<1> QED
  BY <1>1, <1>2, <1>3, <1>4, <1>5, HoldEffect

(* The keys of a conversation are those it had, unless it gets new ones.    *)
LEMMA KeysFrom ==
    ASSUME TypeInv, Agree, [Next]_vars, NEW c \in Requests
    PROVE  \/ conv'[c].keys \subseteq conv[c].keys
           \/ \E r \in Requests : Renews(r, c)
<1>1. CASE HoldSame \/ HoldLost
  BY <1>1 DEF HoldSame, HoldLost, ConvKept
<1>2. ASSUME NEW r \in Requests, Founds(r) \/ Shuts(r) PROVE conv'[c].keys \subseteq conv[c].keys
  BY <1>2 DEF Founds, Shuts, ConvKept
<1>3. ASSUME NEW r \in Requests, NEW d \in Requests, Takes(r, d) PROVE conv'[c].keys \subseteq conv[c].keys
  BY <1>3 DEF Takes, ConvKept
<1>4. ASSUME NEW r \in Requests, NEW d \in Requests, Renews(r, d)
      PROVE  conv'[c].keys \subseteq conv[c].keys \/ Renews(r, c)
  BY <1>4 DEF Renews, ConvKept
<1> QED
  BY <1>1, <1>2, <1>3, <1>4, HoldEffect

(* Only its own handler moves a request that holds a conversation.          *)
LEMMA Moved ==
    ASSUME TypeInv, Agree, [Next]_vars, NEW r \in Requests, req'[r].pc \in Held
    PROVE  Handler(r) \/ req'[r] = req[r]
<1>0. req \in [Requests -> ReqRec]
  BY DEF TypeInv, ReqTypes
<1>1. ASSUME NEW a \in Clients, Asked(a) PROVE req'[r] = req[r]
  BY <1>0, <1>1 DEF Asked, Held
<1>2. ASSUME NEW a \in Clients, Heard(a) PROVE req'[r] = req[r]
  BY <1>0, <1>2 DEF Heard, Held
<1>3. ASSUME NEW q \in Requests, Handler(q), q # r PROVE req'[r] = req[r]
  <2>1. PICK x : req' = [req EXCEPT ![q] = x]
    BY <1>3, HandlerMoves DEF Moves
  <2> QED
    BY <1>0, <1>3, <2>1
<1>4. ASSUME \/ \E q \in Requests : RunSends(q) \/ ReadLoop(q) \/ ModelAsks(q)
             \/ Expire \/ Removals \/ Boot \/ UNCHANGED vars \/ \E a \in Clients : ClientHangsUp(a)
      PROVE  req'[r] = req[r]
  <2>1. req' = req
    BY <1>4, Zenon DEF RunSends, ReadLoop, ModelAsks, Execute, ExecSends, ExecWakes, ExecCancelled, TurnEnds, TurnClosed, ProcessExits,
                       Expire, ExpireCollects, ExpireCloses, Removals, RemoveFile, Boot, vars, ClientHangsUp
  <2> QED
    BY <2>1
<1>5. ASSUME Stop \/ Killed PROVE FALSE
  BY <1>5, LostEffect DEF Stop, Killed, ReqLost, Held
<1> QED
  BY <1>1, <1>2, <1>3, <1>4, <1>5, SendAsks, ReadHears DEF Next

LEMMA FoundedBy ==
    ASSUME TypeInv, Agree, [Next]_vars, NEW r \in Requests, req[r].pc = "open", req'[r].pc \in Held
    PROVE  Open(r)
<1>1. Handler(r)
  BY Moved DEF Held
<1>2. ~OpenFails(r)
  <2> SUFFICES ASSUME OpenFails(r) PROVE FALSE
    OBVIOUS
  <2>1. req' = [req EXCEPT ![r].pc = "done", ![r].step = NoStep]
    BY Zenon DEF OpenFails, Respond
  <2>2. req[r] \in ReqRec /\ req \in [Requests -> ReqRec]
    BY OwnRec
  <2> QED
    BY <2>1, <2>2 DEF ReqRec, Held
<1> QED
  BY <1>1, <1>2 DEF Handler, Lookup, Decide, DropConv, StartRefuses, StartPrepares, Supersede, AdvancePush, AdvanceRun,
                    TakeFailure, TakeStep, Rekey, At

LEMMA AnswersFrom ==
    ASSUME TypeInv, Agree, [Next]_vars, NEW r \in Requests, req'[r].pc = "rekey"
    PROVE  req'[r] = req[r] \/ TakeStep(r)
<1>0. req[r] \in ReqRec /\ req \in [Requests -> ReqRec]
  BY OwnRec
<1>1. Handler(r) \/ req'[r] = req[r]
  BY Moved DEF Held
<1>2. ASSUME Handler(r) PROVE TakeStep(r)
  <2>1. CASE Lookup(r)
    <3>1. \E c : req' = [req EXCEPT ![r].pc = "decide", ![r].conv = c]
      BY <2>1, Zenon DEF Lookup
    <3> QED
      BY <1>0, <3>1 DEF ReqRec
  <2>2. CASE Decide(r) \/ StartPrepares(r) \/ AdvancePush(r) \/ AdvanceRun(r) \/ Rekey(r)
    <3>1. \E p \in {"push", "run", "drop", "start", "open", "wait", "done"} : req' = [req EXCEPT ![r].pc = p]
      BY <2>2, Zenon DEF Decide, StartPrepares, AdvancePush, AdvanceRun, Rekey, Goto
    <3> QED
      BY <1>0, <3>1 DEF ReqRec
  <2>3. CASE DropConv(r)
    <3>1. req' = [req EXCEPT ![r].pc = "start", ![r].conv = 0]
      BY <2>3, Zenon DEF DropConv
    <3> QED
      BY <1>0, <3>1 DEF ReqRec
  <2>4. CASE StartRefuses(r) \/ OpenFails(r) \/ TakeFailure(r)
    <3>1. \E st : req' = [req EXCEPT ![r].pc = "done", ![r].step = st]
      BY <2>4, Zenon DEF StartRefuses, OpenFails, TakeFailure, Respond
    <3> QED
      BY <1>0, <3>1 DEF ReqRec
  <2>5. CASE Open(r)
    <3>1. \E p \in {"run", "supersede"} : \E v : req' = [req EXCEPT ![r].pc = p, ![r].conv = r, ![r].victims = v]
      BY <2>5, Zenon DEF Open
    <3> QED
      BY <1>0, <3>1 DEF ReqRec
  <2>6. CASE Supersede(r)
    <3>1. PICK c \in req[r].victims :
             req' = [req EXCEPT ![r].victims = @ \ {c}, ![r].pc = IF req[r].victims = {c} THEN "run" ELSE @]
      BY <2>6, Zenon DEF Supersede
    <3>2. req[r].pc = "supersede"
      BY <2>6 DEF Supersede, At
    <3> QED
      BY <1>0, <3>1, <3>2 DEF ReqRec
  <2> QED
    BY <1>2, <2>1, <2>2, <2>3, <2>4, <2>5, <2>6 DEF Handler
<1> QED
  BY <1>1, <1>2

(* What a request takes is the step it waited for.                          *)
LEMMA TakesItsOwn ==
    ASSUME TypeInv, NEW r \in Requests, NEW c \in Requests, c = req[r].conv, TakeStep(r), PhaseAt(c)
    PROVE  /\ results[c] = <<>> /\ serving[c] = r
           /\ req' = [req EXCEPT ![r].pc = "rekey", ![r].step = Head(steps[c])] /\ Head(steps[c]).by = r
<1>1. PICK st : st = Head(steps[c])
  OBVIOUS
<1>2. /\ req[r].pc = "wait" /\ steps[c] # <<>> /\ st.err = "none"
      /\ req' = [req EXCEPT ![r].pc = "rekey", ![r].step = st]
  BY <1>1, Zenon DEF TakeStep, At
<1>3. Stepped(r, c)
  <2>1. ~Failing(c)
    BY <1>1, <1>2 DEF Failing
  <2>2. ~Ongoing(r, c)
    BY <1>2 DEF Ongoing
  <2>3. Waits(r, c)
    BY <1>2 DEF Waits
  <2> QED
    BY <2>1, <2>2, <2>3 DEF PhaseAt, WaitAt
<1> QED
  BY <1>1, <1>2, <1>3 DEF Stepped, Rested

(* What a process was given: the history its client sent, whoever holds the *)
(* conversation; with the input, once that was given to it; and the history *)
(* of all its keys, if nobody does.  What it will be given is the input of  *)
(* who waits.                                                               *)
SeenTypes == seen \in [Requests -> Seq(Message)]
Spoken(r, c) == IF serving[c] = r THEN req[r].prior \o req[r].input ELSE req[r].prior
Shown(c) ==
    /\ (\A r \in Requests : ~Holds(r, c)) => \A k \in conv[c].keys : Replayed(seen[c]) = Replayed(k)
    /\ \A r \in Requests : Holds(r, c) =>
           /\ Replayed(seen[c]) = Replayed(Spoken(r, c))
           /\ req[r].pc = "rekey" => serving[c] = r /\ req[r].step.by = r
Owed(c) ==
    results[c] # <<>> /\ Reached(c) =>
        LET m == Head(results[c]) IN Waits(m.by, c) /\ m.input = req[m.by].input /\ serving[c] # m.by
SeenInv == SeenTypes /\ Tidy /\ Served /\ \A c \in Requests : Shown(c) /\ Owed(c)

LEMMA OwnSpeech ==
    ASSUME TypeInv, NEW r \in Requests
    PROVE  req[r].prior \in Seq(Message) /\ req[r].input \in Seq(Message)
           /\ <<Reply(r, req[r].step.ids)>> \in Seq(Message)
<1>1. req[r].prior \in Seq(Message) /\ req[r].input \in Seq(Message) /\ req[r].step.ids \subseteq Ids
  BY OwnRec DEF ReqRec, Step
<1> QED
  BY <1>1, Replies

LEMMA SeenTypesStep ==
    ASSUME TypeInv, SeenTypes, [Next]_vars
    PROVE  SeenTypes'
<1>1. CASE SeenSame
  BY <1>1 DEF SeenSame, SeenTypes
<1>2. CASE Falls
  <2>1. seen' = [c \in Requests |-> <<>>] /\ <<>> \in Seq(Message)
    BY <1>2, EmptySeq DEF Falls, Lost
  <2> QED
    BY <2>1 DEF SeenTypes
<1>3. ASSUME NEW c \in Requests, NEW s, s \in Seq(Message), seen' = [seen EXCEPT ![c] = s] PROVE SeenTypes'
  BY <1>3 DEF SeenTypes
<1>4. ASSUME NEW c \in Requests, NEW s, s \in Seq(Message), seen' = [seen EXCEPT ![c] = @ \o s] PROVE SeenTypes'
  <2>1. seen[c] \o s \in Seq(Message)
    BY <1>4, ConcatProperties DEF SeenTypes
  <2> QED
    BY <1>4, <2>1 DEF SeenTypes
<1>5. ASSUME NEW r \in Requests, Open(r) PROVE SeenTypes'
  <2>1. seen' = [seen EXCEPT ![r] = req[r].prior]
    BY <1>5, Zenon DEF Open
  <2> QED
    BY <1>3, <2>1, OwnSpeech
<1>6. ASSUME NEW r \in Requests, AdvancePush(r) PROVE SeenTypes'
  BY <1>6, PushFrom DEF SeenTypes
<1>7. ASSUME NEW r \in Requests, AdvanceRun(r) PROVE SeenTypes'
  <2>1. /\ req[r].pc = "run"
        /\ seen' = seen \/ seen' = [seen EXCEPT ![req[r].conv] = @ \o req[r].input]
    BY <1>7, Zenon DEF AdvanceRun, At
  <2>2. req[r].conv \in Requests
    BY <2>1, OwnRec DEF Holding
  <2>3. seen' = seen => SeenTypes'
    BY DEF SeenTypes
  <2> QED
    BY <1>4, <2>1, <2>2, <2>3, OwnSpeech
<1>8. ASSUME NEW r \in Requests, Rekey(r) PROVE SeenTypes'
  <2>1. /\ req[r].pc = "rekey" /\ seen' = [seen EXCEPT ![req[r].conv] = Append(@, Reply(r, req[r].step.ids))]
    BY <1>8, Zenon DEF Rekey, At
  <2>2. req[r].conv \in Requests
    BY <2>1, OwnRec DEF Holding
  <2>3. Reply(r, req[r].step.ids) \in Message
    BY OwnRec, Replies DEF ReqRec, Step
  <2> QED
    BY <2>1, <2>2, <2>3 DEF SeenTypes
<1>9. ASSUME NEW c \in Requests, ExecWakes(c) PROVE SeenTypes'
  BY <1>4, <1>9, WakesFrom
<1> QED
  BY <1>1, <1>2, <1>5, <1>6, <1>7, <1>8, <1>9, SeenCases

(* What a process was given stays what it should be while it gets nothing.  *)
LEMMA ShownQuiet ==
    ASSUME TypeInv, Agree, Stories, Turning, Apart, KeysAgree, Served, [Next]_vars,
           NEW c \in Requests, PhaseAt(c), Shown(c),
           seen'[c] = seen[c], serving'[c] = serving[c], conv'[c].keys \subseteq conv[c].keys,
           \A q \in Requests : Holds(q, c) => Holds(q, c)' \/ conv'[c].keys = {},
           \A q \in Requests : Holds(q, c)' => Holds(q, c) \/ Takes(q, c)
    PROVE  Shown(c)'
<1>1. ASSUME \A q \in Requests : ~Holds(q, c)', NEW k \in conv'[c].keys
      PROVE  Replayed(seen'[c]) = Replayed(k)
  <2>1. \A q \in Requests : ~Holds(q, c)
    BY <1>1
  <2>2. Replayed(seen[c]) = Replayed(k)
    BY <1>1, <2>1 DEF Shown
  <2> QED
    BY <2>2
<1>2. ASSUME NEW q \in Requests, Holds(q, c)'
      PROVE  /\ Replayed(seen'[c]) = Replayed(IF serving'[c] = q THEN req'[q].prior \o req'[q].input ELSE req'[q].prior)
             /\ req'[q].pc = "rekey" => serving'[c] = q /\ req'[q].step.by = q
  <2>0. req'[q].prior = req[q].prior
    BY <1>2, HoldersPrior
  <2>1. CASE Holds(q, c)
    <3>1. req[q].pc \in Held /\ req[q].conv = c
      BY <2>1 DEF Holds
    <3>2. req'[q].input = req[q].input
      BY <3>1, InputStays DEF Held
    <3>3. Replayed(seen[c]) = Replayed(IF serving[c] = q THEN req[q].prior \o req[q].input ELSE req[q].prior)
      BY <2>1 DEF Shown, Spoken
    <3>4. ASSUME req'[q].pc = "rekey" PROVE serving'[c] = q /\ req'[q].step.by = q
      <4>1. CASE req'[q] = req[q]
        BY <1>2, <2>1, <3>4, <4>1 DEF Shown
      <4>2. CASE TakeStep(q)
        <5>1. PICK st : st = Head(steps[c])
          OBVIOUS
        <5>2. serving[c] = q /\ req' = [req EXCEPT ![q].pc = "rekey", ![q].step = st] /\ st.by = q
          BY <3>1, <4>2, <5>1, TakesItsOwn
        <5>3. req'[q].step = st
          BY <5>2, OwnRec DEF ReqRec
        <5> QED
          BY <5>2, <5>3
      <4> QED
        BY <3>4, <4>1, <4>2, AnswersFrom
    <3> QED
      BY <2>0, <3>2, <3>3, <3>4
  <2>2. CASE Takes(q, c)
    <3>1. req[q].pc = "lookup" /\ req[q].prior \in conv[c].keys
      BY <2>2 DEF Takes
    <3>2. \A r \in Requests : ~Holds(r, c)
      BY <2>2, TakenWasFree
    <3>3. Replayed(seen[c]) = Replayed(req[q].prior)
      BY <3>1, <3>2 DEF Shown
    <3>4. serving[c] # q
      BY <3>1 DEF Served, Answered, Requests
    <3>5. req'[q].pc # "rekey"
      BY <3>1, AnswersFrom DEF TakeStep, At
    <3> QED
      BY <2>0, <3>3, <3>4, <3>5
  <2> QED
    BY <1>2, <2>1, <2>2
<1> QED
  BY <1>1, <1>2 DEF Shown, Spoken

LEMMA ShownElse ==
    ASSUME TypeInv, Agree, Stories, Turning, Apart, KeysAgree, Served, [Next]_vars,
           NEW c \in Requests, PhaseAt(c), Shown(c),
           seen'[c] = seen[c], serving'[c] = serving[c],
           ~Open(c), \A r \in Requests : Rekey(r) => req[r].conv # c
    PROVE  Shown(c)'
<1>1. \A q \in Requests : Holds(q, c) => Holds(q, c)' \/ conv'[c].keys = {}
  BY LetGo DEF Holds
<1>2. conv'[c].keys \subseteq conv[c].keys
  <2>1. ASSUME NEW r \in Requests, Renews(r, c) PROVE conv'[c].keys = {}
    BY <1>1, <2>1 DEF Renews
  <2> QED
    BY <2>1, KeysFrom
<1>3. ASSUME NEW q \in Requests, Holds(q, c)' PROVE Holds(q, c) \/ Takes(q, c)
  <2> SUFFICES ASSUME Founds(c), q = c PROVE FALSE
    BY <1>3, HeldFrom
  <2>1. req[c].pc = "open"
    BY DEF Founds
  <2>2. req'[c].pc \in Held
    BY <1>3 DEF Holds
  <2> QED
    BY <2>1, <2>2, FoundedBy
<1> QED
  BY <1>1, <1>2, <1>3, ShownQuiet

LEMMA ShownOpened ==
    ASSUME TypeInv, Agree, SeenTypes, Served, [Next]_vars, NEW c \in Requests, Open(c)
    PROVE  Shown(c)'
<1>1. /\ req[c].pc = "open" /\ serving' = serving
      /\ seen' = [seen EXCEPT ![c] = req[c].prior]
      /\ \E p \in {"run", "supersede"} : \E v : req' = [req EXCEPT ![c].pc = p, ![c].conv = c, ![c].victims = v]
  BY Zenon DEF Open, At
<1>2. Founds(c)
  BY OpenFounds
<1>3. conv'[c].keys = {}
  BY <1>2 DEF Founds
<1>4. \A q \in Requests : Holds(q, c)' => q = c
  <2>1. \A q \in Requests : ~Holds(q, c)
    BY <1>1, FoundedWasFree DEF Holds, Early
  <2> QED
    BY <1>2, <2>1 DEF Founds
<1>5. req'[c].pc # "rekey" /\ req'[c].prior = req[c].prior
  BY <1>1, OwnRec DEF ReqRec
<1>6. serving'[c] # c
  BY <1>1 DEF Served, Answered, Requests
<1>7. seen'[c] = req[c].prior
  BY <1>1 DEF SeenTypes
<1> QED
  BY <1>3, <1>4, <1>5, <1>6, <1>7 DEF Shown, Spoken

LEMMA SameThen ==
    ASSUME NEW s \in Seq(Message), NEW p \in Seq(Message), NEW i \in Seq(Message), Replayed(s) = Replayed(p)
    PROVE  Replayed(s \o i) = Replayed(p \o i)
<1>1. PICK x, y : x = Replayed(s) /\ y = Replayed(i)
  OBVIOUS
<1>2. Replayed(s \o i) = x \o y
  BY <1>1, ReplayedJoins
<1>3. Replayed(p \o i) = x \o y
  BY <1>1, ReplayedJoins
<1> QED
  BY <1>2, <1>3

LEMMA ShownRekeyed ==
    ASSUME TypeInv, SeenTypes, Tidy, Sole, NEW r \in Requests, NEW c \in Requests, c = req[r].conv,
           Rekey(r), Shown(c)
    PROVE  Shown(c)'
<1>1. PICK e, w, s : e = <<Reply(r, req[r].step.ids)>> /\ w = req[r].prior \o req[r].input /\ s = seen[c]
  OBVIOUS
<1>2. /\ req[r].pc = "rekey" /\ req' = [req EXCEPT ![r].pc = "done"]
      /\ seen' = [seen EXCEPT ![c] = Append(@, Reply(r, req[r].step.ids))]
  BY Zenon DEF Rekey, At, Goto
<1>3. Holds(r, c)
  BY <1>2 DEF Holds, Held
<1>4. e \in Seq(Message) /\ w \in Seq(Message) /\ s \in Seq(Message)
  BY <1>1, OwnSpeech, ConcatProperties DEF SeenTypes
<1>5. seen'[c] = s \o e
  <2>1. PICK m : m = Reply(r, req[r].step.ids)
    OBVIOUS
  <2>2. m \in Message
    BY <2>1, OwnRec, Replies DEF ReqRec, Step
  <2>3. seen'[c] = Append(s, m)
    BY <1>1, <1>2, <2>1 DEF SeenTypes
  <2>4. Append(s, m) = s \o <<m>>
    BY <1>4, <2>2, AppendIsConcat
  <2> QED
    BY <1>1, <2>1, <2>3, <2>4
<1>6. Replayed(s) = Replayed(w)
  BY <1>1, <1>2, <1>3 DEF Shown, Spoken
<1>7. Replayed(s \o e) = Replayed(w \o e)
  BY <1>4, <1>6, SameThen
<1>8. conv'[c].keys = NewKeys(r) /\ \A q \in Requests : ~Holds(q, c)'
  <2>1. PICK d \in Requests : Renews(r, d)
    BY RekeyRenews
  <2>2. d = c
    BY <2>1 DEF Renews, Holds
  <2>3. \A q \in Requests : Holds(q, c)' => q = r
    BY <1>3, <2>1 DEF Renews, HoldsKept, Sole
  <2> QED
    BY <2>1, <2>2, <2>3 DEF Renews
<1>9. ASSUME NEW k \in conv'[c].keys PROVE Replayed(seen'[c]) = Replayed(k)
  <2>1. k \in NewKeys(r) /\ ReqTypes
    BY <1>8, <1>9 DEF TypeInv
  <2>2. Replayed(k) = Replayed((req[r].prior \o req[r].input) \o <<Reply(r, req[r].step.ids)>>)
    BY <2>1, KeyReplays
  <2> QED
    BY <1>1, <1>5, <1>7, <2>2
<1> QED
  BY <1>8, <1>9 DEF Shown

(* One that waits for a step with its input given to the process.           *)
LEMMA GivenShows ==
    ASSUME NEW r \in Requests, NEW c \in Requests, NEW p \in Seq(Message), NEW i \in Seq(Message),
           NEW s \in Seq(Message), Replayed(s) = Replayed(p),
           seen'[c] = s \o i, serving'[c] = r, req'[r].prior = p, req'[r].input = i, req'[r].pc = "wait",
           Holds(r, c)', \A q \in Requests : Holds(q, c)' => q = r
    PROVE  Shown(c)'
<1>1. Replayed(s \o i) = Replayed(p \o i)
  BY SameThen
<1>2. Spoken(r, c)' = p \o i
  BY DEF Spoken
<1>3. Replayed(seen'[c]) = Replayed(Spoken(r, c)')
  BY <1>1, <1>2
<1> QED
  BY <1>3 DEF Shown

LEMMA ShownRun ==
    ASSUME TypeInv, SeenTypes, Sole, Served, NEW r \in Requests, NEW c \in Requests, c = req[r].conv,
           AdvanceRun(r), Shown(c), ~(seen'[c] = seen[c] /\ serving'[c] = serving[c])
    PROVE  Shown(c)'
<1>1. PICK p, i, s : p = req[r].prior /\ i = req[r].input /\ s = seen[c]
  OBVIOUS
<1>2. /\ req[r].pc = "run" /\ req' = [req EXCEPT ![r].pc = "wait"]
      /\ seen' = [seen EXCEPT ![c] = @ \o req[r].input]
      /\ serving' = [serving EXCEPT ![c] = r]
  <2>1. \/ seen' = seen /\ serving' = serving
        \/ seen' = [seen EXCEPT ![c] = @ \o req[r].input] /\ serving' = [serving EXCEPT ![c] = r]
    BY DEF AdvanceRun
  <2> QED
    BY <2>1 DEF AdvanceRun, At, Goto
<1>3. p \in Seq(Message) /\ i \in Seq(Message) /\ s \in Seq(Message)
  BY <1>1, OwnSpeech DEF SeenTypes
<1>4. serving[c] # r /\ Holds(r, c)
  BY <1>2 DEF Served, Answered, Requests, Holds, Held
<1>5. Replayed(s) = Replayed(p)
  BY <1>1, <1>4 DEF Shown, Spoken
<1>6. seen'[c] = s \o i /\ serving'[c] = r
  BY <1>1, <1>2 DEF SeenTypes, TypeInv, LoopTypes
<1>7. /\ req'[r].pc = "wait" /\ req'[r].prior = p /\ req'[r].input = i /\ req'[r].conv = c
      /\ \A q \in Requests : q # r => req'[q] = req[q]
  BY <1>1, <1>2, OwnRec DEF ReqRec
<1>8. Holds(r, c)' /\ \A q \in Requests : Holds(q, c)' => q = r
  BY <1>4, <1>7 DEF Holds, Held, Sole
<1> QED
  BY <1>3, <1>5, <1>6, <1>7, <1>8, GivenShows

LEMMA ShownWakes ==
    ASSUME TypeInv, SeenTypes, Sole, NEW c \in Requests, ExecWakes(c), Shown(c), Owed(c)
    PROVE  Shown(c)'
<1>1. PICK m : m = Head(results[c])
  OBVIOUS
<1>2. /\ m.by \in Requests /\ results[c] # <<>> /\ req' = req /\ conv' = conv
      /\ seen'[c] = seen[c] \o m.input /\ serving'[c] = m.by
  BY <1>1, WakesFrom DEF SeenTypes, TypeInv, LoopTypes
<1>3. CASE Reached(c)
  <2>0. PICK r \in Requests : r = m.by
    BY <1>2
  <2>1. PICK p, i, s : r = m.by /\ p = req[r].prior /\ i = req[r].input /\ s = seen[c]
    BY <2>0
  <2>2. Waits(r, c) /\ m.input = i /\ serving[c] # r
    BY <1>1, <1>2, <1>3, <2>1 DEF Owed
  <2>3. p \in Seq(Message) /\ i \in Seq(Message) /\ s \in Seq(Message)
    BY <2>1, OwnSpeech DEF SeenTypes
  <2>4. Holds(r, c) /\ req[r].pc = "wait"
    BY <2>2 DEF Waits, Holds, Held
  <2>5. Replayed(s) = Replayed(p)
    BY <2>1, <2>2, <2>4 DEF Shown, Spoken
  <2>6. Holds(r, c)' /\ \A q \in Requests : Holds(q, c)' => q = r
    BY <1>2, <2>4 DEF Holds, Sole
  <2>7. seen'[c] = s \o i /\ serving'[c] = r /\ req'[r].prior = p /\ req'[r].input = i /\ req'[r].pc = "wait"
    BY <1>2, <2>1, <2>2, <2>4
  <2> QED
    BY <2>3, <2>5, <2>6, <2>7, GivenShows
<1>4. CASE ~Reached(c)
  BY <1>2, <1>4 DEF Reached, Shown, Holds
<1> QED
  BY <1>3, <1>4

LEMMA ShownStep ==
    ASSUME CareInv, PhaseInv, SeenInv, [Next]_vars
    PROVE  \A c \in Requests : Shown(c)'
<1>0. /\ TypeInv /\ Agree /\ Stories /\ Turning /\ Apart /\ KeysAgree /\ Sole
      /\ SeenTypes /\ Tidy /\ Served
      /\ \A d \in Requests : PhaseAt(d) /\ Shown(d) /\ Owed(d)
  BY DEF CareInv, Inv, HoldInv, PhaseInv, SeenInv
<1> SUFFICES ASSUME NEW c \in Requests PROVE Shown(c)'
  OBVIOUS
<1> DEFINE Untold == seen'[c] = seen[c] /\ serving'[c] = serving[c]
<1>1. CASE Untold
  <2>1. CASE Open(c)
    BY <1>0, <2>1, ShownOpened
  <2>2. ASSUME NEW r \in Requests, Rekey(r), req[r].conv = c PROVE Shown(c)'
    BY <1>0, <2>2, ShownRekeyed
  <2> QED
    BY <1>0, <1>1, <2>1, <2>2, ShownElse
<1>2. CASE Falls
  <2>1. conv' = [d \in Requests |-> NoConv] /\ ReqLost
    BY <1>0, <1>2, LostEffect, Zenon DEF Falls, Lost
  <2>2. conv'[c].keys = {} /\ \A q \in Requests : ~Holds(q, c)'
    BY <2>1 DEF NoConv, ReqLost, Holds, Held
  <2> QED
    BY <2>2 DEF Shown
<1>3. CASE SeenSame
  BY <1>1, <1>3 DEF SeenSame
<1>4. ASSUME NEW r \in Requests, Open(r) PROVE Shown(c)'
  <2>1. CASE r = c
    BY <1>0, <1>4, <2>1, ShownOpened
  <2>2. CASE r # c
    <3>1. serving' = serving /\ seen' = [seen EXCEPT ![r] = req[r].prior]
      BY <1>4, Zenon DEF Open
    <3>2. Untold
      BY <1>0, <2>2, <3>1 DEF SeenTypes
    <3> QED
      BY <1>1, <3>2
  <2> QED
    BY <2>1, <2>2
<1>5. ASSUME NEW r \in Requests, AdvancePush(r) PROVE Untold
  BY <1>0, <1>5, PushFrom
<1>6. ASSUME NEW r \in Requests, AdvanceRun(r) PROVE Shown(c)'
  <2>1. CASE req[r].conv = c
    BY <1>0, <1>1, <1>6, <2>1, ShownRun
  <2>2. CASE req[r].conv # c
    <3>1. FlowsAt(req[r].conv)
      BY <1>0, <1>6, HandlerAt
    <3>2. seen' = seen \/ \E s : seen' = [seen EXCEPT ![req[r].conv] = s]
      BY <1>6 DEF AdvanceRun
    <3>3. Untold
      BY <1>0, <2>2, <3>1, <3>2 DEF SeenTypes, FlowsAt
    <3> QED
      BY <1>1, <3>3
  <2> QED
    BY <2>1, <2>2
<1>7. ASSUME NEW r \in Requests, Rekey(r) PROVE Shown(c)'
  <2>1. CASE req[r].conv = c
    BY <1>0, <1>7, <2>1, ShownRekeyed
  <2>2. CASE req[r].conv # c
    <3>1. serving' = serving /\ \E s : seen' = [seen EXCEPT ![req[r].conv] = s]
      BY <1>7 DEF Rekey
    <3>2. Untold
      BY <1>0, <2>2, <3>1 DEF SeenTypes
    <3> QED
      BY <1>1, <3>2
  <2> QED
    BY <2>1, <2>2
<1>8. ASSUME NEW d \in Requests, ExecWakes(d) PROVE Shown(c)'
  <2>1. CASE d = c
    BY <1>0, <1>8, <2>1, ShownWakes
  <2>2. CASE d # c
    <3>1. PICK m : m = Head(results[d])
      OBVIOUS
    <3>2. seen' = [seen EXCEPT ![d] = @ \o m.input] /\ serving' = [serving EXCEPT ![d] = m.by]
      BY <1>0, <1>8, <3>1, WakesFrom
    <3>3. Untold
      BY <1>0, <2>2, <3>2 DEF SeenTypes, TypeInv, LoopTypes
    <3> QED
      BY <1>1, <3>3
  <2> QED
    BY <2>1, <2>2
<1> HIDE DEF Untold
<1> QED
  BY <1>0, <1>1, <1>2, <1>3, <1>4, <1>5, <1>6, <1>7, <1>8, SeenCases

(* Results that are in the channel are those of whoever waits.              *)
LEMMA OwedStays ==
    ASSUME TypeInv, Agree, Stories, Turning, Apart, KeysAgree, Sole, Served, [Next]_vars,
           NEW c \in Requests, PhaseAt(c), Owed(c), Reached(c), Reached(c)', results'[c] # <<>>,
           results'[c] = results[c]
    PROVE  Owed(c)'
<1>1. PICK m : m = Head(results[c])
  OBVIOUS
<1>2. results \in [Requests -> Seq(Answer)]
  BY DEF TypeInv, ChannelTypes
<1>3. m \in Answer
  BY <1>1, <1>2, HeadTailProperties
<1>4. PICK r \in Requests : r = m.by
  BY <1>3 DEF Answer
<1>5. Waits(r, c) /\ m.input = req[r].input /\ serving[c] # r
  BY <1>1, <1>4 DEF Owed
<1>6. req[r].pc = "wait" /\ req[r].conv = c /\ Holds(r, c)
  BY <1>5 DEF Waits, Holds, Held
<1>7. req'[r].input = req[r].input
  BY <1>6, InputStays
<1>8. Waits(r, c)'
  <2>1. ~TakeStep(r)
    BY <1>6, TakesItsOwn
  <2>2. ~Falls
    <3> SUFFICES ASSUME Falls PROVE FALSE
      OBVIOUS
    <3>1. results'[c] = <<>>
      BY DEF Falls, Lost
    <3> QED
      BY <3>1
  <2>3. ~TakeFailure(r)
    <3> SUFFICES ASSUME TakeFailure(r) PROVE FALSE
      OBVIOUS
    <3>1. CloseConv(c) /\ \E st : req' = [req EXCEPT ![r].pc = "done", ![r].step = st]
      BY <1>6, Zenon DEF TakeFailure, Respond
    <3>2. conv'[c].keys = {}
      BY <3>1, ClosingEffect
    <3>3. req'[r].pc = "done" /\ \A q \in Requests : q # r => req'[q] = req[q]
      BY <3>1, OwnRec DEF ReqRec
    <3>4. \A q \in Requests : ~Holds(q, c)'
      BY <1>6, <3>3 DEF Holds, Held, Sole
    <3> QED
      BY <3>2, <3>4 DEF Reached, Holds
  <2> QED
    BY <1>6, <2>1, <2>2, <2>3, WaitsFrom DEF Waits
<1>9. serving'[c] # r
  <2>1. CASE serving'[c] = serving[c]
    BY <1>5, <2>1
  <2>2. ASSUME NEW q \in Requests, AdvanceRun(q) PROVE serving'[c] = serving[c] \/ (q # r /\ serving'[c] = q)
    <3>1. req[q].pc = "run" /\ (serving' = serving \/ serving' = [serving EXCEPT ![req[q].conv] = q])
      BY <2>2, Zenon DEF AdvanceRun, At
    <3> QED
      BY <1>6, <3>1 DEF TypeInv, LoopTypes
  <2>3. ASSUME NEW d \in Requests, ExecWakes(d) PROVE serving'[c] = serving[c]
    <3>1. PICK x : x = Head(results[d])
      OBVIOUS
    <3>2. serving' = [serving EXCEPT ![d] = x.by] /\ results'[d] = <<>>
      BY <2>3, <3>1, WakesFrom
    <3> QED
      BY <3>2 DEF TypeInv, LoopTypes
  <2>4. ASSUME NEW q \in Requests, Open(q) \/ AdvancePush(q) \/ Rekey(q) PROVE serving' = serving
    BY <2>4, Zenon DEF Open, AdvancePush, Rekey
  <2>5. Falls => results'[c] = <<>>
    BY DEF Falls, Lost
  <2> QED
    BY <2>1, <2>2, <2>3, <2>4, <2>5, SeenCases DEF SeenSame
<1>10. m = Head(results'[c])
  BY <1>1
<1> QED
  BY <1>4, <1>5, <1>7, <1>8, <1>9, <1>10 DEF Owed

LEMMA PushOwes ==
    ASSUME TypeInv, Served, NEW r \in Requests, NEW c \in Requests, c = req[r].conv, AdvancePush(r)
    PROVE  Owed(c)'
<1>1. PICK m : m = [by |-> r, input |-> req[r].input]
  OBVIOUS
<1>2. /\ req[r].pc = "push" /\ results' = [results EXCEPT ![c] = <<m>>]
      /\ req' = [req EXCEPT ![r].pc = "wait"] /\ serving' = serving
  BY <1>1, PushFrom
<1>3. results'[c] = <<m>> /\ Head(<<m>>) = m
  BY <1>2 DEF TypeInv, ChannelTypes
<1>4. req'[r].pc = "wait" /\ req'[r].conv = c /\ req'[r].input = req[r].input
  BY <1>2, OwnRec DEF ReqRec
<1>5. serving[c] # r
  BY <1>2 DEF Served, Answered, Requests
<1>6. Head(results'[c]) = m /\ m.by = r /\ m.input = req[r].input
  BY <1>1, <1>3
<1> QED
  BY <1>2, <1>4, <1>5, <1>6 DEF Owed, Waits

LEMMA ResultsFrom ==
    ASSUME TypeInv, [Next]_vars, NEW c \in Requests
    PROVE  \/ results'[c] = results[c] \/ results'[c] = <<>>
           \/ \E r \in Requests : AdvancePush(r) /\ req[r].conv = c
<1> DEFINE Same == results'[c] = results[c] \/ results'[c] = <<>>
<1>1. ASSUME NEW r \in Requests, AdvancePush(r), req[r].conv # c PROVE Same
  BY <1>1, HandlerAt DEF FlowsAt
<1>2. ASSUME NEW d \in Requests, ExecWakes(d) PROVE Same
  <2>1. CASE d = c
    BY <1>2, <2>1, WakesFrom
  <2>2. CASE d # c
    BY <1>2, <2>2, LoopAt DEF FlowsAt
  <2> QED
    BY <2>1, <2>2
<1>3. ASSUME NEW r \in Requests, Open(r) \/ AdvanceRun(r) \/ Rekey(r) PROVE Same
  BY <1>3, Zenon DEF Open, AdvanceRun, Rekey
<1>4. Falls => Same
  BY DEF Falls, Lost
<1> QED
  BY <1>1, <1>2, <1>3, <1>4, SeenCases DEF SeenSame

LEMMA OwedStep ==
    ASSUME CareInv, PhaseInv, SeenInv, [Next]_vars
    PROVE  \A c \in Requests : Owed(c)'
<1>0. /\ TypeInv /\ Agree /\ Stories /\ Turning /\ Apart /\ KeysAgree /\ Sole /\ Unopened /\ Served
      /\ \A d \in Requests : PhaseAt(d) /\ Owed(d)
  BY DEF CareInv, Inv, HoldInv, CloseInv, PhaseInv, SeenInv
<1> SUFFICES ASSUME NEW c \in Requests PROVE Owed(c)'
  OBVIOUS
<1>1. ASSUME NEW r \in Requests, AdvancePush(r), req[r].conv = c PROVE Owed(c)'
  BY <1>0, <1>1, PushOwes
<1>2. CASE results'[c] = <<>> \/ ~Reached(c)'
  BY <1>2 DEF Owed
<1>3. CASE Reached(c)' /\ results'[c] # <<>> /\ results'[c] = results[c]
  <2>1. ~Founds(c)
    <3> SUFFICES ASSUME Founds(c) PROVE FALSE
      OBVIOUS
    <3>1. results[c] = <<>>
      BY <1>0 DEF Founds, Unopened, Early
    <3> QED
      BY <1>3, <3>1
  <2>2. Reached(c)
    BY <1>0, <1>3, <2>1, ReachedFrom
  <2> QED
    BY <1>0, <1>3, <2>2, OwedStays
<1> QED
  BY <1>0, <1>1, <1>2, <1>3, ResultsFrom

LEMMA InitSeen == Init => SeenInv
<1> SUFFICES ASSUME Init PROVE SeenInv
  OBVIOUS
<1>1. /\ \A r \in Requests : req[r].pc = "none" /\ req[r].input = <<>>
      /\ \A c \in Requests : conv[c].keys = {} /\ results[c] = <<>> /\ serving[c] = 0
      /\ seen = [c \in Requests |-> <<>>]
  BY DEF Init, NoReq, NoConv
<1>2. \A r, c \in Requests : ~Holds(r, c)
  BY <1>1 DEF Holds, Held
<1>3. SeenTypes
  BY <1>1, EmptySeq DEF SeenTypes
<1>4. Tidy
  <2>1. Len(<<>>) = 0
    OBVIOUS
  <2> QED
    BY <1>1, <2>1 DEF Tidy
<1> QED
  BY <1>1, <1>2, <1>3, <1>4 DEF SeenInv, Served, Shown, Owed

LEMMA NextSeen == CareInv /\ PhaseInv /\ SeenInv /\ [Next]_vars => SeenInv'
<1> SUFFICES ASSUME CareInv, PhaseInv, SeenInv, [Next]_vars PROVE SeenInv'
  OBVIOUS
<1>1. TypeInv /\ Agree /\ SeenTypes /\ Tidy /\ Served
  BY DEF CareInv, Inv, SeenInv
<1>2. SeenTypes' /\ Tidy' /\ Served'
  BY <1>1, SeenTypesStep, TidyStep, ServedStep
<1>3. \A c \in Requests : Shown(c)' /\ Owed(c)'
  BY ShownStep, OwedStep
<1> QED
  BY <1>2, <1>3 DEF SeenInv

LEMMA SeenMatches ==
    ASSUME CareInv, SeenInv
    PROVE  HistoryMatches
<1> SUFFICES ASSUME NEW r \in Requests, req[r].pc = "rekey"
             PROVE  /\ req[r].step.by = r
                    /\ Replayed(seen[req[r].conv]) = Replayed(req[r].prior \o req[r].input)
  BY DEF HistoryMatches
<1>1. PICK c : c = req[r].conv
  OBVIOUS
<1>2. c \in Requests
  BY <1>1, OwnRec DEF CareInv, Inv, Holding
<1>3. Holds(r, c)
  BY <1>1 DEF Holds, Held
<1>4. Replayed(seen[c]) = Replayed(Spoken(r, c)) /\ serving[c] = r /\ req[r].step.by = r
  BY <1>2, <1>3 DEF SeenInv, Shown
<1> QED
  BY <1>1, <1>4 DEF Spoken

(* When no client sends a request again that is still under way, a reply is *)
(* made for the request that gets it, and the process that made it had been *)
(* given what that request replays, in that order and nothing else, but for *)
(* the reminders the client has left out since: also when the conversation  *)
(* was picked up in the middle of a turn, or rebuilt from the history.      *)
(* (messages: main.go:635-640, 710-727; execute: 1074-1100.)                *)
THEOREM RepliesFitHistories == ~CanRetry => (Spec => []HistoryMatches)
<1> SUFFICES ASSUME ~CanRetry PROVE Spec => []HistoryMatches
  OBVIOUS
<1> DEFINE I == CareInv /\ PhaseInv /\ SeenInv
<1>1. Init => I
  BY InitCare, InitPhase, InitSeen
<1>2. I /\ [Next]_vars => I'
  BY NextCare, NextPhase, NextSeen
<1>3. I => HistoryMatches
  BY SeenMatches
<1> HIDE DEF I
<1> QED
  BY <1>1, <1>2, <1>3, PTL DEF Spec
=============================================================================
