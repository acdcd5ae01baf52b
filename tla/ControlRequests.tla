--------------------------- MODULE ControlRequests ---------------------------
(***************************************************************************)
(* external/claudecode: control requests from the host to the process.     *)
(* request (MCPStatus, SetMCPServers, RewindFiles) waits for the reply;    *)
(* control (Interrupt, SetModel, ...) does not.  Replies come back through *)
(* the read loop, which finds the waiting goroutine in c.awaiting by the   *)
(* request's id.  An id is the clock's reading (requestID), so that two    *)
(* requests made on the same tick share it.                                *)
(*                                                                         *)
(* The process (external) answers each request once, in any order.         *)
(***************************************************************************)
EXTENDS Duplex, FiniteSets

CONSTANTS Requesters,   \* goroutines that call request
          MaxTick,      \* bound on the clock
          MaxControls,  \* bound on the requests sent by control
          FineClock     \* TRUE: the clock moves between any two requests

ASSUME ControlAssumption == MaxTick \in Nat \ {0} /\ MaxControls \in Nat

VARIABLES
    clock,              \* time.Now, in ticks of its resolution
    controls,           \* how many requests control has sent
    convClosed,         \* c.closed
    convDone,           \* c.ctx is done
    awaiting,           \* c.awaiting: the call whose channel each id files
    chan,               \* the reply in each requester's channel
    rpc,                \* where each requester is in request
    myId,               \* the id it drew
    serial,             \* history: which of its calls this is
    got,                \* history: whose reply its last call returned
    atProc              \* requests the process has read and not answered

tableVars == <<clock, controls, awaiting, chan, rpc, myId, serial, got>>
vars == <<tableVars, convClosed, convDone, atProc, duplexVars>>

Ids    == 1..MaxTick
Nobody == [who |-> "nobody", no |-> 0]
Calls  == [who : Requesters, no : Ids] \cup {Nobody}

(* A line to the process and its reply: the id, and, as history, the call  *)
(* it was made by.                                                         *)
Message == [id : Ids, from : Calls]

Mine(r) == [who |-> r, no |-> serial[r]]

TypeOK ==
    /\ DuplexTypeOK(Message, Message)
    /\ clock \in Ids
    /\ controls \in 0..MaxControls
    /\ convClosed \in BOOLEAN /\ convDone \in BOOLEAN
    /\ awaiting \in [Ids -> Calls]
    /\ chan \in [Requesters -> {<<>>} \cup {<<c>> : c \in Calls}]
    /\ rpc \in [Requesters -> {"out", "write", "wait", "leave"}]
    /\ myId \in [Requesters -> Ids]
    /\ serial \in [Requesters -> 0..MaxTick]
    /\ got \in [Requesters -> Calls]
    /\ atProc \subseteq Message

Init ==
    /\ DuplexInit
    /\ clock = 1
    /\ controls = 0
    /\ convClosed = FALSE /\ convDone = FALSE
    /\ awaiting = [id \in Ids |-> Nobody]
    /\ chan = [r \in Requesters |-> <<>>]
    /\ rpc = [r \in Requesters |-> "out"]
    /\ myId = [r \in Requesters |-> 1]
    /\ serial = [r \in Requesters |-> 0]
    /\ got = [r \in Requesters |-> Nobody]
    /\ atProc = {}

(* requestID reads the clock; by the next reading it has moved on, if it   *)
(* is fine enough.                                                         *)
DrawId ==
    /\ clock < MaxTick
    /\ clock' \in IF FineClock THEN {clock + 1} ELSE {clock, clock + 1}
-----------------------------------------------------------------------------
(* Broken: the channel of the last call is used again. *)
RequestBeginsOldChannel(r) ==
    /\ rpc[r] = "out"
    /\ ~convClosed
    /\ serial[r] < MaxTick
    /\ DrawId
    /\ serial' = [serial EXCEPT ![r] = @ + 1]
    /\ myId' = [myId EXCEPT ![r] = clock]
    /\ awaiting' = [awaiting EXCEPT ![clock] = [who |-> r, no |-> serial[r] + 1]]
    /\ got' = [got EXCEPT ![r] = Nobody]
    /\ rpc' = [rpc EXCEPT ![r] = "write"]
    /\ UNCHANGED <<controls, chan, convClosed, convDone, atProc, duplexVars>>

(* request: the critical section that files the channel. *)
RequestBegins(r) ==
    /\ rpc[r] = "out"
    /\ ~convClosed
    /\ serial[r] < MaxTick
    /\ DrawId
    /\ serial' = [serial EXCEPT ![r] = @ + 1]
    /\ myId' = [myId EXCEPT ![r] = clock]
    /\ awaiting' = [awaiting EXCEPT ![clock] = [who |-> r, no |-> serial[r] + 1]]
    /\ chan' = [chan EXCEPT ![r] = <<>>]
    /\ got' = [got EXCEPT ![r] = Nobody]
    /\ rpc' = [rpc EXCEPT ![r] = "write"]
    /\ UNCHANGED <<controls, convClosed, convDone, atProc, duplexVars>>

RequestWrites(r) ==
    /\ rpc[r] = "write"
    /\ \/ WriteLine([id |-> myId[r], from |-> Mine(r)]) /\ rpc' = [rpc EXCEPT ![r] = "wait"]
       \/ (WriteClosed \/ WriteBroken) /\ rpc' = [rpc EXCEPT ![r] = "leave"]
    /\ UNCHANGED <<clock, controls, awaiting, chan, myId, serial, got, convClosed, convDone, atProc>>

(* The select.  The reply: *)
RequestReplied(r) ==
    /\ rpc[r] = "wait"
    /\ chan[r] # <<>>
    /\ got' = [got EXCEPT ![r] = chan[r][1]]
    /\ chan' = [chan EXCEPT ![r] = <<>>]
    /\ rpc' = [rpc EXCEPT ![r] = "leave"]
    /\ UNCHANGED <<clock, controls, awaiting, myId, serial, convClosed, convDone, atProc, duplexVars>>

(* The caller's context, which may be cancelled at any time: *)
RequestCancelled(r) ==
    /\ rpc[r] = "wait"
    /\ rpc' = [rpc EXCEPT ![r] = "leave"]
    /\ UNCHANGED <<clock, controls, awaiting, chan, myId, serial, got, convClosed, convDone, atProc,
                   duplexVars>>

(* The conversation's: *)
RequestOutlived(r) == convDone /\ RequestCancelled(r)

(* Broken: no delete, and: the whole table is emptied. *)
RequestLeavesEntry(r) ==
    /\ rpc[r] = "leave"
    /\ rpc' = [rpc EXCEPT ![r] = "out"]
    /\ UNCHANGED <<clock, controls, awaiting, chan, myId, serial, got, convClosed, convDone, atProc,
                   duplexVars>>

RequestLeavesNothing(r) ==
    /\ rpc[r] = "leave"
    /\ awaiting' = [id \in Ids |-> Nobody]
    /\ rpc' = [rpc EXCEPT ![r] = "out"]
    /\ UNCHANGED <<clock, controls, chan, myId, serial, got, convClosed, convDone, atProc, duplexVars>>

(* The deferred delete, and the return. *)
RequestLeaves(r) ==
    /\ rpc[r] = "leave"
    /\ awaiting' = [awaiting EXCEPT ![myId[r]] = Nobody]
    /\ rpc' = [rpc EXCEPT ![r] = "out"]
    /\ UNCHANGED <<clock, controls, chan, myId, serial, got, convClosed, convDone, atProc, duplexVars>>

(* control, and the handshake: nobody waits for the reply.  c.mu is not    *)
(* held from control's look at closed to its write, so that the write may  *)
(* still come after a Close that began in between.                         *)
ControlSends ==
    /\ controls < MaxControls
    /\ controls' = controls + 1
    /\ DrawId
    /\ WriteLine([id |-> clock, from |-> Nobody])
    /\ UNCHANGED <<awaiting, chan, rpc, myId, serial, got, convClosed, convDone, atProc>>

(* onControlResponse: the reply goes to the channel filed under its id; it *)
(* is dropped when there is none, or when the channel is full.             *)
ReadReply ==
    /\ TakeFrame
    /\ LET reply == Head(toHost) IN
       chan' = [r \in Requesters |->
                   IF awaiting[reply.id] = Mine(r) /\ chan[r] = <<>>
                   THEN <<reply.from>> ELSE chan[r]]
    /\ UNCHANGED <<clock, controls, awaiting, rpc, myId, serial, got, convClosed, convDone, atProc>>
-----------------------------------------------------------------------------
(* Conversation.Close, and the transport going down with the process.      *)
Close ==
    /\ \/ ~convClosed /\ convClosed' = TRUE /\ UNCHANGED <<convDone, duplexVars>>
       \/ convClosed /\ ~convDone /\ convDone' = TRUE /\ UNCHANGED <<convClosed, duplexVars>>
       \/ convDone /\ ClosePipe /\ UNCHANGED <<convClosed, convDone>>
       \/ pipeClosed /\ ~cut /\ Cut /\ UNCHANGED <<convClosed, convDone>>
    /\ UNCHANGED <<tableVars, atProc>>

TransportStops ==
    /\ (cut /\ Die) \/ StopReading
    /\ UNCHANGED <<tableVars, convClosed, convDone, atProc>>

ProcReads ==
    /\ ReadLine
    /\ atProc' = atProc \cup {Head(toCli)}
    /\ UNCHANGED <<toHost, pipeClosed, cut, life, ended, tableVars, convClosed, convDone>>

ProcReplies ==
    /\ \E req \in atProc : SendFrame(req) /\ atProc' = atProc \ {req}
    /\ UNCHANGED <<toCli, pipeClosed, cut, life, ended, tableVars, convClosed, convDone>>

Next ==
    \/ \E r \in Requesters :
          \/ RequestBegins(r) \/ RequestWrites(r) \/ RequestReplied(r)
          \/ RequestCancelled(r) \/ RequestOutlived(r) \/ RequestLeaves(r)
    \/ ControlSends \/ ReadReply \/ Close \/ TransportStops
    \/ ProcReads \/ ProcReplies

Spec == Init /\ [][Next]_vars

(* The host's goroutines run, the process answers what it reads; nobody    *)
(* has to cancel or close.                                                 *)
Fairness ==
    /\ \A r \in Requesters :
          /\ WF_vars(RequestWrites(r) \/ RequestReplied(r) \/ RequestLeaves(r))
          /\ WF_vars(RequestOutlived(r))
    /\ WF_vars(ReadReply) /\ WF_vars(ProcReads) /\ WF_vars(ProcReplies)
    /\ WF_vars(convClosed /\ Close)

FairSpec == Spec /\ Fairness
-----------------------------------------------------------------------------
(* What request returns is the reply to what it wrote (controls.go:32),    *)
(* not one to a call given up before it nor to another goroutine's.        *)
ReplyIsOwn ==
    \A r \in Requesters : got[r] # Nobody => got[r] = Mine(r)

(* The table does not leak: an entry is that of a call still in request.   *)
EntryIsLive ==
    \A id \in Ids : awaiting[id] # Nobody =>
        \E r \in Requesters :
            /\ awaiting[id] = Mine(r)
            /\ rpc[r] # "out"
            /\ myId[r] = id

(* A request that waits comes back: no reply is lost between the threads.  *)
RequestReturns ==
    \A r \in Requesters : rpc[r] = "wait" ~> rpc[r] = "out"
=============================================================================
