--------------------------- MODULE ControlProofs ---------------------------
(***************************************************************************)
(* What the host's control requests guarantee for any number of requesters *)
(* and of ticks: the types, that the table of awaited replies holds only    *)
(* calls that are still in request, and that a reply reaches its own call   *)
(* when the clock moves between any two requests.                          *)
(***************************************************************************)
EXTENDS ControlRequests, SequenceTheorems, TLAPS

In(m, s) == \E i \in 1..Len(s) : s[i] = m

\* A request or its reply that is somewhere between the host and the process.
OnItsWay(m) == In(m, toCli) \/ m \in atProc \/ In(m, toHost)

(* The inductive invariant.  Everything under way was written with an id    *)
(* the clock has passed (Past), two calls in request have two ids (Apart),  *)
(* and so a message whose id is awaited is from the call that awaits it     *)
(* (Addressed), which makes what is in its channel its own (Delivered).     *)
Serials == \A r \in Requesters : rpc[r] # "out" => serial[r] # 0
Past ==
    /\ \A m \in Message : OnItsWay(m) => m.id < clock
    /\ \A r \in Requesters : rpc[r] # "out" => myId[r] < clock
Apart == \A q, r \in Requesters : rpc[q] # "out" /\ rpc[r] # "out" /\ myId[q] = myId[r] => q = r
Addressed == \A m \in Message : OnItsWay(m) /\ awaiting[m.id] # Nobody => m.from = awaiting[m.id]
Delivered == \A r \in Requesters : rpc[r] # "out" /\ chan[r] # <<>> => chan[r] = <<Mine(r)>>

Fine == Past /\ Apart /\ Addressed /\ Delivered /\ ReplyIsOwn
Inv == TypeOK /\ Serials /\ EntryIsLive /\ (FineClock => Fine)
-----------------------------------------------------------------------------
LEMMA InitInv == Init => Inv
<1> SUFFICES ASSUME Init PROVE Inv
  OBVIOUS
<1> USE ControlAssumption DEF Init, DuplexInit
<1>1. Nobody \in Calls
  BY DEF Calls
<1>2. 1 \in Ids
  BY DEF Ids
<1>3. TypeOK
  <2>1. chan = [r \in Requesters |-> <<>>]
    OBVIOUS
  <2>2. /\ toCli = <<>> /\ toHost = <<>> /\ life = "up" /\ clock = 1 /\ controls = 0 /\ atProc = {}
        /\ pipeClosed \in BOOLEAN /\ cut \in BOOLEAN /\ ended \in BOOLEAN
        /\ convClosed \in BOOLEAN /\ convDone \in BOOLEAN
    BY Zenon
  <2>3. <<>> \in Seq(Message) /\ 0 \in 0..MaxControls
    OBVIOUS
  <2>4. /\ awaiting = [id \in Ids |-> Nobody] /\ rpc = [r \in Requesters |-> "out"]
        /\ myId = [r \in Requesters |-> 1] /\ got = [r \in Requesters |-> Nobody]
    OBVIOUS
  <2>5. serial \in [Requesters -> 0..MaxTick]
    OBVIOUS
  <2> HIDE DEF Init
  <2>6. chan \in [Requesters -> {<<>>} \cup {<<c>> : c \in Calls}]
    BY <2>1, Zenon
  <2>7. /\ awaiting \in [Ids -> Calls] /\ rpc \in [Requesters -> {"out", "write", "wait", "leave"}]
        /\ myId \in [Requesters -> Ids] /\ got \in [Requesters -> Calls]
    BY <1>1, <1>2, <2>4, Zenon
  <2> QED
    BY <1>2, <2>2, <2>3, <2>5, <2>6, <2>7, Zenon DEF TypeOK, DuplexTypeOK
<1>4. Serials /\ EntryIsLive
  BY DEF Serials, EntryIsLive
<1>5. Fine
  BY DEF Fine, Past, Apart, Addressed, Delivered, ReplyIsOwn, OnItsWay, In
<1> QED
  BY <1>3, <1>4, <1>5 DEF Inv

(* ------------------------------- sequences ------------------------------ *)

LEMMA TailFits ==
    ASSUME NEW S, NEW s \in Seq(S), s # <<>>
    PROVE  /\ Tail(s) \in Seq(S) /\ Head(s) \in S /\ In(Head(s), s)
           /\ \A m : In(m, Tail(s)) => In(m, s)
<1>1. Tail(s) \in Seq(S) /\ Head(s) \in S /\ Len(s) > 0
  BY HeadTailProperties, EmptySeq
<1>2. Head(s) = s[1] /\ Len(Tail(s)) = Len(s) - 1 /\ \A i \in 1..Len(s) - 1 : Tail(s)[i] = s[i + 1]
  BY <1>1
<1> QED
  BY <1>1, <1>2, LenProperties DEF In

LEMMA AppendFits ==
    ASSUME NEW S, NEW s \in Seq(S), NEW e \in S
    PROVE  /\ Append(s, e) \in Seq(S)
           /\ \A m : In(m, Append(s, e)) => In(m, s) \/ m = e
  BY AppendProperties, LenProperties DEF In

LEMMA PrefixFits ==
    ASSUME NEW S, NEW s \in Seq(S), NEW k \in 0..Len(s)
    PROVE  /\ SubSeq(s, 1, k) \in Seq(S)
           /\ \A m : In(m, SubSeq(s, 1, k)) => In(m, s)
  BY ElementOfSeq, LenProperties, SubSeqProperties DEF In

(* -------------------------------- the duplex ---------------------------- *)

\* What a call has written to the process.
Request(r) == [id |-> myId[r], from |-> Mine(r)]
Control == [id |-> clock, from |-> Nobody]
Writes == {m \in Message : \/ m = Control /\ ControlSends
                           \/ \E r \in Requesters : rpc[r] = "write" /\ m = Request(r) /\ RequestWrites(r)}

LEMMA Written ==
    ASSUME TypeOK
    PROVE  /\ Control \in Message
           /\ \A r \in Requesters : rpc[r] = "write" /\ serial[r] # 0 => Request(r) \in Message
<1>1. Nobody \in Calls
  BY DEF Calls
<1>2. \A r \in Requesters : serial[r] # 0 => Mine(r) \in Calls
  BY ControlAssumption DEF TypeOK, Calls, Ids, Mine
<1> QED
  BY <1>1, <1>2 DEF TypeOK, Control, Request, Message

\* The one thing a step can do to what is under way: add what it writes.  All
\* else moves or is lost.
LEMMA DuplexEffect ==
    ASSUME TypeOK, Serials, [Next]_vars
    PROVE  /\ DuplexTypeOK(Message, Message)' /\ (atProc \subseteq Message)'
           /\ \A m : OnItsWay(m)' => OnItsWay(m) \/ m \in Writes
<1> USE DEF TypeOK, DuplexTypeOK, OnItsWay
<1>1. ASSUME NEW r \in Requesters, RequestWrites(r)
      PROVE  /\ DuplexTypeOK(Message, Message)' /\ (atProc \subseteq Message)'
             /\ \A m : OnItsWay(m)' => OnItsWay(m) \/ m \in Writes
  <2>1. CASE UNCHANGED duplexVars
    BY <1>1, <2>1 DEF RequestWrites, duplexVars
  <2>2. CASE WriteLine(Request(r))
    <3>1. Request(r) \in Message /\ Request(r) \in Writes
      BY <1>1, Written DEF RequestWrites, Serials, Writes
    <3>2. toCli' = Append(toCli, Request(r)) /\ UNCHANGED <<toHost, pipeClosed, cut, life, ended, atProc>>
      BY <1>1, <2>2 DEF RequestWrites, WriteLine
    <3>3. toCli' \in Seq(Message) /\ \A m : In(m, toCli') => In(m, toCli) \/ m = Request(r)
      BY <3>1, <3>2, AppendFits
    <3> HIDE DEF Request, In, Writes
    <3> QED
      BY <3>1, <3>2, <3>3
  <2> QED
    BY <1>1, <2>1, <2>2 DEF RequestWrites, WriteClosed, WriteBroken, Request
<1>2. CASE ControlSends
  <2>1. Control \in Message /\ Control \in Writes
    BY <1>2, Written DEF Writes
  <2>2. toCli' = Append(toCli, Control) /\ UNCHANGED <<toHost, pipeClosed, cut, life, ended, atProc>>
    BY <1>2 DEF ControlSends, WriteLine, Control
  <2>3. toCli' \in Seq(Message) /\ \A m : In(m, toCli') => In(m, toCli) \/ m = Control
    BY <2>1, <2>2, AppendFits
  <2> HIDE DEF Control, In, Writes
  <2> QED
    BY <2>1, <2>2, <2>3
<1>3. CASE ReadReply
  <2>1. toHost # <<>> /\ toHost' = Tail(toHost) /\ UNCHANGED <<toCli, pipeClosed, cut, life, ended, atProc>>
    BY <1>3 DEF ReadReply, TakeFrame
  <2>2. toHost' \in Seq(Message) /\ \A m : In(m, toHost') => In(m, toHost)
    BY <2>1, TailFits
  <2> QED
    BY <2>1, <2>2 DEF In
<1>4. CASE TransportStops
  <2>1. /\ toHost' = toHost \/ \E k \in 0..Len(toHost) : toHost' = SubSeq(toHost, 1, k)
        /\ toCli' = toCli /\ atProc' = atProc /\ pipeClosed' = pipeClosed /\ cut' = cut
        /\ life' \in {"up", "dead"} /\ ended' \in BOOLEAN
    BY <1>4 DEF TransportStops, Die, StopReading
  <2>2. CASE toHost' = toHost
    BY <2>1, <2>2 DEF In
  <2>3. ASSUME NEW k \in 0..Len(toHost), toHost' = SubSeq(toHost, 1, k)
        PROVE  toHost' \in Seq(Message) /\ \A m : In(m, toHost') => In(m, toHost)
    BY <2>3, PrefixFits
  <2> QED
    BY <2>1, <2>2, <2>3 DEF In
<1>5. CASE ProcReads
  <2>1. /\ toCli # <<>> /\ toCli' = Tail(toCli) /\ atProc' = atProc \cup {Head(toCli)}
        /\ UNCHANGED <<toHost, pipeClosed, cut, life, ended>>
    BY <1>5 DEF ProcReads, ReadLine
  <2>2. /\ toCli' \in Seq(Message) /\ Head(toCli) \in Message /\ In(Head(toCli), toCli)
        /\ \A m : In(m, toCli') => In(m, toCli)
    BY <2>1, TailFits
  <2> QED
    BY <2>1, <2>2 DEF In
<1>6. CASE ProcReplies
  <2>1. PICK m \in atProc : SendFrame(m) /\ atProc' = atProc \ {m}
    BY <1>6 DEF ProcReplies
  <2>2. UNCHANGED <<toCli, pipeClosed, cut, life, ended>>
    BY <1>6 DEF ProcReplies
  <2>3. toHost' \in Seq(Message) /\ \A n : In(n, toHost') => In(n, toHost) \/ n = m
    BY <2>1, AppendFits DEF SendFrame
  <2> QED
    BY <2>1, <2>2, <2>3 DEF In
<1>7. CASE Close
  BY <1>7 DEF Close, ClosePipe, Cut, duplexVars, tableVars, In
<1>8. CASE UNCHANGED <<duplexVars, atProc>>
  BY <1>8 DEF duplexVars, In
<1>9. ASSUME NEW r \in Requesters,
             RequestBegins(r) \/ RequestReplied(r) \/ RequestCancelled(r) \/ RequestLeaves(r)
      PROVE  UNCHANGED <<duplexVars, atProc>>
  BY <1>9 DEF RequestBegins, RequestReplied, RequestCancelled, RequestLeaves
<1>10. CASE UNCHANGED vars
  BY <1>8, <1>10 DEF vars
<1> HIDE DEF TypeOK, DuplexTypeOK, OnItsWay
<1> QED
  BY <1>1, <1>2, <1>3, <1>4, <1>5, <1>6, <1>7, <1>8, <1>9, <1>10 DEF Next, RequestOutlived

(* ------------------------------- the table ------------------------------ *)

LEMMA TypeStep ==
    ASSUME TypeOK, Serials, [Next]_vars
    PROVE  TypeOK' /\ Serials'
<1>1. DuplexTypeOK(Message, Message)' /\ (atProc \subseteq Message)'
  BY DuplexEffect
<1>2. Nobody \in Calls
  BY DEF Calls
<1>3. \A r \in Requesters : serial[r] + 1 \in Ids => [who |-> r, no |-> serial[r] + 1] \in Calls
  BY DEF Calls
<1> DEFINE Table == /\ clock \in Ids /\ controls \in 0..MaxControls
                    /\ convClosed \in BOOLEAN /\ convDone \in BOOLEAN
                    /\ awaiting \in [Ids -> Calls]
                    /\ chan \in [Requesters -> {<<>>} \cup {<<c>> : c \in Calls}]
                    /\ rpc \in [Requesters -> {"out", "write", "wait", "leave"}]
                    /\ myId \in [Requesters -> Ids]
                    /\ serial \in [Requesters -> 0..MaxTick]
                    /\ got \in [Requesters -> Calls]
<1>4. Table /\ Serials
  BY DEF TypeOK
<1>5. ASSUME NEW r \in Requesters, RequestBegins(r)
      PROVE  (Table /\ Serials)'
  <2>1. clock' \in Ids /\ serial[r] + 1 \in Ids
    BY <1>4, <1>5, ControlAssumption DEF RequestBegins, DrawId, Ids
  <2> QED
    BY <1>2, <1>3, <1>4, <1>5, <2>1, ControlAssumption DEF RequestBegins, Serials, Ids
<1>6. ASSUME NEW r \in Requesters, RequestWrites(r) \/ RequestCancelled(r)
      PROVE  (Table /\ Serials)'
  BY <1>4, <1>6 DEF RequestWrites, RequestCancelled, Serials
<1>7. ASSUME NEW r \in Requesters, RequestReplied(r)
      PROVE  (Table /\ Serials)'
  <2>1. chan[r][1] \in Calls
    BY <1>4, <1>7 DEF RequestReplied
  <2> QED
    BY <1>4, <1>7, <2>1 DEF RequestReplied, Serials
<1>8. ASSUME NEW r \in Requesters, RequestLeaves(r)
      PROVE  (Table /\ Serials)'
  BY <1>2, <1>4, <1>8 DEF RequestLeaves, Serials
<1>9. ASSUME ControlSends
      PROVE  (Table /\ Serials)'
  BY <1>4, <1>9, ControlAssumption DEF ControlSends, DrawId, Ids, Serials
<1>10. ASSUME ReadReply
      PROVE  (Table /\ Serials)'
  <2>1. Head(toHost) \in Message
    BY <1>10, TailFits DEF ReadReply, TakeFrame, TypeOK, DuplexTypeOK
  <2>2. Head(toHost).from \in Calls
    BY <2>1 DEF Message
  <2> QED
    BY <1>4, <1>10, <2>2 DEF ReadReply, Serials
<1>11. ASSUME Close
      PROVE  (Table /\ Serials)'
  BY <1>4, <1>11 DEF Close, tableVars, Serials
<1>12. ASSUME TransportStops \/ ProcReads \/ ProcReplies \/ UNCHANGED vars
      PROVE  (Table /\ Serials)'
  BY <1>4, <1>12 DEF TransportStops, ProcReads, ProcReplies, vars, tableVars, Serials
<1>13. (Table /\ Serials)'
  <2> HIDE DEF Table
  <2> QED
    BY <1>5, <1>6, <1>7, <1>8, <1>9, <1>10, <1>11, <1>12 DEF Next, RequestOutlived
<1> QED
  BY <1>1, <1>13 DEF TypeOK

(* ------------------------- effects of a step ---------------------------- *)

\* What a step does to a requester that it does not start.
Keeps(r) ==
    /\ serial'[r] = serial[r] /\ myId'[r] = myId[r]
    /\ rpc'[r] # "out" => rpc[r] # "out"
    /\ rpc'[r] = "out" /\ rpc[r] # "out" => awaiting'[myId[r]] = Nobody
    /\ \/ got'[r] = got[r]
       \/ rpc[r] = "wait" /\ chan[r] # <<>> /\ got'[r] = chan[r][1]
    /\ \/ chan'[r] \in {chan[r], <<>>}
       \/ toHost # <<>> /\ awaiting[Head(toHost).id] = Mine(r) /\ chan'[r] = <<Head(toHost).from>>

LEMMA RequesterEffect ==
    ASSUME TypeOK, [Next]_vars, NEW r \in Requesters
    PROVE  RequestBegins(r) \/ Keeps(r)
<1> USE DEF TypeOK, Keeps
<1>1. ASSUME NEW q \in Requesters, RequestBegins(q), q # r
      PROVE  Keeps(r)
  BY <1>1 DEF RequestBegins
<1>2. ASSUME NEW q \in Requesters, RequestWrites(q) \/ RequestCancelled(q)
      PROVE  Keeps(r)
  BY <1>2 DEF RequestWrites, RequestCancelled
<1>3. ASSUME NEW q \in Requesters, RequestReplied(q)
      PROVE  Keeps(r)
  BY <1>3 DEF RequestReplied
<1>4. ASSUME NEW q \in Requesters, RequestLeaves(q)
      PROVE  Keeps(r)
  BY <1>4 DEF RequestLeaves
<1>5. CASE ReadReply
  <2>1. chan'[r] = IF awaiting[Head(toHost).id] = Mine(r) /\ chan[r] = <<>> THEN <<Head(toHost).from>> ELSE chan[r]
    BY <1>5 DEF ReadReply
  <2> QED
    BY <1>5, <2>1 DEF ReadReply, TakeFrame
<1>6. CASE ControlSends
  BY <1>6 DEF ControlSends
<1>7. CASE Close \/ TransportStops \/ ProcReads \/ ProcReplies \/ UNCHANGED vars
  BY <1>7 DEF Close, TransportStops, ProcReads, ProcReplies, vars, tableVars
<1> HIDE DEF TypeOK, Keeps
<1> QED
  BY <1>1, <1>2, <1>3, <1>4, <1>5, <1>6, <1>7 DEF Next, RequestOutlived

\* A call that starts is the only one that does.
LEMMA BeginsEffect ==
    ASSUME TypeOK, NEW r \in Requesters, RequestBegins(r)
    PROVE  /\ rpc[r] = "out" /\ rpc'[r] = "write"
           /\ myId'[r] = clock /\ chan'[r] = <<>> /\ got'[r] = Nobody
           /\ \A id \in Ids : awaiting'[id] = IF id = clock THEN Mine(r)' ELSE awaiting[id]
           /\ FineClock => clock' = clock + 1
           /\ \A q \in Requesters \ {r} : rpc'[q] = rpc[q] /\ myId'[q] = myId[q]
  BY DEF TypeOK, RequestBegins, DrawId, Mine

LEMMA TableEffect ==
    ASSUME TypeOK, [Next]_vars, NEW id \in Ids
    PROVE  \/ awaiting'[id] \in {awaiting[id], Nobody}
           \/ id = clock /\ \E r \in Requesters : RequestBegins(r)
<1>1. ASSUME NEW r \in Requesters, RequestBegins(r)
      PROVE  id # clock => awaiting'[id] = awaiting[id]
  BY <1>1, BeginsEffect
<1>2. ASSUME NEW r \in Requesters, RequestLeaves(r)
      PROVE  awaiting'[id] \in {awaiting[id], Nobody}
  BY <1>2 DEF RequestLeaves, TypeOK
<1>3. ASSUME \/ \E r \in Requesters : RequestWrites(r) \/ RequestReplied(r) \/ RequestCancelled(r)
             \/ ControlSends \/ ReadReply \/ Close \/ TransportStops \/ ProcReads \/ ProcReplies
             \/ UNCHANGED vars
      PROVE  awaiting' = awaiting
  BY <1>3 DEF RequestWrites, RequestReplied, RequestCancelled, ControlSends, ReadReply, Close,
     TransportStops, ProcReads, ProcReplies, vars, tableVars
<1> QED
  BY <1>1, <1>2, <1>3 DEF Next, RequestOutlived

LEMMA ClockStep ==
    ASSUME TypeOK, [Next]_vars
    PROVE  clock' \in Nat /\ clock' >= clock
<1> USE ControlAssumption DEF TypeOK, Ids
<1>1. ASSUME NEW r \in Requesters, RequestBegins(r)
      PROVE  clock' \in Nat /\ clock' >= clock
  BY <1>1 DEF RequestBegins, DrawId
<1>2. CASE ControlSends
  BY <1>2 DEF ControlSends, DrawId
<1>3. ASSUME \/ \E r \in Requesters : RequestWrites(r) \/ RequestReplied(r) \/ RequestCancelled(r) \/ RequestLeaves(r)
             \/ ReadReply \/ Close \/ TransportStops \/ ProcReads \/ ProcReplies
             \/ UNCHANGED vars
      PROVE  clock' = clock
  BY <1>3 DEF RequestWrites, RequestReplied, RequestCancelled, RequestLeaves, ReadReply, Close,
     TransportStops, ProcReads, ProcReplies, vars, tableVars
<1> QED
  BY <1>1, <1>2, <1>3 DEF Next, RequestOutlived

(* ------------------------------ the invariant --------------------------- *)

LEMMA EntryStep ==
    ASSUME TypeOK, EntryIsLive, [Next]_vars
    PROVE  EntryIsLive'
<1> SUFFICES ASSUME NEW id \in Ids, awaiting'[id] # Nobody
             PROVE  \E r \in Requesters : awaiting'[id] = Mine(r)' /\ rpc'[r] # "out" /\ myId'[r] = id
  BY DEF EntryIsLive
<1>1. CASE awaiting'[id] = awaiting[id] /\ ~(\E r \in Requesters : RequestBegins(r) /\ id = clock)
  <2>1. PICK r \in Requesters : awaiting[id] = Mine(r) /\ rpc[r] # "out" /\ myId[r] = id
    BY <1>1 DEF EntryIsLive
  <2>2. Keeps(r)
    BY <2>1, RequesterEffect, BeginsEffect
  <2> QED
    BY <1>1, <2>1, <2>2 DEF Keeps, Mine
<1>2. ASSUME NEW r \in Requesters, RequestBegins(r), id = clock
      PROVE  awaiting'[id] = Mine(r)' /\ rpc'[r] # "out" /\ myId'[r] = id
  BY <1>2, BeginsEffect
<1> QED
  BY <1>1, <1>2, TableEffect

LEMMA PastStep ==
    ASSUME FineClock, Inv, [Next]_vars
    PROVE  Past'
<1>1. clock \in Nat /\ clock' \in Nat /\ clock' >= clock
  BY ClockStep, ControlAssumption DEF Inv, TypeOK, Ids
<1>2. \A m \in Message : m.id \in Nat
  BY ControlAssumption DEF Message, Ids
<1>3. ASSUME NEW m \in Message, OnItsWay(m)'
      PROVE  m.id < clock'
  <2>1. CASE OnItsWay(m)
    BY <1>1, <1>2, <2>1 DEF Inv, Fine, Past
  <2>2. CASE m = Control /\ ControlSends
    BY <1>1, <2>2 DEF Control, ControlSends, DrawId
  <2>3. ASSUME NEW r \in Requesters, rpc[r] = "write", m = Request(r)
        PROVE  m.id < clock'
    BY <1>1, <1>2, <2>3 DEF Inv, Fine, Past, Request
  <2> QED
    BY <1>3, <2>1, <2>2, <2>3, DuplexEffect DEF Inv, Writes
<1>4. ASSUME NEW r \in Requesters, rpc'[r] # "out"
      PROVE  myId'[r] < clock'
  <2>1. CASE RequestBegins(r)
    BY <1>1, <2>1, BeginsEffect DEF Inv
  <2>2. CASE Keeps(r)
    <3>1. myId[r] < clock /\ myId[r] \in Nat
      BY <1>4, <2>2, ControlAssumption DEF Keeps, Inv, Fine, Past, TypeOK, Ids
    <3> QED
      BY <1>1, <2>2, <3>1 DEF Keeps
  <2> QED
    BY <2>1, <2>2, RequesterEffect DEF Inv
<1> QED
  BY <1>3, <1>4 DEF Past

LEMMA ApartStep ==
    ASSUME FineClock, Inv, [Next]_vars
    PROVE  Apart'
<1>1. ASSUME NEW q \in Requesters, NEW r \in Requesters, RequestBegins(r), q # r, rpc'[q] # "out"
      PROVE  myId'[q] # myId'[r]
  <2>1. rpc[q] # "out" /\ myId'[q] = myId[q] /\ myId'[r] = clock
    BY <1>1, BeginsEffect DEF Inv
  <2>2. myId[q] < clock /\ myId[q] \in Nat /\ clock \in Nat
    BY <2>1, ControlAssumption DEF Inv, Fine, Past, TypeOK, Ids
  <2> QED
    BY <2>1, <2>2
<1>2. ASSUME NEW q \in Requesters, NEW r \in Requesters, Keeps(q), Keeps(r),
             rpc'[q] # "out", rpc'[r] # "out", myId'[q] = myId'[r]
      PROVE  q = r
  BY <1>2 DEF Keeps, Inv, Fine, Apart
<1> QED
  BY <1>1, <1>2, RequesterEffect DEF Inv, Apart

LEMMA AddressedStep ==
    ASSUME FineClock, Inv, [Next]_vars
    PROVE  Addressed'
<1> SUFFICES ASSUME NEW m \in Message, OnItsWay(m)', awaiting'[m.id] # Nobody
             PROVE  m.from = awaiting'[m.id]
  BY DEF Addressed
<1>1. m.id \in Ids
  BY DEF Message
<1>2. \A r \in Requesters : rpc[r] # "out" => myId[r] # clock
  BY ControlAssumption DEF Inv, Fine, Past, TypeOK, Ids
<1>3. CASE m \in Writes
  <2>1. awaiting'[m.id] = awaiting[m.id]
    BY <1>3 DEF Writes, ControlSends, RequestWrites
  <2>2. PICK q \in Requesters : awaiting[m.id] = Mine(q) /\ rpc[q] # "out" /\ myId[q] = m.id
    BY <1>1, <2>1 DEF Inv, EntryIsLive
  <2>3. m # Control
    BY <1>2, <2>2 DEF Control
  <2>4. PICK r \in Requesters : rpc[r] = "write" /\ m = Request(r)
    BY <1>3, <2>3 DEF Writes
  <2>5. q = r
    BY <2>2, <2>4 DEF Request, Inv, Fine, Apart
  <2> QED
    BY <2>1, <2>2, <2>4, <2>5 DEF Request
<1>4. CASE OnItsWay(m)
  <2>1. m.id # clock
    BY <1>4, ControlAssumption DEF Inv, Fine, Past, TypeOK, Ids, Message
  <2>2. awaiting'[m.id] = awaiting[m.id]
    BY <1>1, <2>1, TableEffect DEF Inv
  <2> QED
    BY <1>4, <2>2 DEF Inv, Fine, Addressed
<1> QED
  BY <1>3, <1>4, DuplexEffect DEF Inv

LEMMA DeliveredStep ==
    ASSUME FineClock, Inv, [Next]_vars
    PROVE  Delivered' /\ ReplyIsOwn'
<1> SUFFICES ASSUME NEW r \in Requesters
             PROVE  /\ rpc'[r] # "out" /\ chan'[r] # <<>> => chan'[r] = <<Mine(r)'>>
                    /\ got'[r] # Nobody => got'[r] = Mine(r)'
  BY DEF Delivered, ReplyIsOwn
<1>1. CASE RequestBegins(r)
  BY <1>1, BeginsEffect DEF Inv
<1>2. CASE Keeps(r)
  <2>1. Mine(r)' = Mine(r)
    BY <1>2 DEF Keeps, Mine
  <2>2. rpc[r] # "out" /\ chan[r] # <<>> => chan[r] = <<Mine(r)>>
    BY DEF Inv, Fine, Delivered
  <2>3. ASSUME rpc[r] # "out", toHost # <<>>, awaiting[Head(toHost).id] = Mine(r)
        PROVE  Head(toHost).from = Mine(r)
    <3>1. Head(toHost) \in Message /\ OnItsWay(Head(toHost))
      BY <2>3, TailFits DEF Inv, TypeOK, DuplexTypeOK, OnItsWay
    <3>2. Mine(r) # Nobody
      BY <2>3 DEF Inv, Serials, Mine, Nobody
    <3> QED
      BY <2>3, <3>1, <3>2 DEF Inv, Fine, Addressed
  <2>4. rpc'[r] # "out" /\ chan'[r] # <<>> => chan'[r] = <<Mine(r)>>
    BY <1>2, <2>2, <2>3 DEF Keeps
  <2>5. got'[r] # Nobody => got'[r] = Mine(r)
    <3>1. got[r] # Nobody => got[r] = Mine(r)
      BY DEF Inv, Fine, ReplyIsOwn
    <3>2. rpc[r] = "wait" /\ chan[r] # <<>> => chan[r][1] = Mine(r)
      BY <2>2
    <3> QED
      BY <1>2, <3>1, <3>2 DEF Keeps
  <2> QED
    BY <2>1, <2>4, <2>5
<1> QED
  BY <1>1, <1>2, RequesterEffect DEF Inv

LEMMA NextInv == Inv /\ [Next]_vars => Inv'
<1> SUFFICES ASSUME Inv, [Next]_vars PROVE Inv'
  OBVIOUS
<1>1. TypeOK' /\ Serials'
  BY TypeStep DEF Inv
<1>2. EntryIsLive'
  BY EntryStep DEF Inv
<1>3. FineClock => Fine'
  BY PastStep, ApartStep, AddressedStep, DeliveredStep DEF Fine
<1> QED
  BY <1>1, <1>2, <1>3 DEF Inv

LEMMA ControlInvariant == Spec => []Inv
  BY InitInv, NextInv, PTL DEF Spec

(* TypeOK: the table, the channels and the messages of the host's requests  *)
(* have their types. *)
THEOREM ControlTypeCorrect == Spec => []TypeOK
<1>1. Inv => TypeOK
  BY DEF Inv
<1> QED
  BY <1>1, ControlInvariant, PTL

(* EntryIsLive: c.awaiting holds only the channels of calls that are still *)
(* in request, whatever the clock does (controls.go:36-46). *)
THEOREM TableDoesNotLeak == Spec => []EntryIsLive
<1>1. Inv => EntryIsLive
  BY DEF Inv
<1> QED
  BY <1>1, ControlInvariant, PTL

(* ReplyIsOwn: with a clock that moves between any two requests, request    *)
(* returns the reply to what it wrote (controls.go:32). *)
THEOREM RepliesComeHome == FineClock => (Spec => []ReplyIsOwn)
<1> SUFFICES ASSUME FineClock PROVE Spec => []ReplyIsOwn
  OBVIOUS
<1>1. Inv => ReplyIsOwn
  BY DEF Inv, Fine
<1> QED
  BY <1>1, ControlInvariant, PTL
=============================================================================
