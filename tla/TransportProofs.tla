--------------------------- MODULE TransportProofs ---------------------------
(***************************************************************************)
(* What the transport guarantees for any number of writers and closers and *)
(* any size of the pipes and of the channel.                               *)
(***************************************************************************)
EXTENDS Transport, SequenceTheorems, TLAPS

(* p.mu is a mutex, and Close is past it only once closed is set. *)
Exclusive ==
    /\ \A w \in Writers : wpc[w] = "writing" => mu = w
    /\ \A k \in Closers : kpc[k] = "stdin" => pipeClosed

(* The reader ends only when the context is cancelled, when it has refused *)
(* a line, or when a dead process has been read to its end, and the        *)
(* process is reaped after that.                                           *)
ReadToTheEnd ==
    /\ rpc = "last" => held = ErrFrame
    /\ rpc = "done" => cut \/ held = ErrFrame \/ (life = "dead" /\ stdout = <<>>)
    /\ reaped => rpc = "done" /\ errDone

(* The inductive invariants: of the writers and Close, and of the reader.  *)
WriteInv == TypeOK /\ Exclusive /\ NoWriteAfterClose
ReadInv  == WriteInv /\ ReadToTheEnd
-----------------------------------------------------------------------------
LEMMA AppendFits ==
    ASSUME NEW S, NEW s \in Seq(S), NEW e \in S, NEW n \in Nat, Len(s) < n
    PROVE  Append(s, e) \in Seq(S) /\ Len(Append(s, e)) <= n
  BY AppendProperties, LenProperties

LEMMA TailFits ==
    ASSUME NEW S, NEW s \in Seq(S), NEW n \in Nat, Len(s) <= n, s # <<>>
    PROVE  Tail(s) \in Seq(S) /\ Len(Tail(s)) <= n /\ Head(s) \in S
  BY HeadTailProperties, LenProperties

LEMMA InitWrite == Init => WriteInv
<1> SUFFICES ASSUME Init PROVE WriteInv
  OBVIOUS
<1>1. TypeOK
  <2>1. <<>> \in Seq(Lines) /\ <<>> \in Seq(Frames) /\ <<>> \in Seq(Frames \cup {ErrFrame})
    BY EmptySeq
  <2>2. Len(<<>>) = 0 /\ 0 <= StdinCap /\ 0 <= StdoutCap /\ 0 <= FrameCap
    BY EmptySeq, TransportAssumption
  <2> QED
    BY <2>1, <2>2 DEF TypeOK, Init
<1>2. Exclusive /\ NoWriteAfterClose
  BY DEF Init, Exclusive, NoWriteAfterClose
<1> QED
  BY <1>1, <1>2 DEF WriteInv

(* Type correctness of the writers' and of the closers' steps ... *)
LEMMA HostType ==
    ASSUME TypeOK,
           \/ \E w \in Writers, l \in Lines : WriteLock(w, l)
           \/ \E w \in Writers : WriteLands(w) \/ WriteBreaks(w)
           \/ \E k \in Closers : CallClose(k) \/ CloseLock(k) \/ CloseSteps(k)
           \/ CutOpen
    PROVE  TypeOK'
<1> USE DEF TypeOK, procVars, writeVars, closeVars, readVars
<1>1. CASE \E w \in Writers, l \in Lines : WriteLock(w, l)
  BY <1>1 DEF WriteLock
<1>2. CASE \E w \in Writers : WriteLands(w)
  <2> PICK w \in Writers : WriteLands(w)
    BY <1>2
  <2>1. stdin' \in Seq(Lines) /\ Len(stdin') <= StdinCap
    BY AppendFits, TransportAssumption DEF WriteLands
  <2> QED
    BY <2>1 DEF WriteLands
<1>3. CASE \E w \in Writers : WriteBreaks(w)
  BY <1>3 DEF WriteBreaks
<1>4. CASE \E k \in Closers : CallClose(k) \/ CloseLock(k)
  BY <1>4 DEF CallClose, CloseLock
<1>5. CASE \E k \in Closers : CloseSteps(k)
  BY <1>5 DEF CloseSteps, CloseStdin, CloseCancel, WaitReturns
<1>6. CASE CutOpen
  BY <1>6 DEF CutOpen
<1> QED
  BY <1>1, <1>2, <1>3, <1>4, <1>5, <1>6

(* ... and of the reader's and the process's. *)
LEMMA FlowType ==
    ASSUME TypeOK, ReaderSteps \/ StderrEnds \/ Take \/ ProcReads \/ ProcWrites \/ ProcDies
    PROVE  TypeOK'
<1> USE TransportAssumption DEF TypeOK, procVars, writeVars, closeVars, readVars
<1>1. CASE Scan
  <2>1. Tail(stdout) \in Seq(Frames) /\ Len(Tail(stdout)) <= StdoutCap /\ Head(stdout) \in Frames
    BY <1>1, TailFits DEF Scan
  <2> QED
    BY <1>1, <2>1 DEF Scan
<1>2. CASE ScanFails
  BY <1>2 DEF ScanFails
<1>3. CASE Send
  <2>1. frames' \in Seq(Frames \cup {ErrFrame}) /\ Len(frames') <= FrameCap
    BY <1>3, AppendFits DEF Send
  <2> QED
    BY <1>3, <2>1 DEF Send
<1>4. CASE SendGivesUp \/ ScanEnds \/ StderrEnds
  BY <1>4 DEF SendGivesUp, ScanEnds, StderrEnds
<1>5. CASE Take
  <2>1. frames' \in Seq(Frames \cup {ErrFrame}) /\ Len(frames') <= FrameCap
    BY <1>5, TailFits DEF Take
  <2> QED
    BY <1>5, <2>1 DEF Take
<1>6. CASE ProcReads
  <2>1. stdin' \in Seq(Lines) /\ Len(stdin') <= StdinCap
    BY <1>6, TailFits DEF ProcReads
  <2> QED
    BY <1>6, <2>1 DEF ProcReads
<1>7. CASE ProcWrites
  <2>1. stdout' \in Seq(Frames) /\ Len(stdout') <= StdoutCap
    BY <1>7, AppendFits DEF ProcWrites
  <2> QED
    BY <1>7, <2>1 DEF ProcWrites
<1>8. CASE ProcDies
  BY <1>8 DEF ProcDies
<1> QED
  BY <1>1, <1>2, <1>3, <1>4, <1>5, <1>6, <1>7, <1>8 DEF ReaderSteps

LEMMA StepWrite ==
    ASSUME WriteInv, [Next]_vars
    PROVE  WriteInv'
<1> USE DEF WriteInv
<1>1. TypeOK'
  <2>1. CASE UNCHANGED vars
    BY <2>1 DEF TypeOK, vars, procVars, writeVars, closeVars, readVars
  <2> QED
    BY <2>1, HostType, FlowType DEF Next
<1>2. mu = Nobody => \A w \in Writers : wpc[w] = "out"
  BY TransportAssumption DEF Exclusive, TypeOK
<1>3. CASE \E w \in Writers, l \in Lines : WriteLock(w, l)
  <2> PICK w \in Writers, l \in Lines : WriteLock(w, l)
    BY <1>3
  <2> QED
    BY <1>1, <1>2 DEF WriteLock, Exclusive, NoWriteAfterClose, TypeOK, closeVars
<1>4. CASE \E w \in Writers : WriteLands(w) \/ WriteBreaks(w)
  <2> PICK w \in Writers : WriteLands(w) \/ WriteBreaks(w)
    BY <1>4
  <2>1. /\ wpc[w] = "writing" /\ wpc' = [wpc EXCEPT ![w] = "out"]
        /\ UNCHANGED <<kpc, pipeClosed, stdinShut>>
    BY DEF WriteLands, WriteBreaks, closeVars
  <2>2. \A v \in Writers : wpc'[v] = "out"
    BY <2>1 DEF Exclusive, TypeOK
  <2> QED
    BY <1>1, <2>1, <2>2 DEF Exclusive, NoWriteAfterClose
<1>5. CASE \E k \in Closers : CloseLock(k)
  <2> PICK k \in Closers : CloseLock(k)
    BY <1>5
  <2> QED
    BY <1>1, <1>2 DEF CloseLock, Exclusive, NoWriteAfterClose, writeVars
<1>6. CASE \E k \in Closers : CallClose(k) \/ CloseSteps(k)
  <2> PICK k \in Closers : CallClose(k) \/ CloseSteps(k)
    BY <1>6
  <2>1. UNCHANGED <<mu, wpc, pipeClosed>>
    BY DEF CallClose, CloseSteps, CloseStdin, CloseCancel, WaitReturns, writeVars
  <2>2. \A j \in Closers : kpc'[j] = "stdin" => kpc[j] = "stdin"
    BY DEF CallClose, CloseSteps, CloseStdin, CloseCancel, WaitReturns, TypeOK
  <2>3. stdinShut' => pipeClosed
    BY DEF CallClose, CloseSteps, CloseStdin, CloseCancel, WaitReturns, Exclusive,
       NoWriteAfterClose
  <2> QED
    BY <1>1, <2>1, <2>2, <2>3 DEF Exclusive, NoWriteAfterClose
<1>7. CASE \/ CutOpen \/ ReaderSteps \/ StderrEnds \/ Take
           \/ ProcReads \/ ProcWrites \/ ProcDies \/ UNCHANGED vars
  <2>1. UNCHANGED <<mu, wpc, kpc, pipeClosed, stdinShut>>
    BY <1>7 DEF CutOpen, ReaderSteps, Scan, ScanFails, Send, SendGivesUp, ScanEnds, StderrEnds,
       Take, ProcReads, ProcWrites, ProcDies, vars, writeVars, closeVars
  <2> QED
    BY <1>1, <2>1 DEF Exclusive, NoWriteAfterClose
<1> QED
  BY <1>3, <1>4, <1>5, <1>6, <1>7 DEF Next

LEMMA WriteInvariant == Spec => []WriteInv
  BY InitWrite, StepWrite, PTL DEF Spec

(* TypeOK: the variables have their types, and neither the pipes nor the   *)
(* channel ever hold more than they can.                                   *)
THEOREM TransportTypeCorrect == Spec => []TypeOK
<1>1. WriteInv => TypeOK
  BY DEF WriteInv
<1> QED
  BY <1>1, WriteInvariant, PTL

(* NoWriteAfterClose: p.stdin is never closed under a writer, and none     *)
(* writes once Close has got past the lock.                                *)
THEOREM CloseExcludesWrites == Spec => []NoWriteAfterClose
<1>1. WriteInv => NoWriteAfterClose
  BY DEF WriteInv
<1> QED
  BY <1>1, WriteInvariant, PTL
-----------------------------------------------------------------------------
LEMMA StepRead ==
    ASSUME ReadInv, [Next]_vars
    PROVE  ReadInv'
<1> USE DEF ReadInv, ReadToTheEnd
<1>1. WriteInv'
  BY StepWrite
<1>2. CASE \/ \E w \in Writers, l \in Lines : WriteLock(w, l)
           \/ \E w \in Writers : WriteLands(w) \/ WriteBreaks(w)
           \/ StderrEnds \/ Take \/ ProcReads \/ UNCHANGED vars
  <2>1. UNCHANGED <<rpc, held, cut, life, stdout, reaped>> /\ (errDone => errDone')
    BY <1>2 DEF WriteLock, WriteLands, WriteBreaks, StderrEnds, Take, ProcReads,
       vars, procVars, closeVars, readVars
  <2> QED
    BY <1>1, <2>1
<1>3. CASE \E k \in Closers : CallClose(k) \/ CloseLock(k) \/ CloseSteps(k)
  <2> PICK k \in Closers : CallClose(k) \/ CloseLock(k) \/ CloseSteps(k)
    BY <1>3
  <2>1. /\ UNCHANGED <<rpc, held, life, stdout, errDone>>
        /\ cut => cut'
        /\ reaped' => reaped \/ (rpc = "done" /\ errDone)
    BY DEF CallClose, CloseLock, CloseSteps, CloseStdin, CloseCancel, WaitReturns,
       procVars, readVars
  <2> QED
    BY <1>1, <2>1
<1>4. CASE CutOpen
  BY <1>1, <1>4 DEF CutOpen, procVars, readVars
<1>5. CASE ReaderSteps
  BY <1>1, <1>5 DEF ReaderSteps, Scan, ScanFails, Send, SendGivesUp, ScanEnds, procVars, closeVars
<1>6. CASE ProcWrites \/ ProcDies
  BY <1>1, <1>6 DEF ProcWrites, ProcDies, closeVars, readVars
<1> QED
  BY <1>2, <1>3, <1>4, <1>5, <1>6 DEF Next

LEMMA ReadInvariant == Spec => []ReadInv
<1>1. Init => ReadInv
  BY InitWrite DEF Init, ReadInv, ReadToTheEnd
<1>2. ReadInv /\ [Next]_vars => ReadInv'
  BY StepRead
<1> QED
  BY <1>1, <1>2, PTL DEF Spec

(* ReapedAfterRead: cmd.Wait closes the pipes after the last read; what a  *)
(* process wrote that was not cancelled has all been read by then, unless  *)
(* the reader refused a line of it.                                        *)
THEOREM ReapedLast == Spec => []ReapedAfterRead
<1>1. ReadInv => ReapedAfterRead
  BY DEF ReadInv, ReadToTheEnd, ReapedAfterRead
<1> QED
  BY <1>1, ReadInvariant, PTL
-----------------------------------------------------------------------------
(* About sequences, for the transport's three places where a frame waits.  *)
LEMMA TailOfConcat ==
    ASSUME NEW S, NEW s \in Seq(S), NEW t \in Seq(S), s # <<>>
    PROVE  s \o t # <<>> /\ Tail(s \o t) = Tail(s) \o t
<1>1. /\ s \o t \in Seq(S) /\ s \o t # <<>>
      /\ Tail(s) \in Seq(S) /\ Len(s) \in Nat \ {0} /\ Len(Tail(s)) = Len(s) - 1 /\ Len(t) \in Nat
  BY ConcatProperties, ConcatEqualIffEmpty, HeadTailProperties, EmptySeq, LenProperties
<1>2. /\ Tail(s \o t) \in Seq(S) /\ Len(Tail(s \o t)) = Len(s) + Len(t) - 1
      /\ Tail(s) \o t \in Seq(S) /\ Len(Tail(s) \o t) = Len(s) - 1 + Len(t)
  BY <1>1, HeadTailProperties, ConcatProperties
<1>3. ASSUME NEW i \in 1 .. Len(Tail(s \o t)) PROVE Tail(s \o t)[i] = (Tail(s) \o t)[i]
  <2>1. Tail(s \o t)[i] = (s \o t)[i + 1]
    BY <1>1, HeadTailProperties
  <2>2. (s \o t)[i + 1] = IF i + 1 <= Len(s) THEN s[i + 1] ELSE t[i + 1 - Len(s)]
    BY <1>1, <1>2, ConcatProperties
  <2>3. (Tail(s) \o t)[i] = IF i <= Len(s) - 1 THEN Tail(s)[i] ELSE t[i - (Len(s) - 1)]
    BY <1>1, <1>2, ConcatProperties
  <2>4. i <= Len(s) - 1 => Tail(s)[i] = s[i + 1]
    BY <1>1, <1>2, HeadTailProperties
  <2> QED
    BY <1>1, <1>2, <2>1, <2>2, <2>3, <2>4
<1> QED
  BY <1>1, <1>2, <1>3, SeqEqual

LEMMA PrefixOfConcat ==
    ASSUME NEW S, NEW s \in Seq(S), NEW t \in Seq(S)
    PROVE  Len(s) \in 0..Len(s \o t) /\ SubSeq(s \o t, 1, Len(s)) = s
<1>1. Len(s) \in Nat /\ Len(t) \in Nat /\ s \o t \in Seq(S) /\ Len(s \o t) = Len(s) + Len(t)
  BY ConcatProperties, LenProperties
<1>2. CASE Len(s) = 0
  BY <1>1, <1>2, SubSeqEmpty, EmptySeq
<1>3. CASE Len(s) # 0
  BY <1>1, <1>3, SubSeqOfConcat1, SubSeqFull
<1> QED
  BY <1>1, <1>2, <1>3

LEMMA HeadBeforeTail ==
    ASSUME NEW S, NEW s \in Seq(S), s # <<>>
    PROVE  <<Head(s)>> \o Tail(s) = s
<1>1. Len(s) \in Nat \ {0} /\ Head(s) = s[1] /\ Tail(s) = SubSeq(s, 2, Len(s))
  BY EmptySeq, TailIsSubSeq
<1> QED
  BY <1>1, SubSeqRecursiveFirst, SubSeqFull
-----------------------------------------------------------------------------
(* What a step does to the frames that are on their way.                   *)
LEMMA Flow ==
    ASSUME ReadInv
    PROVE  /\ Scan \/ Send => Undelivered' = Undelivered
           /\ ScanFails =>
                 \E k \in 0..Len(Undelivered) :
                    Undelivered' = Append(SubSeq(Undelivered, 1, k), ErrFrame)
           /\ Take => Undelivered # <<>> /\ Undelivered' = Tail(Undelivered)
           /\ SendGivesUp /\ rpc = "send" =>
                 \E k \in 0..Len(Undelivered) : Undelivered' = SubSeq(Undelivered, 1, k)
           /\ SendGivesUp /\ rpc = "last" =>
                 /\ Undelivered # <<>> /\ Undelivered[Len(Undelivered)] = ErrFrame
                 /\ Undelivered' = SubSeq(Undelivered, 1, Len(Undelivered) - 1)
           /\ ScanEnds => life = "dead" /\ Undelivered' = Undelivered
           /\ \A f \in Frames :
                 ProcWrites /\ stdout' = Append(stdout, f) =>
                     Undelivered' = IF Stopped THEN Undelivered ELSE Append(Undelivered, f)
<1> DEFINE F == Frames \cup {ErrFrame}
           In == IF rpc \in {"send", "last"} THEN <<held>> ELSE <<>>
           Out == IF Stopped THEN <<>> ELSE stdout
<1>1. /\ frames \in Seq(F) /\ In \in Seq(F) /\ stdout \in Seq(F) /\ Out \in Seq(F)
      /\ held \in F /\ frames \o In \in Seq(F) /\ In \o Out \in Seq(F)
  <2>1. frames \in Seq(F) /\ held \in F /\ stdout \in Seq(F)
    BY SeqMonotonic DEF ReadInv, WriteInv, TypeOK
  <2>2. <<>> \in Seq(F) /\ <<held>> \in Seq(F)
    BY <2>1, EmptySeq
  <2>3. In \in Seq(F) /\ Out \in Seq(F)
    BY <2>1, <2>2
  <2> HIDE DEF F, In, Out
  <2>4. frames \o In \in Seq(F) /\ In \o Out \in Seq(F)
    BY <2>1, <2>3, ConcatProperties
  <2> QED
    BY <2>1, <2>3, <2>4
<1>2. Undelivered = (frames \o In) \o Out /\ Undelivered = frames \o (In \o Out)
  <2>1. Undelivered = (frames \o In) \o Out
    BY DEF Undelivered
  <2> HIDE DEF F, In, Out
  <2>2. (frames \o In) \o Out = frames \o (In \o Out)
    BY <1>1, ConcatAssociative
  <2> QED
    BY <2>1, <2>2
<1>3. Scan => Undelivered' = Undelivered
  <2> SUFFICES ASSUME Scan PROVE Undelivered' = Undelivered
    OBVIOUS
  <2>1. /\ rpc = "scan" /\ rpc' = "send" /\ frames' = frames /\ stdout # <<>>
        /\ held' = Head(stdout) /\ stdout' = Tail(stdout)
    BY DEF Scan
  <2>2. Undelivered' = (frames \o <<Head(stdout)>>) \o Tail(stdout)
    BY <2>1 DEF Undelivered, Stopped
  <2>3. Head(stdout) \in F /\ Tail(stdout) \in Seq(F) /\ <<Head(stdout)>> \in Seq(F)
    BY <1>1, <2>1, HeadTailProperties
  <2>4. Undelivered' = frames \o stdout
    <3> HIDE DEF F
    <3>1. (frames \o <<Head(stdout)>>) \o Tail(stdout) = frames \o (<<Head(stdout)>> \o Tail(stdout))
      BY <1>1, <2>3, ConcatAssociative
    <3>2. <<Head(stdout)>> \o Tail(stdout) = stdout
      BY <1>1, <2>1, HeadBeforeTail
    <3> QED
      BY <2>2, <3>1, <3>2
  <2> QED
    BY <1>1, <2>1, <2>4, ConcatEmptySeq DEF Undelivered, Stopped
<1>9. ScanFails => \E k \in 0..Len(Undelivered) :
                      Undelivered' = Append(SubSeq(Undelivered, 1, k), ErrFrame)
  <2> SUFFICES ASSUME ScanFails
               PROVE  \E k \in 0..Len(Undelivered) :
                          Undelivered' = Append(SubSeq(Undelivered, 1, k), ErrFrame)
    OBVIOUS
  <2>1. rpc = "scan" /\ rpc' = "last" /\ held' = ErrFrame /\ frames' = frames
    BY DEF ScanFails
  <2>2. ErrFrame \in F /\ <<ErrFrame>> \in Seq(F)
    OBVIOUS
  <2>3. Undelivered' = (frames \o <<ErrFrame>>) \o <<>>
    BY <2>1 DEF Undelivered, Stopped
  <2>4. frames \o <<ErrFrame>> \in Seq(F) /\ Append(frames, ErrFrame) = frames \o <<ErrFrame>>
    BY <1>1, <2>2, ConcatProperties, AppendIsConcat
  <2>5. Undelivered' = Append(frames, ErrFrame)
    BY <2>3, <2>4, ConcatEmptySeq
  <2>6. Len(frames) \in 0..Len(Undelivered) /\ SubSeq(Undelivered, 1, Len(frames)) = frames
    BY <1>1, <1>2, PrefixOfConcat
  <2> QED
    BY <2>5, <2>6
<1>4. Send => Undelivered' = Undelivered
  <2> SUFFICES ASSUME Send PROVE Undelivered' = Undelivered
    OBVIOUS
  <2>1. /\ frames' = Append(frames, held) /\ stdout' = stdout
        /\ \/ rpc = "send" /\ rpc' = "scan"
           \/ rpc = "last" /\ rpc' = "done"
    BY DEF Send, procVars
  <2>2. Append(frames, held) = frames \o <<held>> /\ frames \o <<held>> \in Seq(F)
    BY <1>1, <2>1, AppendIsConcat
  <2>3. (frames \o <<held>>) \o <<>> = frames \o <<held>>
    BY <2>2, ConcatEmptySeq
  <2>4. CASE rpc = "send"
    BY <2>1, <2>2, <2>3, <2>4 DEF Undelivered, Stopped
  <2>5. CASE rpc = "last"
    BY <2>1, <2>2, <2>3, <2>5 DEF Undelivered, Stopped
  <2> QED
    BY <2>1, <2>4, <2>5
<1>5. Take => Undelivered # <<>> /\ Undelivered' = Tail(Undelivered)
  <2> SUFFICES ASSUME Take PROVE Undelivered # <<>> /\ Undelivered' = Tail(Undelivered)
    OBVIOUS
  <2>1. /\ frames # <<>> /\ frames' = Tail(frames) /\ rpc' = rpc /\ held' = held
        /\ stdout' = stdout
    BY DEF Take, procVars
  <2>2. Tail(frames) \in Seq(F)
    BY <1>1, <2>1, HeadTailProperties
  <2>3. Undelivered' = (Tail(frames) \o In) \o Out
    BY <2>1 DEF Undelivered, Stopped
  <2> HIDE DEF F, In, Out
  <2>4. (Tail(frames) \o In) \o Out = Tail(frames) \o (In \o Out)
    BY <1>1, <2>2, ConcatAssociative
  <2>5. /\ frames \o (In \o Out) # <<>>
        /\ Tail(frames \o (In \o Out)) = Tail(frames) \o (In \o Out)
    BY <1>1, <2>1, TailOfConcat
  <2> QED
    BY <1>2, <2>3, <2>4, <2>5
<1>10. SendGivesUp => Undelivered' = frames
  <2> SUFFICES ASSUME SendGivesUp PROVE Undelivered' = frames
    OBVIOUS
  <2>1. rpc' = "done" /\ frames' = frames
    BY DEF SendGivesUp
  <2>2. Undelivered' = (frames \o <<>>) \o <<>>
    BY <2>1 DEF Undelivered, Stopped
  <2> QED
    BY <1>1, <2>2, ConcatEmptySeq
<1>6. SendGivesUp => \E k \in 0..Len(Undelivered) : Undelivered' = SubSeq(Undelivered, 1, k)
  BY <1>1, <1>2, <1>10, PrefixOfConcat
<1>11. SendGivesUp /\ rpc = "last" =>
          /\ Undelivered # <<>> /\ Undelivered[Len(Undelivered)] = ErrFrame
          /\ Undelivered' = SubSeq(Undelivered, 1, Len(Undelivered) - 1)
  <2> SUFFICES ASSUME SendGivesUp, rpc = "last"
               PROVE  /\ Undelivered # <<>> /\ Undelivered[Len(Undelivered)] = ErrFrame
                      /\ Undelivered' = SubSeq(Undelivered, 1, Len(Undelivered) - 1)
    OBVIOUS
  <2>1. held = ErrFrame
    BY DEF ReadInv, ReadToTheEnd
  <2>2. Undelivered = (frames \o <<ErrFrame>>) \o <<>>
    BY <2>1 DEF Undelivered, Stopped
  <2>3. ErrFrame \in F /\ <<ErrFrame>> \in Seq(F)
    OBVIOUS
  <2>4. Append(frames, ErrFrame) = frames \o <<ErrFrame>> /\ frames \o <<ErrFrame>> \in Seq(F)
    BY <1>1, <2>3, AppendIsConcat, ConcatProperties
  <2>5. Undelivered = Append(frames, ErrFrame)
    BY <2>2, <2>4, ConcatEmptySeq
  <2>6. Len(frames) \in Nat /\ Len(Append(frames, ErrFrame)) = Len(frames) + 1
        /\ Append(frames, ErrFrame)[Len(frames) + 1] = ErrFrame
    BY <1>1, <2>3, AppendProperties, LenProperties
  <2>7. SubSeq(Undelivered, 1, Len(frames)) = frames
    BY <1>1, <1>2, PrefixOfConcat
  <2>8. Append(frames, ErrFrame) # <<>>
    BY <2>6, EmptySeq
  <2>9. Len(Undelivered) - 1 = Len(frames)
    BY <2>5, <2>6
  <2> QED
    BY <1>10, <2>5, <2>6, <2>7, <2>8, <2>9
<1>7. ScanEnds => life = "dead" /\ Undelivered' = Undelivered
  <2> SUFFICES ASSUME ScanEnds PROVE life = "dead" /\ Undelivered' = Undelivered
    OBVIOUS
  <2>1. /\ rpc = "scan" /\ rpc' = "done" /\ frames' = frames
        /\ stdout = <<>> /\ life = "dead"
    BY DEF ScanEnds, ReadInv, ReadToTheEnd
  <2> QED
    BY <1>1, <2>1, ConcatEmptySeq DEF Undelivered, Stopped
<1>8. ASSUME NEW f \in Frames, ProcWrites, stdout' = Append(stdout, f)
      PROVE  Undelivered' = IF Stopped THEN Undelivered ELSE Append(Undelivered, f)
  <2>1. rpc' = rpc /\ held' = held /\ frames' = frames /\ f \in F
    BY <1>8 DEF ProcWrites, readVars
  <2>2. Stopped => Undelivered' = Undelivered
    BY <2>1 DEF Undelivered, Stopped
  <2>3. ~Stopped => Undelivered' = (frames \o In) \o Append(stdout, f)
    BY <1>8, <2>1 DEF Undelivered, Stopped
  <2>4. ~Stopped => Append(Undelivered, f) = (frames \o In) \o Append(stdout, f)
    <3>1. ~Stopped => Undelivered = (frames \o In) \o stdout
      BY <1>2
    <3>2. <<f>> \in Seq(F) /\ f \in F
      BY <2>1
    <3> HIDE DEF F, In
    <3>3. (frames \o In) \o stdout \in Seq(F)
      BY <1>1, ConcatProperties
    <3>4. Append((frames \o In) \o stdout, f) = ((frames \o In) \o stdout) \o <<f>>
      BY <3>2, <3>3, AppendIsConcat
    <3>5. Append(stdout, f) = stdout \o <<f>>
      BY <1>1, <3>2, AppendIsConcat
    <3>6. ((frames \o In) \o stdout) \o <<f>> = (frames \o In) \o (stdout \o <<f>>)
      BY <1>1, <3>2, ConcatAssociative
    <3> QED
      BY <3>1, <3>4, <3>5, <3>6
  <2> QED
    BY <2>2, <2>3, <2>4
<1> QED
  BY <1>3, <1>4, <1>5, <1>6, <1>7, <1>8, <1>9, <1>11

(* ImplementsDuplex: the pipes, the lock, the channel and the reader make  *)
(* what the conversation relies on, a FIFO of lines each way that loses    *)
(* nothing but the end of what a process wrote that was cancelled, or that *)
(* wrote a line the reader refused.                                        *)
THEOREM TransportIsADuplex == Spec => ImplementsDuplex
<1>1. Init => D!DuplexInit
  <2> SUFFICES ASSUME Init PROVE D!DuplexInit
    OBVIOUS
  <2>1. <<>> \in Seq(Frames)
    BY EmptySeq
  <2>2. Undelivered = <<>>
    BY <2>1, ConcatEmptySeq DEF Init, Undelivered, Stopped
  <2> QED
    BY <2>2 DEF Init, Stopped, D!DuplexInit
<1>2. ReadInv /\ [Next]_vars => [D!DuplexNext(Lines, Frames, ErrFrame)]_(D!duplexVars)
  <2> SUFFICES ASSUME ReadInv, [Next]_vars
               PROVE  D!DuplexNext(Lines, Frames, ErrFrame) \/ UNCHANGED D!duplexVars
    OBVIOUS
  <2> USE DEF D!duplexVars, procVars, writeVars, closeVars, readVars
  <2>1. /\ UNCHANGED <<frames, rpc, held, stdout>> => Undelivered' = Undelivered
        /\ rpc' = rpc => Stopped' = Stopped
    BY DEF Undelivered, Stopped
  <2>2. CASE \E w \in Writers, l \in Lines : WriteLock(w, l)
    BY <2>1, <2>2 DEF WriteLock
  <2>3. CASE \E w \in Writers : WriteLands(w)
    <3> PICK w \in Writers : WriteLands(w)
      BY <2>3
    <3>1. ~pipeClosed /\ line[w] \in Lines
      BY DEF ReadInv, WriteInv, NoWriteAfterClose, WriteLands, TypeOK
    <3>2. D!WriteLine(line[w])
      BY <2>1, <3>1 DEF WriteLands, D!WriteLine
    <3> QED
      BY <3>1, <3>2 DEF D!DuplexNext
  <2>4. CASE \E w \in Writers : WriteBreaks(w)
    BY <2>1, <2>4 DEF WriteBreaks
  <2>5. CASE \E k \in Closers : CallClose(k) \/ CloseStdin(k) \/ WaitReturns(k)
    BY <2>1, <2>5 DEF CallClose, CloseStdin, WaitReturns
  <2>6. CASE \E k \in Closers : CloseLock(k)
    <3>1. pipeClosed \in BOOLEAN
      BY DEF ReadInv, WriteInv, TypeOK
    <3>2. D!ClosePipe \/ UNCHANGED D!duplexVars
      BY <2>1, <2>6, <3>1 DEF CloseLock, D!ClosePipe
    <3> QED
      BY <3>2 DEF D!DuplexNext
  <2>7. CASE CutOpen \/ \E k \in Closers : CloseCancel(k)
    <3>1. D!Cut
      BY <2>1, <2>7 DEF CutOpen, CloseCancel, D!Cut
    <3> QED
      BY <3>1 DEF D!DuplexNext
  <2>8. CASE Scan \/ Send
    <3>1. Undelivered' = Undelivered
      BY <2>8, Flow
    <3>2. Stopped' = Stopped
      BY <2>8 DEF Scan, Send, Stopped
    <3> QED
      BY <2>8, <3>1, <3>2 DEF Scan, Send
  <2>9. CASE ScanFails
    <3>1. ~Stopped /\ Stopped'
      BY <2>9 DEF ScanFails, Stopped
    <3>2. \E k \in 0..Len(Undelivered) :
              Undelivered' = Append(SubSeq(Undelivered, 1, k), ErrFrame)
      BY <2>9, Flow
    <3>3. D!ReadError(ErrFrame)
      BY <2>9, <3>1, <3>2 DEF ScanFails, D!ReadError
    <3> QED
      BY <3>3 DEF D!DuplexNext
  <2>10. CASE ScanEnds \/ (SendGivesUp /\ rpc = "send")
    <3>1. /\ ~Stopped /\ Stopped'
          /\ SendGivesUp => cut
          /\ UNCHANGED <<stdin, pipeClosed, cut, life>>
      BY <2>10 DEF SendGivesUp, ScanEnds, Stopped
    <3>2. SendGivesUp /\ rpc = "send" =>
              \E k \in 0..Len(Undelivered) : Undelivered' = SubSeq(Undelivered, 1, k)
      BY Flow
    <3>3. ScanEnds => life = "dead" /\ Undelivered' = Undelivered
      BY Flow
    <3>4. D!StopReading
      BY <2>10, <3>1, <3>2, <3>3 DEF D!StopReading
    <3> QED
      BY <3>4 DEF D!DuplexNext
  <2>17. CASE SendGivesUp /\ rpc = "last"
    <3>1. Stopped /\ Stopped' = Stopped /\ cut
          /\ UNCHANGED <<stdin, pipeClosed, cut, life>>
      BY <2>17 DEF SendGivesUp, Stopped
    <3>2. /\ Undelivered # <<>> /\ Undelivered[Len(Undelivered)] = ErrFrame
          /\ Undelivered' = SubSeq(Undelivered, 1, Len(Undelivered) - 1)
      BY <2>17, Flow
    <3>3. D!DropError(ErrFrame)
      BY <3>1, <3>2 DEF D!DropError
    <3> QED
      BY <3>3 DEF D!DuplexNext
  <2>18. SendGivesUp => rpc \in {"send", "last"}
    BY DEF SendGivesUp
  <2>11. CASE StderrEnds
    BY <2>1, <2>11 DEF StderrEnds
  <2>12. CASE Take
    <3>1. Undelivered # <<>> /\ Undelivered' = Tail(Undelivered)
      BY <2>12, Flow
    <3>2. D!TakeFrame
      BY <2>1, <2>12, <3>1 DEF Take, D!TakeFrame
    <3> QED
      BY <3>2 DEF D!DuplexNext
  <2>13. CASE ProcReads
    <3>1. D!ReadLine
      BY <2>13 DEF ProcReads, D!ReadLine
    <3> QED
      BY <2>1, <2>13, <3>1 DEF ProcReads, D!DuplexNext
  <2>14. CASE ProcWrites
    <3> PICK f \in Frames : stdout' = Append(stdout, f)
      BY <2>14 DEF ProcWrites
    <3>1. Undelivered' = IF Stopped THEN Undelivered ELSE Append(Undelivered, f)
      BY <2>14, Flow
    <3>2. D!SendFrame(f)
      BY <2>14, <3>1 DEF ProcWrites, D!SendFrame
    <3> QED
      BY <2>1, <2>14, <3>2 DEF ProcWrites, D!DuplexNext
  <2>15. CASE ProcDies
    <3>1. D!Die
      BY <2>1, <2>15 DEF ProcDies, D!Die
    <3> QED
      BY <3>1 DEF D!DuplexNext
  <2>16. CASE UNCHANGED vars
    BY <2>1, <2>16 DEF vars
  <2> QED
    BY <2>2, <2>3, <2>4, <2>5, <2>6, <2>7, <2>8, <2>9, <2>10, <2>11, <2>12, <2>13, <2>14, <2>15,
       <2>16, <2>17, <2>18 DEF Next, CloseSteps, ReaderSteps
<1> QED
  BY <1>1, <1>2, ReadInvariant, PTL DEF Spec, ImplementsDuplex
=============================================================================
