------------------------------ MODULE Transport ------------------------------
(***************************************************************************)
(* internal/proto/proto.go: the transport under a conversation, down to    *)
(* the pipes of the claude process.  p.mu serialises the writers and is    *)
(* held over the write itself, which blocks while the process does not     *)
(* read.  The reader moves lines from stdout to a bounded channel.  Close  *)
(* and Wait run on the host's goroutines.                                  *)
(*                                                                         *)
(* The process (external) reads and writes as it pleases.                  *)
(***************************************************************************)
EXTENDS Naturals, Sequences, FiniteSets

CONSTANTS Writers,      \* goroutines that call Write
          Closers,      \* goroutines that call Close, then Wait
          Nobody,       \* the holder of a free mutex
          Lines,        \* what is written to the process
          Frames,       \* what the process writes
          ErrFrame,     \* the Frame that carries a read error
          StdinCap, StdoutCap,  \* lines the kernel's pipes hold
          FrameCap,     \* capacity of p.frames (128)
          CanExit,      \* the process may exit on its own account
          CanCut,       \* the context given to Spawn may be cancelled
          CanTooLong    \* the process may write a line over the scanner's limit

ASSUME TransportAssumption ==
    /\ Nobody \notin Writers
    /\ ErrFrame \notin Frames
    /\ StdinCap \in Nat \ {0} /\ StdoutCap \in Nat \ {0} /\ FrameCap \in Nat \ {0}

VARIABLES
    mu,             \* the writer that holds p.mu
    wpc, line,      \* each writer's place in Write, and the line it writes
    stdin,          \* the stdin pipe
    stdinShut,      \* p.stdin is closed
    pipeClosed,     \* p.closed
    cut,            \* p.ctx is done
    kpc,            \* each closer's place in Close and Wait
    life,           \* the process is "up" or "dead"
    stdout,         \* the stdout pipe
    rpc, held,      \* the reader's place, and the frame it wants to send
    frames,         \* p.frames
    errDone,        \* the stderr loop has ended
    reaped          \* cmd.Wait has returned, and closed the pipes

procVars  == <<life, stdout>>
writeVars == <<mu, wpc, line, stdin>>
closeVars == <<stdinShut, pipeClosed, cut, kpc, reaped>>
readVars  == <<rpc, held, frames, errDone>>
vars == <<procVars, writeVars, closeVars, readVars>>

TypeOK ==
    /\ mu \in Writers \cup {Nobody}
    /\ wpc \in [Writers -> {"out", "writing"}]
    /\ line \in [Writers -> Lines]
    /\ stdin \in Seq(Lines) /\ Len(stdin) <= StdinCap
    /\ stdinShut \in BOOLEAN /\ pipeClosed \in BOOLEAN /\ cut \in BOOLEAN
    /\ kpc \in [Closers -> {"idle", "lock", "stdin", "cancel", "wait", "done"}]
    /\ life \in {"up", "dead"}
    /\ stdout \in Seq(Frames) /\ Len(stdout) <= StdoutCap
    /\ rpc \in {"scan", "send", "last", "done"}
    /\ held \in Frames \cup {ErrFrame}
    /\ frames \in Seq(Frames \cup {ErrFrame}) /\ Len(frames) <= FrameCap
    /\ errDone \in BOOLEAN /\ reaped \in BOOLEAN

Init ==
    /\ mu = Nobody
    /\ wpc = [w \in Writers |-> "out"]
    /\ line \in [Writers -> Lines]
    /\ stdin = <<>>
    /\ stdinShut = FALSE /\ pipeClosed = FALSE /\ cut = FALSE
    /\ kpc = [k \in Closers |-> "idle"]
    /\ life = "up"
    /\ stdout = <<>>
    /\ rpc = "scan"
    /\ held \in Frames
    /\ frames = <<>>
    /\ errDone = FALSE /\ reaped = FALSE
-----------------------------------------------------------------------------
(* Write: the lock, the check of closed (ErrClosed changes nothing), and   *)
(* the write, which blocks on a full pipe with the lock held.              *)
WriteLock(w, l) ==
    /\ wpc[w] = "out"
    /\ mu = Nobody
    /\ ~pipeClosed
    /\ mu' = w
    /\ wpc' = [wpc EXCEPT ![w] = "writing"]
    /\ line' = [line EXCEPT ![w] = l]
    /\ UNCHANGED <<stdin, procVars, closeVars, readVars>>

WriteLands(w) ==
    /\ wpc[w] = "writing"
    /\ Len(stdin) < StdinCap
    /\ stdin' = Append(stdin, line[w])
    /\ mu' = Nobody
    /\ wpc' = [wpc EXCEPT ![w] = "out"]
    /\ UNCHANGED <<line, procVars, closeVars, readVars>>

(* EPIPE: the process that would read it is gone. *)
WriteBreaks(w) ==
    /\ wpc[w] = "writing"
    /\ life = "dead"
    /\ mu' = Nobody
    /\ wpc' = [wpc EXCEPT ![w] = "out"]
    /\ UNCHANGED <<line, stdin, procVars, closeVars, readVars>>
-----------------------------------------------------------------------------
(* Close, then Wait.  The host calls it; its first critical section needs  *)
(* the lock the writers hold; a second Close goes straight on.             *)
CallClose(k) ==
    /\ kpc[k] = "idle"
    /\ kpc' = [kpc EXCEPT ![k] = "lock"]
    /\ UNCHANGED <<stdinShut, pipeClosed, cut, reaped, procVars, writeVars, readVars>>

CloseNoLock(k) ==             \* broken: p.mu is not taken
    /\ kpc[k] = "lock"
    /\ pipeClosed' = TRUE
    /\ kpc' = [kpc EXCEPT ![k] = IF pipeClosed THEN "wait" ELSE "stdin"]
    /\ UNCHANGED <<stdinShut, cut, reaped, procVars, writeVars, readVars>>

CloseLock(k) ==
    /\ kpc[k] = "lock"
    /\ mu = Nobody
    /\ pipeClosed' = TRUE
    /\ kpc' = [kpc EXCEPT ![k] = IF pipeClosed THEN "wait" ELSE "stdin"]
    /\ UNCHANGED <<stdinShut, cut, reaped, procVars, writeVars, readVars>>

CloseStdin(k) ==
    /\ kpc[k] = "stdin"
    /\ stdinShut' = TRUE
    /\ kpc' = [kpc EXCEPT ![k] = "cancel"]
    /\ UNCHANGED <<pipeClosed, cut, reaped, procVars, writeVars, readVars>>

CloseCancel(k) ==
    /\ kpc[k] = "cancel"
    /\ cut' = TRUE
    /\ kpc' = [kpc EXCEPT ![k] = "wait"]
    /\ UNCHANGED <<stdinShut, pipeClosed, reaped, procVars, writeVars, readVars>>

(* Broken: cmd.Wait without wg.Wait. *)
WaitReturnsEarly(k) ==
    /\ kpc[k] = "wait"
    /\ life = "dead"
    /\ reaped' = TRUE
    /\ kpc' = [kpc EXCEPT ![k] = "done"]
    /\ UNCHANGED <<stdinShut, pipeClosed, cut, procVars, writeVars, readVars>>

(* wg.Wait, then cmd.Wait, which closes the pipes. *)
WaitReturns(k) ==
    /\ kpc[k] = "wait"
    /\ rpc = "done" /\ errDone
    /\ life = "dead"
    /\ reaped' = TRUE
    /\ kpc' = [kpc EXCEPT ![k] = "done"]
    /\ UNCHANGED <<stdinShut, pipeClosed, cut, procVars, writeVars, readVars>>

CloseSteps(k) == CloseStdin(k) \/ CloseCancel(k) \/ WaitReturns(k)

(* The context given to Spawn is cancelled. *)
CutOpen ==
    /\ CanCut
    /\ ~cut
    /\ cut' = TRUE
    /\ UNCHANGED <<stdinShut, pipeClosed, kpc, reaped, procVars, writeVars, readVars>>
-----------------------------------------------------------------------------
(* readLoop: a line is scanned, then sent unless the context is done.  It  *)
(* cannot scan a pipe that cmd.Wait has closed.                            *)
Scan ==
    /\ rpc = "scan"
    /\ stdout # <<>> /\ ~reaped
    /\ held' = Head(stdout)
    /\ stdout' = Tail(stdout)
    /\ rpc' = "send"
    /\ UNCHANGED <<life, frames, errDone, writeVars, closeVars>>

(* A line over 16 MiB: the error is the last frame. *)
ScanFails ==
    /\ CanTooLong
    /\ rpc = "scan"
    /\ stdout # <<>> /\ ~reaped
    /\ held' = ErrFrame
    /\ rpc' = "last"
    /\ UNCHANGED <<frames, errDone, procVars, writeVars, closeVars>>

Send ==
    /\ rpc \in {"send", "last"}
    /\ Len(frames) < FrameCap
    /\ frames' = Append(frames, held)
    /\ rpc' = IF rpc = "send" THEN "scan" ELSE "done"
    /\ UNCHANGED <<held, errDone, procVars, writeVars, closeVars>>

(* Broken: a full channel drops the frame (select with a default), and: no *)
(* select at all, the send waits for room.                                 *)
SendDrops ==
    /\ rpc \in {"send", "last"}
    /\ Len(frames) = FrameCap
    /\ rpc' = IF rpc = "send" THEN "scan" ELSE "done"
    /\ UNCHANGED <<held, frames, errDone, procVars, writeVars, closeVars>>

SendPatient ==
    /\ rpc \in {"send", "last"}
    /\ cut /\ Len(frames) < FrameCap
    /\ rpc' = "done"
    /\ UNCHANGED <<held, frames, errDone, procVars, writeVars, closeVars>>

SendGivesUp ==
    /\ rpc \in {"send", "last"}
    /\ cut
    /\ rpc' = "done"
    /\ UNCHANGED <<held, frames, errDone, procVars, writeVars, closeVars>>

ScanEnds ==
    /\ rpc = "scan"
    /\ (stdout = <<>> /\ life = "dead") \/ reaped
    /\ rpc' = "done"
    /\ UNCHANGED <<held, frames, errDone, procVars, writeVars, closeVars>>

(* stderrLoop ends with the process, or before it on a line the scanner    *)
(* refuses.                                                                *)
StderrEnds ==
    /\ ~errDone
    /\ errDone' = TRUE
    /\ UNCHANGED <<rpc, held, frames, procVars, writeVars, closeVars>>

ReaderSteps == Scan \/ ScanFails \/ Send \/ SendGivesUp \/ ScanEnds

(* The conversation receives from Frames. *)
Take ==
    /\ frames # <<>>
    /\ frames' = Tail(frames)
    /\ UNCHANGED <<rpc, held, errDone, procVars, writeVars, closeVars>>
-----------------------------------------------------------------------------
ProcReads ==
    /\ life = "up"
    /\ stdin # <<>>
    /\ stdin' = Tail(stdin)
    /\ UNCHANGED <<mu, wpc, line, procVars, closeVars, readVars>>

ProcWrites ==
    /\ life = "up"
    /\ Len(stdout) < StdoutCap
    /\ \E f \in Frames : stdout' = Append(stdout, f)
    /\ UNCHANGED <<life, writeVars, closeVars, readVars>>

ProcDies ==
    /\ life = "up"
    /\ cut \/ CanExit
    /\ life' = "dead"
    /\ UNCHANGED <<stdout, writeVars, closeVars, readVars>>

Next ==
    \/ \E w \in Writers, l \in Lines : WriteLock(w, l)
    \/ \E w \in Writers : WriteLands(w) \/ WriteBreaks(w)
    \/ \E k \in Closers : CallClose(k) \/ CloseLock(k) \/ CloseSteps(k)
    \/ CutOpen
    \/ ReaderSteps \/ StderrEnds \/ Take
    \/ ProcReads \/ ProcWrites \/ ProcDies

Spec == Init /\ [][Next]_vars

(* The host's goroutines run when they can; sync.Mutex does not starve a   *)
(* goroutine that waits for it, so Close gets the lock if it is free again *)
(* and again; a cancelled context kills the process.  Nothing makes the    *)
(* conversation take frames: a listener may block it for ever.             *)
HostFairness ==
    /\ \A w \in Writers : WF_vars(WriteLands(w) \/ WriteBreaks(w))
    /\ \A k \in Closers : SF_vars(CloseLock(k)) /\ WF_vars(CloseSteps(k))
    /\ WF_vars(ReaderSteps)
    /\ WF_vars(life = "dead" /\ StderrEnds)
    /\ WF_vars(cut /\ ProcDies)

HostSpec == Spec /\ HostFairness

(* ... and the process keeps reading its stdin while it is up. *)
AttentiveSpec == HostSpec /\ WF_vars(ProcReads)
-----------------------------------------------------------------------------
(* The transport is a duplex of lines: nothing is reordered, duplicated or *)
(* lost, but for the end of what a process wrote that was cancelled or     *)
(* wrote a line the reader refuses.                                        *)
Stopped == rpc \in {"last", "done"}

Undelivered ==
    frames \o (IF rpc \in {"send", "last"} THEN <<held>> ELSE <<>>)
           \o (IF Stopped THEN <<>> ELSE stdout)

D == INSTANCE Duplex WITH toCli <- stdin, toHost <- Undelivered, ended <- Stopped

ImplementsDuplex == D!DuplexInit /\ [][D!DuplexNext(Lines, Frames, ErrFrame)]_(D!duplexVars)

(* p.mu keeps Close out of a write: p.stdin is never closed under a writer *)
(* and no line enters the pipe once Close has got past the lock.           *)
NoWriteAfterClose ==
    /\ pipeClosed => \A w \in Writers : wpc[w] = "out"
    /\ stdinShut => pipeClosed

(* cmd.Wait closes the pipes, so it must come after the last read: a       *)
(* process that was not cancelled is reaped with nothing of it unread,     *)
(* unless the reader has refused a line of it.                             *)
ReapedAfterRead ==
    reaped => /\ rpc = "done" /\ errDone
              /\ cut \/ held = ErrFrame \/ stdout = <<>>

(* Close returns, and has reaped the process, even if nobody ever takes    *)
(* another frame.                                                          *)
CloseCompletes ==
    \A k \in Closers : kpc[k] = "lock" ~> kpc[k] = "done"

=============================================================================
