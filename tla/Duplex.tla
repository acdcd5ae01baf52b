------------------------------- MODULE Duplex -------------------------------
(***************************************************************************)
(* What a conversation needs of its transport (proto.Transport): a FIFO of *)
(* lines each way, a Close after which nothing is written, and Frames that *)
(* ends once the process is gone and what it had written has been taken.   *)
(* The pipes, the lock and the channel under it are in Transport.tla,      *)
(* which implements this module.                                           *)
(*                                                                         *)
(* Frames are lost only when the transport's context is cancelled, whose   *)
(* reader may then stop early (proto.go:159-163), or when the reader meets *)
(* a line it refuses, which it reports by a last frame (proto.go:166-171). *)
(* Either way the conversation sees a prefix of what the process wrote.    *)
(***************************************************************************)
EXTENDS Naturals, Sequences

VARIABLES
    toCli,          \* lines written to the process, not read by it yet
    toHost,         \* frames from the process, not taken by the conversation
    pipeClosed,     \* process.closed: Close was called
    cut,            \* process.ctx is done: the process is being killed
    life,           \* the process is "up" or "dead"
    ended           \* the transport's reader has stopped

duplexVars == <<toCli, toHost, pipeClosed, cut, life, ended>>

DuplexTypeOK(Lines, Frames) ==
    /\ toCli \in Seq(Lines)
    /\ toHost \in Seq(Frames)
    /\ pipeClosed \in BOOLEAN
    /\ cut \in BOOLEAN
    /\ life \in {"up", "dead"}
    /\ ended \in BOOLEAN

DuplexInit ==
    /\ toCli = <<>>
    /\ toHost = <<>>
    /\ pipeClosed = FALSE
    /\ cut = FALSE
    /\ life = "up"
    /\ ended = FALSE
-----------------------------------------------------------------------------
(* Write succeeds: the pipe of a dead process may still take a line.       *)
WriteLine(line) ==
    /\ ~pipeClosed
    /\ toCli' = Append(toCli, line)
    /\ UNCHANGED <<toHost, pipeClosed, cut, life, ended>>

(* Write fails: with ErrClosed, or because nobody reads the pipe any more. *)
WriteClosed == pipeClosed /\ UNCHANGED duplexVars
WriteBroken == ~pipeClosed /\ life = "dead" /\ UNCHANGED duplexVars

(* The conversation takes the next frame; Frames is closed when there will *)
(* be none.                                                                *)
TakeFrame ==
    /\ toHost # <<>>
    /\ toHost' = Tail(toHost)
    /\ UNCHANGED <<toCli, pipeClosed, cut, life, ended>>

FramesEnded == toHost = <<>> /\ ended

(* Close, in the order its effects appear: closed is set, then the context *)
(* is cancelled.  Cancelling the context given to Spawn does the latter    *)
(* alone.                                                                  *)
ClosePipe ==
    /\ ~pipeClosed
    /\ pipeClosed' = TRUE
    /\ UNCHANGED <<toCli, toHost, cut, life, ended>>

Cut ==
    /\ cut' = TRUE
    /\ UNCHANGED <<toCli, toHost, pipeClosed, life, ended>>

(* The reader stops: at the end of what a dead process wrote, or anywhere  *)
(* before it once the context is cancelled.                                *)
StopReading ==
    /\ ~ended
    /\ ended' = TRUE
    /\ \/ life = "dead" /\ UNCHANGED toHost
       \/ cut /\ \E k \in 0..Len(toHost) : toHost' = SubSeq(toHost, 1, k)
    /\ UNCHANGED <<toCli, pipeClosed, cut, life>>

(* The reader refuses a line: err is the last frame, and what comes after  *)
(* the frames it had read is lost.  A reader that is cancelled may not get *)
(* to report it.                                                           *)
ReadError(err) ==
    /\ ~ended
    /\ ended' = TRUE
    /\ \E k \in 0..Len(toHost) : toHost' = Append(SubSeq(toHost, 1, k), err)
    /\ UNCHANGED <<toCli, pipeClosed, cut, life>>

DropError(err) ==
    /\ ended /\ cut
    /\ toHost # <<>>
    /\ toHost[Len(toHost)] = err
    /\ toHost' = SubSeq(toHost, 1, Len(toHost) - 1)
    /\ UNCHANGED <<toCli, pipeClosed, cut, life, ended>>

(* The process: reads a line, writes one, dies. *)
ReadLine ==
    /\ life = "up"
    /\ toCli # <<>>
    /\ toCli' = Tail(toCli)

SendFrame(frame) ==
    /\ life = "up"
    /\ toHost' = IF ended THEN toHost ELSE Append(toHost, frame)

Die ==
    /\ life = "up"
    /\ life' = "dead"
    /\ UNCHANGED <<toCli, toHost, pipeClosed, cut, ended>>

DuplexNext(Lines, Frames, err) ==
    \/ \E line \in Lines : WriteLine(line)
    \/ TakeFrame \/ ClosePipe \/ Cut \/ Die
    \/ StopReading \/ ReadError(err) \/ DropError(err)
    \/ ReadLine /\ UNCHANGED <<toHost, pipeClosed, cut, life, ended>>
    \/ \E frame \in Frames : SendFrame(frame) /\ UNCHANGED <<toCli, pipeClosed, cut, life, ended>>
=============================================================================
