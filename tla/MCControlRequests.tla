-------------------------- MODULE MCControlRequests --------------------------
(***************************************************************************)
(* ControlRequests.tla on small instances, and the cases of the pure        *)
(* functions.  The two have nothing to do with each other: a case is taken  *)
(* before the first request and ends the behaviour.                         *)
(***************************************************************************)
EXTENDS ControlRequests, TLC

VARIABLE case
C == INSTANCE Cases

MCInit == Init /\ C!Init
MCNext ==
    \/ case = C!None /\ Next /\ UNCHANGED case
    \/ Init /\ C!Next /\ UNCHANGED vars
MCSpec == MCInit /\ [][MCNext]_<<vars, case>> /\ Fairness

\* A conversation is found again by the history its client replays, and by no other
\* (canonicaliseMessages), whatever its replies were streamed as (collect).
HistoriesFound == C!HistoriesFound

\* Both halves of the way of a tool call through the proxy: from the call to the
\* tool_use the client is asked for, and from the client's answers to the model.
CallsAnswered == C!CallsAnswered

\* What a client sends reaches the process whole or is refused, as a prompt or as
\* the session it resumes (normalise, writeTranscript).
RequestsFaithful == C!RequestsFaithful

\* A diff shown leads from the old text to the new one, and no shorter one does (unifiedDiff).
DiffFaithful == C!DiffFaithful

\* The files the tools touch: only those of the workspace, changed only where they
\* are told, and read without a gap.
FilesSafe == C!FilesSafe

\* What a host offers to the model is what runs, with the arguments its schema allows.
OfferedToolsRun == C!OfferedToolsRun
=============================================================================
