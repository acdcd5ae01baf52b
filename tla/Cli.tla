--------------------------------- MODULE Cli ---------------------------------
(***************************************************************************)
(* The claude process (external: the repository only has its protocol), as *)
(* external/claudecode uses it.  It takes user messages one at a time,     *)
(* says things, asks the host (for permission, for a tool or a hook) and   *)
(* waits for the answer, and ends every turn with one result.  It reads    *)
(* interrupts while a turn runs, and an interrupt ends that turn.          *)
(***************************************************************************)
EXTENDS Duplex

CONSTANTS LastTurn,     \* the last turn number there can be
          MaxSaid,      \* bound on the assistant texts of a turn
          MaxAsks       \* bound on the requests of a turn

ASSUME CliAssumption == LastTurn \in Nat /\ MaxSaid \in Nat /\ MaxAsks \in Nat

VARIABLES
    running,        \* the turn being run; 0 when idle
    stopping,       \* an interrupt was read: the turn is being ended
    asking,         \* the request whose answer it waits for, if any
    said,           \* history: how many texts each turn produced
    asks,           \* how many requests each turn made
    greeted         \* it has read an initialize request

cliVars == <<running, stopping, asking, said, asks, greeted>>

TurnNo == 0..LastTurn

(* What the host writes: "for" is the prompt on whose behalf an interrupt  *)
(* is sent (0: the host's own), or the turn whose request is answered.     *)
Line  == [kind : {"initialize", "user", "interrupt", "answer"}, for : TurnNo]

(* What the process writes.  "text" stands for every frame that becomes an *)
(* event and nothing else, "permission" is can_use_tool, "service" is      *)
(* mcp_message, hook_callback or initialize, "unknown" is a request the    *)
(* conversation cannot read or whose subtype it does not know.  The        *)
(* transport's reader adds an error.                                       *)
ErrFrame == [kind |-> "error", turn |-> 0]
Request == {"permission", "service", "unknown"}
Frame == [kind : {"text", "result"} \cup Request, turn : TurnNo] \cup {ErrFrame}

CliTypeOK ==
    /\ DuplexTypeOK(Line, Frame)
    /\ running \in TurnNo
    /\ stopping \in BOOLEAN
    /\ asking \in Request \cup {"nothing"}
    /\ said \in [1..LastTurn -> 0..MaxSaid]
    /\ asks \in [1..LastTurn -> 0..MaxAsks]
    /\ greeted \in BOOLEAN

CliInit ==
    /\ running = 0
    /\ stopping = FALSE
    /\ asking = "nothing"
    /\ said = [n \in 1..LastTurn |-> 0]
    /\ asks = [n \in 1..LastTurn |-> 0]
    /\ greeted = FALSE
-----------------------------------------------------------------------------
Reads(kind) == ReadLine /\ Head(toCli).kind = kind

CliGreet ==
    /\ Reads("initialize")
    /\ greeted' = TRUE
    /\ UNCHANGED <<toHost, pipeClosed, cut, life, ended, running, stopping, asking, said, asks>>

CliBegin ==
    /\ Reads("user")
    /\ running = 0
    /\ running' = Head(toCli).for
    /\ UNCHANGED <<toHost, pipeClosed, cut, life, ended, stopping, asking, said, asks, greeted>>

(* An interrupt makes the running turn end without another word, whatever  *)
(* it was waiting for; idle, it does nothing.                              *)
CliStop ==
    /\ Reads("interrupt")
    /\ stopping' = (running # 0)
    /\ asking' = "nothing"
    /\ UNCHANGED <<toHost, pipeClosed, cut, life, ended, running, said, asks, greeted>>

(* An answer that comes after its turn was interrupted is dropped. *)
CliHears ==
    /\ Reads("answer")
    /\ asking' = IF Head(toCli).for = running THEN "nothing" ELSE asking
    /\ UNCHANGED <<toHost, pipeClosed, cut, life, ended, running, stopping, said, asks, greeted>>

Free == running # 0 /\ asking = "nothing" /\ ~stopping

CliSays ==
    /\ Free
    /\ said[running] < MaxSaid
    /\ SendFrame([kind |-> "text", turn |-> running])
    /\ said' = [said EXCEPT ![running] = @ + 1]
    /\ UNCHANGED <<toCli, pipeClosed, cut, life, ended, running, stopping, asking, asks, greeted>>

CliAsks ==
    /\ Free
    /\ asks[running] < MaxAsks
    /\ \E kind \in Request :
          /\ SendFrame([kind |-> kind, turn |-> running])
          /\ asking' = kind
    /\ asks' = [asks EXCEPT ![running] = @ + 1]
    /\ UNCHANGED <<toCli, pipeClosed, cut, life, ended, running, stopping, said, greeted>>

CliFinishes ==
    /\ Free \/ stopping
    /\ SendFrame([kind |-> "result", turn |-> running])
    /\ running' = 0
    /\ stopping' = FALSE
    /\ UNCHANGED <<toCli, pipeClosed, cut, life, ended, asking, said, asks, greeted>>

CliReads == CliGreet \/ CliBegin \/ CliStop \/ CliHears
CliStep  == CliReads \/ CliSays \/ CliAsks \/ CliFinishes
=============================================================================
