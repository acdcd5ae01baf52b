----------------------------- MODULE MCConsole -----------------------------
(* Small instances of the console for TLC. *)
EXTENDS Console

Fine(name) == [name |-> name, decodes |-> TRUE]
MCCalls == {Fine("todo"), Fine("write"), [name |-> "write", decodes |-> FALSE], Fine("shell")}
MCShell == {Fine("shell")}
=============================================================================
