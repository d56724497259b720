--------------------------- MODULE MCCommandInput ---------------------------
(* Small instances of CommandInput.  "x" is an argument, or an unknown name. *)
EXTENDS CommandInput

MCFds == <<"stdin", "fifo">>

\* Two lines that fit the buffer together, a line of exactly MaxSize - 2 bytes,
\* one too long whose end looks like a command, an unknown command, and an
\* unfinished line.
MCScript ==
  [f \in {"stdin", "fifo"} |->
     IF f = "stdin"
     THEN <<"get", NL, NL, "pause", "x", "x", "stop", NL, "quit", NL, "get">>
     ELSE <<"x", NL, "seek", "x", NL>>]
=============================================================================
