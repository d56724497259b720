--------------------------- MODULE MCSlaveControl ---------------------------
(* Small instances of SlaveControl. "f" and "g" are the files of the command *)
(* line, "n" a new one, "b" cannot be opened.                                *)
EXTENDS SlaveControl

Cmd(id, p)        == [id |-> id, pausing |-> p]
SeekTo(ab, p)     == [id |-> "seek", pausing |-> p, abs |-> ab]
PtStepBy(n, fc, p) == [id |-> "pt_step", pausing |-> p, n |-> n, force |-> fc]
Load(f, ap, p)    == [id |-> "loadfile", pausing |-> p, file |-> f, append |-> ap]

\* All scripts of three or four of the commands.
ScriptsOf(cmds) == [1 .. 3 -> cmds]
ScriptsOf4(cmds) == [1 .. 4 -> cmds]

MCPlain ==
  ScriptsOf4({Cmd("pause", 0), SeekTo(FALSE, 3), SeekTo(TRUE, 0), Cmd("get", 0), Cmd("get", 4), Cmd("get", 2),
             PtStepBy(1, FALSE, 0), PtStepBy(-1, TRUE, 2), Load("n", FALSE, 1),
             Load("n", FALSE, 0), Load("b", TRUE, 1), Cmd("stop", 0), Cmd("quit", 0)})
MCForced ==
  ScriptsOf({Cmd("pause", 0), Cmd("get", 0), Cmd("get", 2), PtStepBy(1, TRUE, 4),
             PtStepBy(-1, FALSE, 0), Load("n", FALSE, 4), Load("b", TRUE, 0), Cmd("stop", 1),
             Cmd("quit", 4), Cmd("quit", 0)})
MCForward  == {<<PtStepBy(1, FALSE, 0)>>}

MCTwo    == {<<"f", "g">>}
MCLists  == {<<"f", "g">>, <<"b", "f", "g">>, <<>>}
MCOption == {-1, 0, 3}
MCForever == {0}
MCNever  == {-1}
=============================================================================
