---------------------------- MODULE SlaveControl ----------------------------
(***************************************************************************)
(* The player as its slave-mode front end sees it: mplayer.c's idle loop,  *)
(* opening of a file, main loop, pause loop and choice of the next file,   *)
(* and the commands of command.c that steer them.  Playback itself is only *)
(* the choice of when a file ends and whether it can be opened.            *)
(*                                                                         *)
(* CommandInput models how commands get here.  This module uses what is    *)
(* checked there: they come in order, a command that is peeked at is the   *)
(* next one taken, and mp_input_check_interrupt frees what does not stop   *)
(* an operation.  The play tree is a flat list of single-file entries and  *)
(* there is no video and no GUI.                                           *)
(***************************************************************************)
EXTENDS Integers, Sequences

CONSTANTS
  Scripts,      \* what the front end may send, sequences of commands
  Waits,        \* the front end sends a command only when the last is settled
  IdleMode,     \* player_idle_mode
  FirstLists,   \* the files of the command line, some sequences
  LoopTimes,    \* values of the "loop" option, -1 when not given
  Broken,       \* files that cannot be opened
  MayInterrupt  \* reading a stream may block and ask mp_input_check_interrupt

Ids == {"pause", "seek", "pt_step", "loadfile", "stop", "quit", "get"}
NoFile == "none"

\* pausing: 0 none, 1 "pausing", 2 "_keep", 3 "_toggle", 4 "_keep_force"
Command(c) ==
  /\ c.id \in Ids /\ c.pausing \in 0 .. 4
  /\ c.id = "seek" => c.abs \in BOOLEAN
  /\ c.id = "pt_step" => c.n \in Int \ {0} /\ c.force \in BOOLEAN
  /\ c.id = "loadfile" => c.append \in BOOLEAN
  /\ c.id = "stop" => c.pausing # 4   \* would leave the iterator at the root

ASSUME ControlAssumption ==
  /\ \A s \in Scripts : s \in Seq({s[i] : i \in 1 .. Len(s)}) /\ \A i \in 1 .. Len(s) : Command(s[i])
  /\ \A l \in FirstLists : l \in Seq({l[i] : i \in 1 .. Len(l)})
  /\ {Waits, IdleMode, MayInterrupt} \subseteq BOOLEAN
  /\ LoopTimes \subseteq Nat \union {-1}
  /\ IdleMode \/ <<>> \notin FirstLists

\* mp_core.h
PT_NEXT_ENTRY == 1
PT_PREV_ENTRY == -1
PT_NEXT_SRC   == 2
PT_STOP       == 4

VARIABLES
  unsent, pipe,    \* what the front end has still to write, and has written
  pc,              \* where the player is
  osd_function,    \* "play", "pause" or "seek" (OSD_FFW, OSD_REW)
  was_paused, eof, play_tree_step, loop_times,
  list,            \* the files of the play tree
  iter, fresh,     \* playtree_iter: its entry, 0 when it is NULL; file = -1
  filename,
  ao,              \* the audio output: "closed", "playing", "paused" or "reset"
  moved,           \* history: a command has set eof for the current file
  expect,          \* history: should the player be in paused mode?
  times, plays, starts   \* history: loop_times as given, current file started
                         \* once or again, and all starts (counted to times + 1)

tree   == <<list, iter, fresh, filename>>
player == <<osd_function, was_paused, eof, play_tree_step, loop_times>>
told   == <<moved, expect, times, plays, starts>>
vars   == <<unsent, pipe, pc, player, tree, ao, told>>

Init ==
  /\ unsent \in Scripts /\ pipe = <<>>
  /\ osd_function = "play" /\ was_paused = FALSE /\ eof = 0
  /\ play_tree_step = 1 /\ loop_times \in LoopTimes
  /\ list \in FirstLists /\ fresh = FALSE
  /\ iter = IF list = <<>> THEN 0 ELSE 1
  /\ filename = IF list = <<>> THEN NoFile ELSE list[1]
  /\ pc = IF list = <<>> THEN "idle" ELSE "open"
  /\ ao = "closed" /\ moved = FALSE /\ expect = FALSE
  /\ times = loop_times /\ plays = 0 /\ starts = 0

----------------------------------------------------------------------------
\* The front end.  Settled: the player has done what it will do about the
\* commands it got.

Settled ==
  /\ pipe = <<>>
  /\ \/ pc \in {"pause", "idle"}
     \/ pc = "play" /\ osd_function # "pause" /\ eof = 0

\* slave.txt: what a command says of paused mode.  A command without a prefix
\* leaves it, and "pause" toggles it.
PausedAfter(c, paused) ==
  CASE c.pausing = 1 -> TRUE
    [] c.pausing \in {2, 4} -> paused
    [] c.pausing = 3 -> ~paused
    [] OTHER -> c.id = "pause" /\ ~paused

Send ==
  /\ unsent # <<>>
  /\ Waits => Settled
  /\ unsent' = Tail(unsent)
  /\ pipe' = Append(pipe, Head(unsent))
  /\ expect' = PausedAfter(Head(unsent), expect)
  /\ UNCHANGED <<pc, player, tree, ao, moved, times, plays, starts>>

----------------------------------------------------------------------------
\* command.c: run_command, on r = the state it changes.

Running ==
  [osd |-> osd_function, was |-> was_paused, eof |-> eof, step |-> play_tree_step,
   list |-> list, iter |-> iter, fresh |-> fresh, moved |-> moved,
   brk |-> FALSE, quit |-> FALSE]

Entry(r, n) == r.iter + n \in 1 .. Len(r.list)

PtStepUnguarded(r, c) ==
  [r EXCEPT !.eof = IF c.n > 0 THEN PT_NEXT_ENTRY ELSE PT_PREV_ENTRY,
            !.moved = TRUE, !.step = c.n, !.brk = TRUE]
PtStep(r, c) ==
  LET go == c.force \/ Entry(r, c.n)
      e  == IF ~go THEN r.eof ELSE IF c.n > 0 THEN PT_NEXT_ENTRY ELSE PT_PREV_ENTRY
  IN [r EXCEPT !.eof = e, !.moved = @ \/ go, !.step = IF e # 0 THEN c.n ELSE @, !.brk = TRUE]

LoadFile(r, c) ==
  IF c.append THEN [r EXCEPT !.list = Append(@, c.file), !.brk = TRUE]
  ELSE [r EXCEPT !.list = <<c.file>>, !.iter = 1, !.fresh = TRUE,
                 !.eof = PT_NEXT_SRC, !.moved = TRUE, !.brk = TRUE]

\* An absolute seek sets osd_function only when there is a picture.
Seek(r, c) == [r EXCEPT !.osd = IF c.abs THEN @ ELSE "seek", !.brk = TRUE]
Stop(r) == [r EXCEPT !.eof = PT_STOP, !.moved = TRUE, !.brk = TRUE]

Effect(r, c) ==
  CASE c.id = "pause"    -> [r EXCEPT !.brk = TRUE]
    [] c.id = "seek"     -> Seek(r, c)
    [] c.id = "pt_step"  -> PtStep(r, c)
    [] c.id = "loadfile" -> LoadFile(r, c)
    [] c.id = "stop"     -> Stop(r)
    [] c.id = "quit"     -> [r EXCEPT !.quit = TRUE]
    [] c.id = "get"      -> r

\* "pausing_keep" acts on was_paused; "pause" itself is run as if "pausing".
Pausing(r, p) ==
  CASE p = 1 -> [r EXCEPT !.osd = "pause"]
    [] p = 2 -> IF r.was THEN [r EXCEPT !.osd = "pause"] ELSE r
    [] p = 3 -> IF ~r.was THEN [r EXCEPT !.was = TRUE, !.osd = "pause"]
                ELSE [r EXCEPT !.was = FALSE, !.osd = IF @ = "pause" THEN "play" ELSE @]
    [] OTHER -> r

run_command(r, c) == Pausing(Effect(r, c), IF c.id = "pause" THEN 1 ELSE c.pausing)

Ran(r) ==
  /\ osd_function' = r.osd /\ was_paused' = r.was /\ eof' = r.eof
  /\ play_tree_step' = r.step /\ list' = r.list /\ iter' = r.iter /\ fresh' = r.fresh
  /\ moved' = r.moved

\* What mp_input_get_cmd leaves.
RestPeeked == pipe
Rest == Tail(pipe)

\* exit_player_with_rc
Exit == /\ pc' = "exited" /\ ao' = "closed"
        /\ UNCHANGED <<unsent, player, tree, told>>

----------------------------------------------------------------------------
\* The idle loop: only loadfile and quit are obeyed, "get" stands for the
\* commands that are run.  Any prefix at all leaves the player pausing.
Idle ==
  /\ pc = "idle" /\ pipe # <<>>
  /\ pipe' = Rest
  /\ LET c == Head(pipe)
     IN IF c.id = "quit" THEN Exit
        ELSE /\ osd_function' = IF c.pausing # 0 THEN "pause" ELSE "play"
             /\ was_paused' = IF c.id = "get" THEN run_command(Running, c).was ELSE was_paused
             /\ IF c.id = "loadfile"
                THEN /\ list' = <<c.file>> /\ iter' = 1 /\ fresh' = FALSE
                     /\ filename' = c.file /\ pc' = "open"
                ELSE UNCHANGED <<tree, pc>>
             /\ UNCHANGED <<unsent, eof, play_tree_step, loop_times, ao, told>>

\* loop_times is the number of plays that are left, -1 after the last.
CountLoopDown(n) == IF n > 1 THEN n - 1 ELSE -1
CountLoop(n) == IF n > 1 THEN n - 1 ELSE IF n = 1 THEN -1 ELSE n

Started == starts' = IF starts > times THEN starts ELSE starts + 1

\* The file is open, its decoders are found and its audio output is there.
Opened ==
  /\ pc = "open" /\ filename \notin Broken
  /\ pc' = "play" /\ ao' = "playing" /\ plays' = 1 /\ Started
  /\ loop_times' = CountLoop(loop_times)
  /\ UNCHANGED <<unsent, pipe, osd_function, was_paused, eof, play_tree_step, tree, moved, expect, times>>

\* libmpdemux_was_interrupted(PT_NEXT_ENTRY): takes one command, obeys quit and
\* the steps, and drops any other.
WasInterruptedDropsQuit ==
  LET step == pipe # <<>> /\ Head(pipe).id = "pt_step"
  IN /\ pipe' = IF pipe = <<>> THEN <<>> ELSE Rest
     /\ eof' = IF step /\ Head(pipe).n < 0 THEN PT_PREV_ENTRY ELSE PT_NEXT_ENTRY
     /\ play_tree_step' = IF step THEN Head(pipe).n ELSE play_tree_step
     /\ moved' = step /\ pc' = "next"
     /\ UNCHANGED <<unsent, osd_function, was_paused, loop_times, tree, ao, expect, times, plays, starts>>
WasInterrupted ==
  IF pipe # <<>> /\ Head(pipe).id = "quit" THEN pipe' = Rest /\ Exit
  ELSE LET step == pipe # <<>> /\ Head(pipe).id = "pt_step"
       IN /\ pipe' = IF pipe = <<>> THEN <<>> ELSE Rest
          /\ eof' = IF step /\ Head(pipe).n < 0 THEN PT_PREV_ENTRY ELSE PT_NEXT_ENTRY
          /\ play_tree_step' = IF step THEN Head(pipe).n ELSE play_tree_step
          /\ moved' = step /\ pc' = "next"
          /\ UNCHANGED <<unsent, osd_function, was_paused, loop_times, tree, ao, expect, times, plays, starts>>

\* mp_input_check_interrupt tells a blocking operation (opening the file, reading
\* it for the next frame or for a seek) to stop, or takes the command away.  An
\* interrupted read looks like the end of the file.
Stopping == MayInterrupt /\ pipe # <<>> /\ Head(pipe).id \in {"quit", "pt_step"}

Interrupt ==
  /\ pc \in {"open", "play", "round"} /\ MayInterrupt /\ pipe # <<>> /\ ~Stopping
  /\ pipe' = Rest
  /\ UNCHANGED <<unsent, pc, player, tree, ao, told>>

\* open_stream or the cache's prefill fails ...
OpenFails == pc = "open" /\ (filename \in Broken \/ Stopping) /\ WasInterrupted

\* ... or demux_open, after which no command is looked at.
DemuxFails ==
  /\ pc = "open" /\ (filename \in Broken \/ Stopping)
  /\ pc' = "next"
  /\ UNCHANGED <<unsent, pipe, player, tree, ao, told>>

\* One round of the main loop: audio is written, which may have come to its
\* end; then a pause begins, or the commands are looked at.
Frame ==
  /\ pc = "play"
  /\ \E atEnd \in BOOLEAN : eof' = IF atEnd THEN PT_NEXT_ENTRY ELSE eof
  /\ IF osd_function = "pause" THEN was_paused' = TRUE /\ pc' = "pause" /\ ao' = "paused"
     ELSE UNCHANGED was_paused /\ pc' = "commands" /\ ao' = "playing"
  /\ UNCHANGED <<unsent, pipe, osd_function, play_tree_step, loop_times, tree, told>>

\* pause_loop runs "pausing_keep_force" commands and ends on any other; "pause"
\* has then done its work.  What the audio output holds of a file that is over
\* is not played.
ResumeAudioAlways == "playing"
ResumeAudio == IF eof # 0 THEN "reset" ELSE "playing"

PauseLoop ==
  /\ pc = "pause" /\ pipe # <<>>
  /\ LET c == Head(pipe) IN
     \/ /\ c.pausing = 4
        /\ pipe' = Rest
        /\ IF c.id = "quit" THEN Exit
           ELSE /\ Ran(run_command(Running, c))
                /\ UNCHANGED <<unsent, pc, loop_times, filename, ao, expect, times, plays, starts>>
     \/ /\ c.pausing # 4
        /\ pipe' = IF c.id = "pause" THEN Rest ELSE pipe
        /\ osd_function' = "play" /\ pc' = "commands" /\ ao' = ResumeAudio
        /\ UNCHANGED <<unsent, was_paused, eof, play_tree_step, loop_times, tree, told>>

\* while (!brk_cmd && (cmd = mp_input_get_cmd(...))) ...
RunCommand ==
  /\ pc = "commands" /\ pipe # <<>>
  /\ pipe' = Rest
  /\ LET r == run_command(Running, Head(pipe)) IN
     IF r.quit THEN Exit
     ELSE /\ Ran(r) /\ pc' = IF r.brk THEN "round" ELSE "commands"
          /\ UNCHANGED <<unsent, loop_times, filename, ao, expect, times, plays, starts>>

NoCommand ==
  /\ pc = "commands" /\ pipe = <<>>
  /\ pc' = "round"
  /\ UNCHANGED <<unsent, pipe, player, tree, ao, told>>

\* ... and the end of the round: paused mode is forgotten, the file may loop.
Looping == eof = PT_NEXT_ENTRY /\ loop_times >= 0

Round ==
  /\ pc = "round"
  /\ was_paused' = FALSE
  /\ IF Looping
     THEN /\ eof' = 0 /\ moved' = FALSE /\ loop_times' = CountLoop(loop_times)
          /\ plays' = (IF plays = 1 THEN 2 ELSE plays) /\ Started
     ELSE UNCHANGED <<eof, moved, loop_times, plays, starts>>
  /\ pc' = IF eof' = 0 THEN "play" ELSE "next"
  /\ UNCHANGED <<unsent, pipe, osd_function, play_tree_step, tree, ao, expect, times>>

\* goto_next_file: the entry that is play_tree_step further; or the first file
\* of the entry the iterator was just moved to; or the entry after it.
NextIter ==
  LET n == iter + (IF eof \in {PT_NEXT_ENTRY, PT_PREV_ENTRY} THEN play_tree_step
                   ELSE IF fresh THEN 0 ELSE 1)
  IN IF eof = PT_STOP \/ n \notin 1 .. Len(list) THEN 0 ELSE n

NextFile ==
  /\ pc = "next"
  /\ ao' = "closed"
  /\ iter' = NextIter /\ fresh' = FALSE
  /\ filename' = IF NextIter = 0 THEN NoFile ELSE list[NextIter]
  /\ play_tree_step' = IF eof \in {PT_NEXT_ENTRY, PT_PREV_ENTRY} THEN 1 ELSE play_tree_step
  /\ eof' = 0 /\ moved' = FALSE /\ plays' = 0
  /\ pc' = IF NextIter # 0 THEN "open" ELSE IF IdleMode THEN "idle" ELSE "exited"
  /\ UNCHANGED <<unsent, pipe, osd_function, was_paused, loop_times, list, expect, times, starts>>

\* exit_player_with_rc has ended the process, or all is done and the player
\* waits for a command.
Done ==
  /\ pc = "exited" \/ (pc \in {"idle", "pause"} /\ pipe = <<>> /\ unsent = <<>>)
  /\ UNCHANGED vars

Player == \/ Idle \/ Opened \/ OpenFails \/ DemuxFails \/ Interrupt \/ Frame \/ PauseLoop
          \/ RunCommand \/ NoCommand \/ Round \/ NextFile
Next == Send \/ Player \/ Done

Spec == Init /\ [][Next]_vars

\* The front end goes on writing; the player's loops never stop.
FairSpec == Spec /\ WF_vars(Send) /\ WF_vars(Player)

----------------------------------------------------------------------------
TypeOK ==
  /\ pc \in {"idle", "open", "play", "pause", "commands", "round", "next", "exited"}
  /\ osd_function \in {"play", "pause", "seek"} /\ was_paused \in BOOLEAN
  /\ eof \in {0, PT_NEXT_ENTRY, PT_PREV_ENTRY, PT_NEXT_SRC, PT_STOP}
  /\ play_tree_step \in Int \ {0}
  /\ loop_times \in -1 .. times
  /\ iter \in 0 .. Len(list) /\ fresh \in BOOLEAN
  /\ ao \in {"closed", "playing", "paused", "reset"}
  /\ moved => eof # 0

\* slave.txt on "pausing", "pausing_keep" and "pausing_toggle": when the player
\* has done what it was told, it is in paused mode exactly if the commands it
\* was sent say so.
PausedAsAsked == Settled /\ pc # "idle" => (pc = "pause") = expect

\* slave.txt, "avoids that audio playback starts to play the old file": once a
\* command has moved on from a paused file, none of it is heard.
NoOldAudio == [][(ao \in {"paused", "reset"} /\ moved) => ao' # "playing"]_vars

\* mplayer.1, -loop, "0 means forever": such a file is never left at its end.
\* Else a file is left there only when as many plays as asked for have begun, and
\* the one that is played again is left at just that count; then, or without the
\* option, every file is played once.
LoopsCounted ==
  pc = "next" /\ plays > 0 /\ ~moved =>
    times # 0 /\ starts >= times /\ (plays = 2 => starts = times)

\* A quit ends the player, wherever it is when the quit arrives.
QuitExits ==
  (\E i \in 1 .. Len(unsent) : unsent[i].id = "quit") ~> pc = "exited"

\* Every command the front end writes is taken off the pipe.
AllConsumed == <>(pc = "exited" \/ (unsent = <<>> /\ pipe = <<>>))

----------------------------------------------------------------------------
\* What the front end sees: a player with one current entry that is paused or
\* not, and obeys each command at once.
At == IF pc = "exited" THEN 0 ELSE IF moved THEN NextIter ELSE iter

InPausedMode ==
  \/ pc = "pause" \/ osd_function = "pause"
  \/ pc = "commands" /\ was_paused /\ pipe # <<>>

View == INSTANCE Playback WITH
  todo <- pipe \o unsent, files <- list, entry <- At,
  paused <- At # 0 /\ InPausedMode, over <- (pc = "exited")

ImplementsPlayback == View!Spec
=============================================================================
