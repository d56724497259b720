------------------------------ MODULE Playback ------------------------------
(***************************************************************************)
(* What DOCS/tech/slave.txt promises a front end: a player that plays one  *)
(* entry of a list of files, is in paused mode or not, and obeys one       *)
(* command after the other.  SlaveControl is shown to implement it.        *)
(***************************************************************************)
EXTENDS Integers, Sequences

CONSTANTS Scripts, IdleMode, FirstLists

VARIABLES
  todo,    \* the commands the player has not obeyed
  files, entry,   \* entry = 0: the player is idle
  paused, over

vars == <<todo, files, entry, paused, over>>

Init ==
  /\ todo \in Scripts
  /\ files \in FirstLists
  /\ entry = IF files = <<>> THEN 0 ELSE 1
  /\ paused = FALSE /\ over = FALSE

\* A command without a prefix ends paused mode, and "pause" toggles it.
PausedAfter(c) ==
  CASE c.pausing = 1 -> TRUE
    [] c.pausing \in {2, 4} -> paused
    [] c.pausing = 3 -> ~paused
    [] OTHER -> c.id = "pause" /\ ~paused

\* pt_step does nothing when there is no such entry, unless it is forced.
Step(n, force) ==
  IF entry + n \in 1 .. Len(files) THEN entry + n ELSE IF force THEN 0 ELSE entry

\* The entry after a command that is obeyed while a file is played ...
EntryAfter(c) ==
  CASE c.id = "pt_step" -> Step(c.n, c.force)
    [] c.id = "loadfile" /\ ~c.append -> 1
    [] c.id = "stop" -> 0
    [] OTHER -> entry

Obey ==
  /\ ~over /\ todo # <<>> /\ entry # 0 /\ Head(todo).id # "quit"
  /\ todo' = Tail(todo)
  /\ LET c == Head(todo)
     IN /\ entry' = EntryAfter(c)
        /\ files' = IF c.id # "loadfile" THEN files
                    ELSE IF c.append THEN Append(files, c.file) ELSE <<c.file>>
        /\ paused' = (entry' # 0 /\ PausedAfter(c))
        /\ UNCHANGED over

\* ... and while none is: only loadfile does something.
ObeyIdle ==
  /\ ~over /\ todo # <<>> /\ entry = 0 /\ Head(todo).id # "quit"
  /\ todo' = Tail(todo)
  /\ LET c == Head(todo)
     IN IF c.id = "loadfile"
        THEN entry' = 1 /\ files' = <<c.file>> /\ paused' = PausedAfter(c)
        ELSE UNCHANGED <<entry, files, paused>>
  /\ UNCHANGED over

Quit ==
  /\ ~over /\ todo # <<>> /\ Head(todo).id = "quit"
  /\ todo' = Tail(todo) /\ over' = TRUE /\ entry' = 0 /\ paused' = FALSE
  /\ UNCHANGED files

\* A file ends, or cannot be played: the next one follows.
End ==
  /\ ~over /\ entry # 0
  /\ entry' = Step(1, TRUE)
  /\ paused' = (entry' # 0 /\ paused)
  /\ over' = (entry' = 0 /\ ~IdleMode)
  /\ UNCHANGED <<todo, files>>

\* Without idle mode nothing is left to do when nothing is played.
Leave ==
  /\ ~over /\ entry = 0 /\ ~IdleMode
  /\ over' = TRUE
  /\ UNCHANGED <<todo, files, entry, paused>>

Next == Obey \/ ObeyIdle \/ Quit \/ End \/ Leave

Spec == Init /\ [][Next]_vars
=============================================================================
