------------------------- MODULE SlaveControlProofs -------------------------
(***************************************************************************)
(* Proofs about SlaveControl, for every script, list of files and loop     *)
(* count, whether the front end waits or not.                              *)
(***************************************************************************)
EXTENDS SlaveControl, SequenceTheorems, TLAPS

\* What can be in the pipe and in the play tree.
Sent  == UNION {{s[i] : i \in 1 .. Len(s)} : s \in Scripts}
Loaded == {c.file : c \in Sent}
Files == Loaded \union UNION {{l[i] : i \in 1 .. Len(l)} : l \in FirstLists}

Values ==
  /\ TypeOK
  /\ unsent \in Seq(Sent) /\ pipe \in Seq(Sent) /\ list \in Seq(Files)
  /\ moved \in BOOLEAN

\* Where no file is played yet, nothing has been asked of it.
AtStart ==
  /\ pc \in {"idle", "open", "play"} => eof = 0
  /\ pc \in {"idle", "open"} => ao = "closed" /\ plays = 0

\* loop_times is what is left of times.
Counting ==
  /\ times \in Nat \union {-1} /\ starts \in Nat /\ plays \in 0 .. 2
  /\ times = -1 => loop_times = -1 /\ plays # 2
  /\ times = 0 => loop_times = 0
  /\ times > 0 /\ starts < times => loop_times = times - starts
  /\ times > 0 /\ starts >= times => loop_times = -1
  /\ times > 0 /\ plays = 2 => starts <= times
  /\ plays > 0 /\ ~moved /\ eof # 0 => eof = PT_NEXT_ENTRY
  /\ pc = "next" /\ plays > 0 /\ ~moved => eof # 0 /\ loop_times < 0

ControlInv == Values /\ AtStart /\ Counting
----------------------------------------------------------------------------
\* Facts about commands.
LEMMA SentIs == ASSUME NEW c \in Sent PROVE Command(c) /\ c.file \in Files
<1>1. PICK s \in Scripts : c \in {s[i] : i \in 1 .. Len(s)}
  BY DEF Sent
<1>2. PICK i \in 1 .. Len(s) : c = s[i]
  BY <1>1
<1>3. Command(c)
  BY <1>2, ControlAssumption DEF ControlAssumption
<1>4. c.file \in Loaded
  BY DEF Loaded
<1>5. c.file \in Files
  BY <1>4 DEF Files
<1> QED BY <1>3, <1>5

LEMMA Steps == PT_NEXT_ENTRY = 1 /\ PT_PREV_ENTRY = -1 /\ PT_NEXT_SRC = 2 /\ PT_STOP = 4
  BY DEF PT_NEXT_ENTRY, PT_PREV_ENTRY, PT_NEXT_SRC, PT_STOP

LEMMA FirstSent ==
  ASSUME Values, pipe # <<>>
  PROVE  Head(pipe) \in Sent /\ Command(Head(pipe)) /\ Rest \in Seq(Sent)
<1>1. pipe \in Seq(Sent)
  BY DEF Values
<1>2. Head(pipe) \in Sent /\ Tail(pipe) \in Seq(Sent)
  BY <1>1
<1> QED BY <1>2, SentIs DEF Rest

\* What a command leaves of a state r: only Effect moves on, Pausing pauses.
Sound(r) ==
  /\ r.osd \in {"play", "pause", "seek"} /\ r.was \in BOOLEAN
  /\ r.eof \in {0, 1, -1, 2, 4} /\ r.step \in Int \ {0}
  /\ r.list \in Seq(Files) /\ r.iter \in 0 .. Len(r.list) /\ r.fresh \in BOOLEAN
  /\ r.moved \in BOOLEAN /\ (r.moved => r.eof # 0)

Ran1(e, r) ==
  /\ e.eof = r.eof /\ e.step = r.step /\ e.list = r.list /\ e.iter = r.iter
  /\ e.fresh = r.fresh /\ e.moved = r.moved /\ e.brk = r.brk /\ e.quit = r.quit

States == [osd : {"play", "pause", "seek"}, was : BOOLEAN, eof : {0, 1, -1, 2, 4}, step : Int \ {0},
           list : Seq(Files), iter : Nat, fresh : BOOLEAN, moved : BOOLEAN, brk : BOOLEAN, quit : BOOLEAN]

LEMMA RunningIs ==
  ASSUME Values
  PROVE  Running \in States /\ Running.iter \in 0 .. Len(Running.list) /\ (Running.moved => Running.eof # 0)
BY Steps DEF Values, TypeOK, Running, States

\* A state a command may leave, from the state r.
Follows(r, e) ==
  /\ e \in States /\ e.iter \in 0 .. Len(e.list) /\ (e.moved => e.eof # 0)
  /\ (e.moved = r.moved /\ e.eof = r.eof) \/ (e.moved /\ e.eof # 0)
  /\ e.was = r.was

LEMMA EffectIs ==
  ASSUME NEW r \in States, r.iter \in 0 .. Len(r.list), r.moved => r.eof # 0,
         NEW c \in Sent
  PROVE  Follows(r, Effect(r, c))
<1>0. Command(c) /\ c.id \in {"pause", "seek", "pt_step", "loadfile", "stop", "quit", "get"}
      /\ c.file \in Files
  BY SentIs DEF Command, Ids
<1>1. CASE c.id \in {"pause", "quit", "get"}
  <2>1. Effect(r, c) \in {[r EXCEPT !.brk = TRUE], [r EXCEPT !.quit = TRUE], r}
    BY <1>1 DEF Effect
  <2> QED BY <2>1 DEF Follows, States
<1>2. CASE c.id = "seek"
  <2>1. Effect(r, c) = [r EXCEPT !.osd = IF c.abs THEN @ ELSE "seek", !.brk = TRUE]
    BY <1>2 DEF Effect, Seek
  <2> QED BY <2>1 DEF Follows, States
<1>3. CASE c.id = "stop"
  <2> DEFINE e == [r EXCEPT !.eof = 4, !.moved = TRUE, !.brk = TRUE]
  <2>1. Effect(r, c) = e
    BY <1>3, Steps DEF Effect, Stop
  <2>2. e \in States
    BY DEF States
  <2>3. e.eof = 4 /\ e.moved /\ e.was = r.was /\ e.list = r.list /\ e.iter = r.iter
    BY DEF States
  <2> HIDE DEF e
  <2> QED BY <2>1, <2>2, <2>3 DEF Follows
<1>4. CASE c.id = "loadfile"
  <2>1. CASE c.append
    <3>1. Append(r.list, c.file) \in Seq(Files) /\ Len(Append(r.list, c.file)) = Len(r.list) + 1
          /\ Len(r.list) \in Nat
      BY <1>0 DEF States
    <3> DEFINE e == [r EXCEPT !.list = Append(r.list, c.file), !.brk = TRUE]
    <3>2. Effect(r, c) = e
      BY <1>4, <2>1 DEF Effect, LoadFile, States
    <3>3. e \in States
      BY <3>1 DEF States
    <3>4. e.eof = r.eof /\ e.moved = r.moved /\ e.was = r.was /\ e.list = Append(r.list, c.file) /\ e.iter = r.iter
      BY DEF States
    <3> HIDE DEF e
    <3>5. e.iter \in 0 .. Len(e.list)
      BY <3>1, <3>4 DEF States
    <3> QED BY <3>2, <3>3, <3>4, <3>5 DEF Follows
  <2>2. CASE ~c.append
    <3>1. <<c.file>> \in Seq(Files) /\ Len(<<c.file>>) = 1
      BY <1>0
    <3> DEFINE e == [r EXCEPT !.list = <<c.file>>, !.iter = 1, !.fresh = TRUE,
                              !.eof = 2, !.moved = TRUE, !.brk = TRUE]
    <3>2. Effect(r, c) = e
      BY <1>4, <2>2, Steps DEF Effect, LoadFile
    <3>3. e \in States
      BY <3>1 DEF States
    <3>4. e.eof = 2 /\ e.moved /\ e.was = r.was /\ e.list = <<c.file>> /\ e.iter = 1
      BY DEF States
    <3> HIDE DEF e
    <3>5. e.iter \in 0 .. Len(e.list)
      BY <3>1, <3>4
    <3> QED BY <3>2, <3>3, <3>4, <3>5 DEF Follows
  <2> QED BY <2>1, <2>2
<1>5. CASE c.id = "pt_step"
  <2> DEFINE go == c.force \/ Entry(r, c.n)
             n == IF c.n > 0 THEN PT_NEXT_ENTRY ELSE PT_PREV_ENTRY
  <2>1. c.n \in Int \ {0} /\ n \in {1, -1}
    BY <1>0, <1>5, Steps DEF Command
  <2> HIDE DEF n
  <2>2. CASE go
    <3> DEFINE e == [r EXCEPT !.eof = n, !.moved = TRUE, !.step = c.n, !.brk = TRUE]
    <3>1. Effect(r, c) = e
      <4>1. (r.moved \/ TRUE) = TRUE /\ n # 0
        BY <2>1
      <4>2. PtStep(r, c) = [r EXCEPT !.eof = n, !.moved = r.moved \/ TRUE,
                                     !.step = IF n # 0 THEN c.n ELSE r.step, !.brk = TRUE]
        BY <2>2 DEF PtStep, States, n
      <4> QED BY <1>5, <4>1, <4>2 DEF Effect
    <3>2. e \in States
      BY <2>1 DEF States
    <3>3. e.eof = n /\ e.moved /\ e.was = r.was /\ e.list = r.list /\ e.iter = r.iter
      BY DEF States
    <3> HIDE DEF e
    <3>4. e.eof # 0 /\ e.moved
      BY <2>1, <3>3
    <3>5. e.iter \in 0 .. Len(e.list)
      BY <3>3
    <3> QED BY <3>1, <3>2, <3>3, <3>4, <3>5, Zenon DEF Follows
  <2>3. CASE ~go
    <3> DEFINE m == IF r.eof # 0 THEN c.n ELSE r.step
               e == [r EXCEPT !.step = m, !.brk = TRUE]
    <3>1. Effect(r, c) = e
      <4>1. (r.moved \/ FALSE) = r.moved
        BY DEF States
      <4>2. PtStep(r, c) = [r EXCEPT !.eof = r.eof, !.moved = r.moved \/ FALSE, !.step = m, !.brk = TRUE]
        BY <2>3 DEF PtStep, States
      <4>3. PtStep(r, c) = e
        BY <4>1, <4>2 DEF States
      <4> QED BY <1>5, <4>3 DEF Effect
    <3>2. m \in Int \ {0}
      BY <2>1 DEF States
    <3> HIDE DEF m
    <3>3. e \in States
      BY <3>2 DEF States
    <3>4. e.eof = r.eof /\ e.moved = r.moved /\ e.was = r.was /\ e.list = r.list /\ e.iter = r.iter
      BY DEF States
    <3> HIDE DEF e
    <3>5. e.moved => e.eof # 0
      BY <3>4
    <3>6. e.iter \in 0 .. Len(e.list)
      BY <3>4
    <3> QED BY <3>1, <3>3, <3>4, <3>5, <3>6, Zenon DEF Follows
  <2> QED BY <2>2, <2>3
<1> QED BY <1>0, <1>1, <1>2, <1>3, <1>4, <1>5

LEMMA PausingIs ==
  ASSUME NEW e \in States, NEW p \in 0 .. 4
  PROVE  Pausing(e, p) \in States /\ Ran1(e, Pausing(e, p))
BY DEF Pausing, States, Ran1

\* ... so of the player's variables, run_command leaves ones of their type.
LEMMA CommandIs ==
  ASSUME Values, NEW c \in Sent
  PROVE  /\ run_command(Running, c) \in States
         /\ Ran1(Effect(Running, c), run_command(Running, c))
         /\ Follows(Running, Effect(Running, c))
<1>1. Follows(Running, Effect(Running, c))
  BY RunningIs, EffectIs
<1>2. (IF c.id = "pause" THEN 1 ELSE c.pausing) \in 0 .. 4
  BY SentIs DEF Command
<1> QED BY <1>1, <1>2, PausingIs DEF run_command, Follows

LEMMA RanKeeps ==
  ASSUME ControlInv, NEW c \in Sent, Ran(run_command(Running, c))
  PROVE  /\ osd_function' \in {"play", "pause", "seek"} /\ was_paused' \in BOOLEAN
         /\ eof' \in {0, 1, -1, 2, 4} /\ play_tree_step' \in Int \ {0}
         /\ list' \in Seq(Files) /\ iter' \in 0 .. Len(list') /\ fresh' \in BOOLEAN
         /\ moved' \in BOOLEAN /\ (moved' => eof' # 0)
         /\ (moved' = moved /\ eof' = eof) \/ (moved' /\ eof' # 0)
<1> DEFINE r == run_command(Running, c)
           e == Effect(Running, c)
<1>1. r \in States /\ Ran1(e, r) /\ Follows(Running, e)
  BY CommandIs DEF ControlInv
<1>2. Running.moved = moved /\ Running.eof = eof
  BY DEF Running
<1>3. /\ osd_function' = r.osd /\ was_paused' = r.was /\ eof' = r.eof
      /\ play_tree_step' = r.step /\ list' = r.list /\ iter' = r.iter /\ fresh' = r.fresh
      /\ moved' = r.moved
  BY DEF Ran
<1> HIDE DEF r, e
<1>4. /\ osd_function' \in {"play", "pause", "seek"} /\ was_paused' \in BOOLEAN
      /\ eof' \in {0, 1, -1, 2, 4} /\ play_tree_step' \in Int \ {0}
      /\ list' \in Seq(Files) /\ fresh' \in BOOLEAN /\ moved' \in BOOLEAN
  BY <1>1, <1>3 DEF States
<1>5. /\ iter' \in 0 .. Len(list') /\ (moved' => eof' # 0)
      /\ (moved' = moved /\ eof' = eof) \/ (moved' /\ eof' # 0)
  BY <1>1, <1>2, <1>3 DEF Ran1, Follows
<1> QED BY <1>4, <1>5, Zenon

----------------------------------------------------------------------------
\* The steps, one by one.
LEMMA Times == ASSUME ControlInv PROVE times \in Int /\ loop_times \in Int /\ starts \in Nat
  BY DEF ControlInv, Values, TypeOK, Counting

LEMMA ExitKeeps == ASSUME ControlInv, pipe' \in Seq(Sent), Exit PROVE ControlInv'
<1>1. /\ pc' = "exited" /\ ao' = "closed"
      /\ UNCHANGED <<unsent, osd_function, was_paused, eof, play_tree_step, loop_times>>
      /\ UNCHANGED <<list, iter, fresh, filename, moved, expect, times, plays, starts>>
  BY DEF Exit, player, tree, told
<1>2. Values'
  BY <1>1 DEF ControlInv, Values, TypeOK
<1> QED BY <1>1, <1>2 DEF ControlInv, AtStart, Counting

\* Steps that change the pipe and what is still to be written only.
LEMMA PipeKeeps ==
  ASSUME ControlInv, pipe' \in Seq(Sent), unsent' \in Seq(Sent),
         UNCHANGED <<pc, player, tree, ao, moved, times, plays, starts>>
  PROVE  ControlInv'
<1>1. /\ UNCHANGED <<pc, ao, osd_function, was_paused, eof, play_tree_step, loop_times>>
      /\ UNCHANGED <<list, iter, fresh, filename, moved, times, plays, starts>>
  BY DEF player, tree
<1>2. Values'
  BY <1>1 DEF ControlInv, Values, TypeOK
<1> QED BY <1>1, <1>2 DEF ControlInv, AtStart, Counting

LEMMA SendKeeps == ASSUME ControlInv, Send PROVE ControlInv'
<1>1. unsent \in Seq(Sent) /\ pipe \in Seq(Sent) /\ unsent # <<>>
  BY DEF ControlInv, Values, Send
<1>2. unsent' \in Seq(Sent) /\ pipe' \in Seq(Sent)
  BY <1>1 DEF Send
<1> QED BY <1>2, PipeKeeps DEF Send

LEMMA InterruptKeeps == ASSUME ControlInv, Interrupt PROVE ControlInv'
<1>1. pipe' \in Seq(Sent) /\ unsent' \in Seq(Sent)
  BY FirstSent DEF ControlInv, Values, Interrupt
<1> QED BY <1>1, PipeKeeps DEF Interrupt, told

LEMMA IdleKeeps == ASSUME ControlInv, Idle PROVE ControlInv'
<1> DEFINE c == Head(pipe)
<1>1. c \in Sent /\ Command(c) /\ c.file \in Files /\ pipe' \in Seq(Sent)
  BY FirstSent, SentIs DEF ControlInv, Idle
<1>2. CASE c.id = "quit"
  BY <1>1, <1>2, ExitKeeps DEF Idle
<1>3. CASE c.id # "quit"
  <2>1. /\ pc = "idle"
        /\ osd_function' = IF c.pausing # 0 THEN "pause" ELSE "play"
        /\ was_paused' = IF c.id = "get" THEN run_command(Running, c).was ELSE was_paused
        /\ IF c.id = "loadfile"
           THEN /\ list' = <<c.file>> /\ iter' = 1 /\ fresh' = FALSE
                /\ filename' = c.file /\ pc' = "open"
           ELSE UNCHANGED <<tree, pc>>
        /\ UNCHANGED <<unsent, eof, play_tree_step, loop_times, ao, moved, expect, times, plays, starts>>
    BY <1>3 DEF Idle, told
  <2>2. osd_function' \in {"play", "pause", "seek"} /\ was_paused' \in BOOLEAN
    <3>1. run_command(Running, c).was \in BOOLEAN
      BY <1>1, CommandIs DEF ControlInv, States
    <3>2. was_paused \in BOOLEAN
      BY DEF ControlInv, Values, TypeOK
    <3> QED BY <2>1, <3>1, <3>2
  <2>3. /\ list' \in Seq(Files) /\ iter' \in 0 .. Len(list') /\ fresh' \in BOOLEAN /\ pc' \in {"idle", "open"}
    <3>1. CASE c.id = "loadfile"
      <4>1. <<c.file>> \in Seq(Files) /\ Len(<<c.file>>) = 1
        BY <1>1
      <4>2. list' = <<c.file>> /\ iter' = 1 /\ fresh' = FALSE /\ pc' = "open"
        BY <2>1, <3>1
      <4>3. list' \in Seq(Files) /\ Len(list') = 1
        BY <4>1, <4>2
      <4>4. fresh' \in BOOLEAN /\ pc' \in {"idle", "open"}
        BY <4>2, Zenon
      <4>5. iter' \in 0 .. Len(list')
        BY <4>2, <4>3
      <4> QED BY <4>3, <4>4, <4>5, Zenon
    <3>2. CASE c.id # "loadfile"
      BY <2>1, <3>2 DEF tree, ControlInv, Values, TypeOK
    <3> QED BY <3>1, <3>2
  <2>4. Values'
    BY <1>1, <2>1, <2>2, <2>3 DEF ControlInv, Values, TypeOK
  <2> QED BY <2>1, <2>3, <2>4 DEF ControlInv, AtStart, Counting
<1> QED BY <1>2, <1>3

LEMMA CountLoopIs ==
  ASSUME NEW n \in Int, n >= -1
  PROVE  CountLoop(n) \in Int /\ -1 <= CountLoop(n) /\ CountLoop(n) <= n
         /\ (n = -1 => CountLoop(n) = -1) /\ (n = 0 => CountLoop(n) = 0)
         /\ (n = 1 => CountLoop(n) = -1) /\ (n > 1 => CountLoop(n) = n - 1)
  BY DEF CountLoop

LEMMA OpenedKeeps == ASSUME ControlInv, Opened PROVE ControlInv'
<1>1. /\ pc = "open" /\ pc' = "play" /\ ao' = "playing" /\ plays' = 1
      /\ starts' = IF starts > times THEN starts ELSE starts + 1
      /\ loop_times' = CountLoop(loop_times)
      /\ UNCHANGED <<unsent, pipe, osd_function, was_paused, eof, play_tree_step>>
      /\ UNCHANGED <<list, iter, fresh, filename, moved, expect, times>>
  BY DEF Opened, Started, tree
<1>2. loop_times \in Int /\ loop_times >= -1 /\ loop_times <= times /\ times \in Int /\ starts \in Nat
  BY DEF ControlInv, Values, TypeOK, Counting
<1>3. loop_times' \in -1 .. times
  BY <1>1, <1>2, CountLoopIs
<1>4. Values'
  BY <1>1, <1>3 DEF ControlInv, Values, TypeOK
<1>5. AtStart'
  BY <1>1 DEF ControlInv, AtStart
<1>6. eof' = 0
  BY <1>1, <1>5 DEF AtStart
<1>7. Counting'
  <2>1. times' \in Nat \union {-1} /\ starts' \in Nat /\ plays' \in 0 .. 2
    BY <1>1, <1>2 DEF ControlInv, Counting
  <2>2. /\ times' = -1 => loop_times' = -1 /\ plays' # 2
        /\ times' = 0 => loop_times' = 0
    BY <1>1, <1>2, CountLoopIs DEF ControlInv, Counting
  <2>3. /\ times' > 0 /\ starts' < times' => loop_times' = times' - starts'
        /\ times' > 0 /\ starts' >= times' => loop_times' = -1
    BY <1>1, <1>2, CountLoopIs DEF ControlInv, Counting
  <2> QED BY <1>1, <1>6, <2>1, <2>2, <2>3 DEF Counting
<1> QED BY <1>4, <1>5, <1>7 DEF ControlInv

LEMMA OpenFailsKeeps == ASSUME ControlInv, OpenFails PROVE ControlInv'
<1>1. pc = "open" /\ WasInterrupted
  BY DEF OpenFails
<1>2. pipe' \in Seq(Sent)
  BY <1>1, FirstSent DEF WasInterrupted, ControlInv, Values
<1>3. CASE pipe # <<>> /\ Head(pipe).id = "quit"
  BY <1>1, <1>2, <1>3, ExitKeeps DEF WasInterrupted
<1>4. CASE ~(pipe # <<>> /\ Head(pipe).id = "quit")
  <2> DEFINE step == pipe # <<>> /\ Head(pipe).id = "pt_step"
  <2>1. /\ eof' = IF step /\ Head(pipe).n < 0 THEN PT_PREV_ENTRY ELSE PT_NEXT_ENTRY
        /\ play_tree_step' = IF step THEN Head(pipe).n ELSE play_tree_step
        /\ moved' = step /\ pc' = "next"
        /\ UNCHANGED <<unsent, osd_function, was_paused, loop_times, tree, ao, expect, times, plays, starts>>
    BY <1>1, <1>4 DEF WasInterrupted
  <2>2. moved' \in BOOLEAN
    BY <2>1, Zenon
  <2>3. step => Head(pipe).n \in Int \ {0}
    BY FirstSent DEF ControlInv, Command
  <2>4. eof' \in {1, -1} /\ play_tree_step' \in Int \ {0}
    <3>1. play_tree_step \in Int \ {0}
      BY DEF ControlInv, Values, TypeOK
    <3> QED BY <2>1, <2>3, <3>1, Steps
  <2>5. UNCHANGED <<list, iter, fresh, filename>>
    BY <2>1 DEF tree
  <2>6. pc' = "next" /\ eof' # 0
        /\ UNCHANGED <<unsent, osd_function, was_paused, loop_times, ao, times, plays, starts>>
    BY <2>1, <2>4
  <2>7. Values'
    BY <1>2, <2>2, <2>4, <2>5, <2>6, Steps DEF ControlInv, Values, TypeOK
  <2>8. plays = 0
    BY <1>1 DEF ControlInv, AtStart
  <2> QED BY <2>6, <2>7, <2>8 DEF ControlInv, AtStart, Counting
<1> QED BY <1>3, <1>4

LEMMA RoundsKeep == ASSUME ControlInv, DemuxFails \/ NoCommand PROVE ControlInv'
<1>1. /\ pc \in {"open", "commands"} /\ (pc = "open" => pc' = "next") /\ (pc = "commands" => pc' = "round")
      /\ UNCHANGED <<unsent, pipe, ao, osd_function, was_paused, eof, play_tree_step, loop_times>>
      /\ UNCHANGED <<list, iter, fresh, filename, moved, expect, times, plays, starts>>
  BY DEF DemuxFails, NoCommand, player, tree, told
<1>2. Values'
  BY <1>1 DEF ControlInv, Values, TypeOK
<1> QED BY <1>1, <1>2 DEF ControlInv, AtStart, Counting

LEMMA FrameKeeps == ASSUME ControlInv, Frame PROVE ControlInv'
<1>1. /\ pc = "play" /\ eof' \in {eof, PT_NEXT_ENTRY}
      /\ was_paused' \in {was_paused, TRUE} /\ pc' \in {"pause", "commands"} /\ ao' \in {"paused", "playing"}
      /\ UNCHANGED <<unsent, pipe, osd_function, play_tree_step, loop_times>>
      /\ UNCHANGED <<list, iter, fresh, filename, moved, expect, times, plays, starts>>
  BY DEF Frame, tree, told
<1>2. eof = 0 /\ ~moved /\ was_paused \in BOOLEAN
  BY <1>1 DEF ControlInv, AtStart, Values, TypeOK
<1>3. Values'
  BY <1>1, <1>2, Steps DEF ControlInv, Values, TypeOK
<1> QED BY <1>1, <1>2, <1>3 DEF ControlInv, AtStart, Counting

\* A command that is run in the main loop or in the pause loop.
LEMMA RunKeeps ==
  ASSUME ControlInv, NEW c \in Sent, Ran(run_command(Running, c)), pipe' \in Seq(Sent),
         pc' \in {"pause", "commands", "round"},
         UNCHANGED <<unsent, loop_times, filename, ao, expect, times, plays, starts>>
  PROVE  ControlInv'
<1>1. /\ osd_function' \in {"play", "pause", "seek"} /\ was_paused' \in BOOLEAN
      /\ eof' \in {0, 1, -1, 2, 4} /\ play_tree_step' \in Int \ {0}
      /\ list' \in Seq(Files) /\ iter' \in 0 .. Len(list') /\ fresh' \in BOOLEAN
      /\ moved' \in BOOLEAN /\ (moved' => eof' # 0)
      /\ (moved' = moved /\ eof' = eof) \/ (moved' /\ eof' # 0)
  BY RanKeeps
<1>2. Values'
  BY <1>1, Steps DEF ControlInv, Values, TypeOK
<1>3. AtStart'
  BY DEF AtStart
<1>4. Counting'
  <2>1. plays' > 0 /\ ~moved' /\ eof' # 0 => eof' = PT_NEXT_ENTRY
    BY <1>1 DEF ControlInv, Counting
  <2> QED BY <2>1 DEF ControlInv, Counting
<1> QED BY <1>2, <1>3, <1>4 DEF ControlInv

LEMMA RunCommandKeeps == ASSUME ControlInv, RunCommand PROVE ControlInv'
<1> DEFINE c == Head(pipe)
           r == run_command(Running, c)
<1>1. c \in Sent /\ pipe' \in Seq(Sent)
  BY FirstSent DEF ControlInv, RunCommand
<1>2. CASE r.quit
  BY <1>1, <1>2, ExitKeeps DEF RunCommand
<1>3. CASE ~r.quit
  <2>1. /\ Ran(r) /\ pc' \in {"round", "commands"}
        /\ UNCHANGED <<unsent, loop_times, filename, ao, expect, times, plays, starts>>
    BY <1>3 DEF RunCommand
  <2> QED BY <1>1, <2>1, RunKeeps
<1> QED BY <1>2, <1>3

LEMMA PauseLoopKeeps == ASSUME ControlInv, PauseLoop PROVE ControlInv'
<1> DEFINE c == Head(pipe)
<1>1. c \in Sent /\ Rest \in Seq(Sent) /\ pipe \in Seq(Sent) /\ pc = "pause"
  BY FirstSent DEF ControlInv, Values, PauseLoop
<1>2. CASE c.pausing = 4 /\ c.id = "quit"
  BY <1>1, <1>2, ExitKeeps DEF PauseLoop
<1>3. CASE c.pausing = 4 /\ c.id # "quit"
  <2>1. /\ Ran(run_command(Running, c)) /\ pipe' = Rest /\ pc' = pc
        /\ UNCHANGED <<unsent, loop_times, filename, ao, expect, times, plays, starts>>
    BY <1>3 DEF PauseLoop
  <2> QED BY <1>1, <2>1, RunKeeps
<1>4. CASE c.pausing # 4
  <2>1. /\ pipe' \in {Rest, pipe} /\ osd_function' = "play" /\ pc' = "commands" /\ ao' = ResumeAudio
        /\ UNCHANGED <<unsent, was_paused, eof, play_tree_step, loop_times>>
        /\ UNCHANGED <<list, iter, fresh, filename, moved, expect, times, plays, starts>>
    BY <1>4 DEF PauseLoop, tree, told
  <2>2. Values'
    BY <1>1, <2>1 DEF ControlInv, Values, TypeOK, ResumeAudio
  <2> QED BY <2>1, <2>2 DEF ControlInv, AtStart, Counting
<1> QED BY <1>2, <1>3, <1>4

LEMMA RoundKeeps == ASSUME ControlInv, Round PROVE ControlInv'
<1>0. /\ pc = "round" /\ was_paused' = FALSE
      /\ pc' = IF eof' = 0 THEN "play" ELSE "next"
      /\ UNCHANGED <<unsent, pipe, osd_function, play_tree_step, list, iter, fresh, filename, ao, expect, times>>
  BY DEF Round, tree
<1>1. loop_times \in Int /\ loop_times >= -1 /\ loop_times <= times /\ times \in Int /\ starts \in Nat
      /\ plays \in 0 .. 2
  BY DEF ControlInv, Values, TypeOK, Counting
<1>2. CASE Looping
  <2>1. /\ eof' = 0 /\ moved' = FALSE /\ loop_times' = CountLoop(loop_times) /\ loop_times >= 0
        /\ plays' = (IF plays = 1 THEN 2 ELSE plays)
        /\ starts' = IF starts > times THEN starts ELSE starts + 1
    BY <1>2 DEF Round, Started, Looping
  <2>2. loop_times' \in -1 .. times'
    BY <1>0, <1>1, <2>1, CountLoopIs
  <2>3. Values'
    BY <1>0, <2>1, <2>2 DEF ControlInv, Values, TypeOK
  <2>4. AtStart'
    BY <1>0, <2>1 DEF AtStart
  <2>5. Counting'
    <3>1. times' \in Nat \union {-1} /\ starts' \in Nat /\ plays' \in 0 .. 2
      BY <1>0, <1>1, <2>1 DEF ControlInv, Counting
    <3>2. /\ times' = -1 => loop_times' = -1 /\ plays' # 2
          /\ times' = 0 => loop_times' = 0
      BY <1>0, <1>1, <2>1, CountLoopIs DEF ControlInv, Counting
    <3>3. /\ times' > 0 /\ starts' < times' => loop_times' = times' - starts'
          /\ times' > 0 /\ starts' >= times' => loop_times' = -1
      BY <1>0, <1>1, <2>1, CountLoopIs DEF ControlInv, Counting
    <3>4. times' > 0 /\ plays' = 2 => starts' <= times'
      BY <1>0, <1>1, <2>1 DEF ControlInv, Counting
    <3> QED BY <1>0, <2>1, <3>1, <3>2, <3>3, <3>4 DEF Counting
  <2> QED BY <2>3, <2>4, <2>5 DEF ControlInv
<1>3. CASE ~Looping
  <2>1. UNCHANGED <<eof, moved, loop_times, plays, starts>>
    BY <1>3 DEF Round
  <2>2. Values'
    BY <1>0, <2>1 DEF ControlInv, Values, TypeOK
  <2>3. AtStart'
    BY <1>0, <2>1 DEF AtStart
  <2>4. pc' = "next" /\ plays' > 0 /\ ~moved' => eof' # 0 /\ loop_times' < 0
    BY <1>0, <1>1, <1>3, <2>1 DEF ControlInv, Counting, Looping
  <2> QED BY <1>0, <2>1, <2>2, <2>3, <2>4 DEF ControlInv, Counting
<1> QED BY <1>2, <1>3

LEMMA NextFileKeeps == ASSUME ControlInv, NextFile PROVE ControlInv'
<1>1. /\ pc = "next" /\ ao' = "closed" /\ iter' = NextIter /\ fresh' = FALSE
      /\ play_tree_step' \in {1, play_tree_step}
      /\ eof' = 0 /\ moved' = FALSE /\ plays' = 0 /\ pc' \in {"open", "idle", "exited"}
      /\ UNCHANGED <<unsent, pipe, osd_function, was_paused, loop_times, list, expect, times, starts>>
  BY DEF NextFile
<1>2. NextIter \in 0 .. Len(list)
  <2>1. Len(list) \in Nat
    BY DEF ControlInv, Values
  <2> QED BY <2>1 DEF NextIter
<1>3. play_tree_step' \in Int \ {0} /\ iter' \in 0 .. Len(list')
  BY <1>1, <1>2 DEF ControlInv, Values, TypeOK
<1>4. Values'
  BY <1>1, <1>3 DEF ControlInv, Values, TypeOK
<1> QED BY <1>1, <1>4 DEF ControlInv, AtStart, Counting

LEMMA InitControl == Init => ControlInv
<1> SUFFICES ASSUME Init PROVE ControlInv
  OBVIOUS
<1>1. unsent \in Seq(Sent)
  <2>1. unsent \in Seq({unsent[i] : i \in 1 .. Len(unsent)}) /\ unsent \in Scripts
    BY ControlAssumption DEF ControlAssumption, Init
  <2>2. {unsent[i] : i \in 1 .. Len(unsent)} \subseteq Sent
    BY <2>1 DEF Sent
  <2> QED BY <2>1, <2>2
<1>2. list \in Seq(Files)
  <2>1. list \in Seq({list[i] : i \in 1 .. Len(list)}) /\ list \in FirstLists
    BY ControlAssumption DEF ControlAssumption, Init
  <2>2. {list[i] : i \in 1 .. Len(list)} \subseteq Files
    BY <2>1 DEF Files
  <2> QED BY <2>1, <2>2
<1>3. iter \in 0 .. Len(list)
  BY <1>2 DEF Init
<1>4. loop_times \in Nat \union {-1} /\ times = loop_times
  BY ControlAssumption DEF ControlAssumption, Init
<1>5. Values
  <2>1. loop_times \in -1 .. times /\ pipe \in Seq(Sent)
    BY <1>4 DEF Init
  <2>2. pc \in {"idle", "open"} /\ 1 \in Int \ {0}
    BY DEF Init
  <2> QED BY <1>1, <1>2, <1>3, <2>1, <2>2 DEF Init, Values, TypeOK
<1>6. AtStart
  BY DEF Init, AtStart
<1>7. Counting
  BY <1>4 DEF Init, Counting
<1> QED BY <1>5, <1>6, <1>7 DEF ControlInv

LEMMA NextControl == ASSUME ControlInv, [Next]_vars PROVE ControlInv'
<1>1. CASE UNCHANGED vars
  <2>1. UNCHANGED <<pc, player, tree, ao, moved, times, plays, starts, pipe, unsent>>
    BY <1>1 DEF vars, told
  <2> QED BY <2>1, PipeKeeps DEF ControlInv, Values
<1>2. CASE Next /\ ~UNCHANGED vars
  BY <1>2, SendKeeps, IdleKeeps, OpenedKeeps, OpenFailsKeeps, InterruptKeeps, RoundsKeep, FrameKeeps, PauseLoopKeeps,
     RunCommandKeeps, RoundKeeps, NextFileKeeps DEF Next, Player, Done
<1> QED BY <1>1, <1>2

LEMMA ControlInvariant == Spec => []ControlInv
  BY InitControl, NextControl, PTL DEF Spec

\* Every variable stays in its range, and a file is current or none is.
THEOREM ControlTypes == Spec => []TypeOK
<1>1. ControlInv => TypeOK
  BY DEF ControlInv, Values
<1> QED BY <1>1, ControlInvariant, PTL

\* A file is left at its end after just as many plays as were asked for, and
\* never when it is to be played for ever.
THEOREM LoopsAreCounted == Spec => []LoopsCounted
<1>1. ControlInv => LoopsCounted
  <2> SUFFICES ASSUME ControlInv, pc = "next", plays > 0, ~moved
               PROVE  times # 0 /\ starts >= times /\ (plays = 2 => starts = times)
    BY DEF LoopsCounted
  <2>1. loop_times < 0 /\ times \in Int /\ starts \in Nat /\ loop_times \in Int
    BY Times DEF ControlInv, Counting
  <2> QED BY <2>1 DEF ControlInv, Counting
<1> QED BY <1>1, ControlInvariant, PTL

\* Once a command has moved on from a paused file, none of it is heard.
THEOREM OldAudioIsGone == Spec => NoOldAudio
<1>1. ControlInv /\ [Next]_vars => [(ao \in {"paused", "reset"} /\ moved) => ao' # "playing"]_vars
  <2> SUFFICES ASSUME ControlInv, Next, ao \in {"paused", "reset"}, moved, ao' = "playing" PROVE FALSE
    OBVIOUS
  <2>1. eof # 0 /\ pc \notin {"idle", "open", "play"}
    BY DEF ControlInv, Values, TypeOK, AtStart
  <2>2. ~UNCHANGED ao
    OBVIOUS
  <2>3. PauseLoop
    BY <2>1, <2>2 DEF Next, Player, Send, Done, Idle, Opened, OpenFails, DemuxFails, Interrupt, Frame, RunCommand, NoCommand,
       Round, NextFile, Exit, vars
  <2> QED BY <2>1, <2>3 DEF PauseLoop, ResumeAudio, Exit
<1> QED BY <1>1, ControlInvariant, PTL DEF Spec, NoOldAudio

----------------------------------------------------------------------------
\* What one command does to the entry, to the list and to paused mode.
Goes(c) == c.force \/ iter + c.n \in 1 .. Len(list)
Spins(c) == c.id = "seek" /\ ~c.abs
Stays(c) == c.id \in {"pause", "seek", "get", "quit"} \/ (c.id = "loadfile" /\ c.append)

Moves(c) ==
  /\ c.id # "loadfile" => list' = list
  /\ c.id = "loadfile" => list' = IF c.append THEN Append(list, c.file) ELSE <<c.file>>
  /\ Stays(c) => UNCHANGED <<iter, fresh, eof, moved, play_tree_step>>
  /\ c.id = "loadfile" /\ ~c.append =>
       iter' = 1 /\ fresh' /\ eof' = PT_NEXT_SRC /\ moved' /\ play_tree_step' = play_tree_step
  /\ c.id = "stop" => UNCHANGED <<iter, fresh, play_tree_step>> /\ eof' = PT_STOP /\ moved'
  /\ c.id = "pt_step" /\ Goes(c) =>
       /\ UNCHANGED <<iter, fresh>> /\ moved' /\ play_tree_step' = c.n
       /\ eof' = IF c.n > 0 THEN PT_NEXT_ENTRY ELSE PT_PREV_ENTRY
  /\ c.id = "pt_step" /\ ~Goes(c) =>
       UNCHANGED <<iter, fresh, eof, moved>> /\ play_tree_step' = IF eof # 0 THEN c.n ELSE play_tree_step

Pauses(c) ==
  LET p == IF c.id = "pause" THEN 1 ELSE c.pausing
      o == IF Spins(c) THEN "seek" ELSE osd_function
  IN /\ p \in {0, 4} => osd_function' = o /\ was_paused' = was_paused
     /\ p = 1 => osd_function' = "pause" /\ was_paused' = was_paused
     /\ p = 2 => osd_function' = (IF was_paused THEN "pause" ELSE o) /\ was_paused' = was_paused
     /\ p = 3 /\ ~was_paused => osd_function' = "pause" /\ was_paused'
     /\ p = 3 /\ was_paused => osd_function' = (IF o = "pause" THEN "play" ELSE o) /\ ~was_paused'

\* The same of a state e that Effect leaves.
Effected(e, c) ==
  /\ e.was = was_paused /\ e.osd = IF Spins(c) THEN "seek" ELSE osd_function
  /\ e.brk <=> c.id \notin {"get", "quit"}
  /\ e.quit <=> c.id = "quit"
  /\ c.id # "loadfile" => e.list = list
  /\ c.id = "loadfile" => e.list = IF c.append THEN Append(list, c.file) ELSE <<c.file>>
  /\ Stays(c) => e.iter = iter /\ e.fresh = fresh /\ e.eof = eof /\ e.moved = moved /\ e.step = play_tree_step
  /\ c.id = "loadfile" /\ ~c.append =>
       e.iter = 1 /\ e.fresh /\ e.eof = PT_NEXT_SRC /\ e.moved /\ e.step = play_tree_step
  /\ c.id = "stop" => e.iter = iter /\ e.fresh = fresh /\ e.step = play_tree_step /\ e.eof = PT_STOP /\ e.moved
  /\ c.id = "pt_step" /\ Goes(c) =>
       /\ e.iter = iter /\ e.fresh = fresh /\ e.moved /\ e.step = c.n
       /\ e.eof = IF c.n > 0 THEN PT_NEXT_ENTRY ELSE PT_PREV_ENTRY
  /\ c.id = "pt_step" /\ ~Goes(c) =>
       /\ e.iter = iter /\ e.fresh = fresh /\ e.eof = eof /\ e.moved = moved
       /\ e.step = IF eof # 0 THEN c.n ELSE play_tree_step

LEMMA Effects == ASSUME Values, NEW c \in Sent PROVE Effected(Effect(Running, c), c)
<1> DEFINE e == Effect(Running, c)
           r == Running
<1>0. Command(c) /\ c.id \in {"pause", "seek", "pt_step", "loadfile", "stop", "quit", "get"}
  BY SentIs DEF Command, Ids
<1>1. /\ r.osd = osd_function /\ r.was = was_paused /\ r.eof = eof /\ r.step = play_tree_step
      /\ r.list = list /\ r.iter = iter /\ r.fresh = fresh /\ r.moved = moved /\ ~r.brk /\ ~r.quit
  BY DEF Running
<1>2. r \in States
  BY RunningIs
<1> HIDE DEF r
<1>3. CASE c.id \in {"pause", "seek", "quit", "get"}
  <2>1. CASE c.id = "pause"
    <3>1. e = [r EXCEPT !.brk = TRUE]
      BY <2>1 DEF Effect, r
    <3> HIDE DEF e
    <3>2. /\ e.was = was_paused /\ e.osd = osd_function /\ e.brk /\ ~e.quit /\ e.list = list
          /\ e.iter = iter /\ e.fresh = fresh /\ e.eof = eof /\ e.moved = moved /\ e.step = play_tree_step
      BY <1>1, <1>2, <3>1 DEF States
    <3> QED BY <2>1, <3>2 DEF Effected, Spins, Stays, e
  <2>2. CASE c.id = "seek"
    <3>1. e = [r EXCEPT !.osd = IF c.abs THEN @ ELSE "seek", !.brk = TRUE]
      BY <2>2 DEF Effect, Seek, r
    <3> HIDE DEF e
    <3>2. /\ e.was = was_paused /\ e.osd = (IF Spins(c) THEN "seek" ELSE osd_function) /\ e.brk /\ ~e.quit /\ e.list = list
          /\ e.iter = iter /\ e.fresh = fresh /\ e.eof = eof /\ e.moved = moved /\ e.step = play_tree_step
      BY <1>1, <1>2, <2>2, <3>1 DEF States, Spins
    <3> QED BY <2>2, <3>2 DEF Effected, Spins, Stays, e
  <2>3. CASE c.id = "quit"
    <3>1. e = [r EXCEPT !.quit = TRUE]
      BY <2>3 DEF Effect, r
    <3> HIDE DEF e
    <3>2. /\ e.was = was_paused /\ e.osd = osd_function /\ ~e.brk /\ e.quit /\ e.list = list
          /\ e.iter = iter /\ e.fresh = fresh /\ e.eof = eof /\ e.moved = moved /\ e.step = play_tree_step
      BY <1>1, <1>2, <3>1 DEF States
    <3> QED BY <2>3, <3>2 DEF Effected, Spins, Stays, e
  <2>4. CASE c.id = "get"
    <3>1. e = r
      BY <2>4 DEF Effect, r
    <3> HIDE DEF e
    <3> QED BY <1>1, <2>4, <3>1 DEF Effected, Spins, Stays, e
  <2> QED BY <1>3, <2>1, <2>2, <2>3, <2>4
<1>4. CASE c.id = "stop"
  <2>1. e = [r EXCEPT !.eof = PT_STOP, !.moved = TRUE, !.brk = TRUE]
    BY <1>4 DEF Effect, Stop, r
  <2> HIDE DEF e
  <2>2. /\ e.was = was_paused /\ e.osd = osd_function /\ e.brk /\ ~e.quit /\ e.list = list
        /\ e.iter = iter /\ e.fresh = fresh /\ e.eof = PT_STOP /\ e.moved /\ e.step = play_tree_step
    BY <1>1, <1>2, <2>1 DEF States
  <2> QED BY <1>4, <2>2 DEF Effected, Spins, Stays, e
<1>5. CASE c.id = "loadfile"
  <2>1. CASE c.append
    <3>1. e = [r EXCEPT !.list = Append(list, c.file), !.brk = TRUE]
      BY <1>1, <1>2, <1>5, <2>1 DEF Effect, LoadFile, r, States
    <3> HIDE DEF e
    <3>2. /\ e.was = was_paused /\ e.osd = osd_function /\ e.brk /\ ~e.quit /\ e.list = Append(list, c.file)
          /\ e.iter = iter /\ e.fresh = fresh /\ e.eof = eof /\ e.moved = moved /\ e.step = play_tree_step
      BY <1>1, <1>2, <3>1 DEF States
    <3> QED BY <1>5, <2>1, <3>2 DEF Effected, Spins, Stays, e
  <2>2. CASE ~c.append
    <3>1. e = [r EXCEPT !.list = <<c.file>>, !.iter = 1, !.fresh = TRUE,
                        !.eof = PT_NEXT_SRC, !.moved = TRUE, !.brk = TRUE]
      BY <1>5, <2>2 DEF Effect, LoadFile, r
    <3> HIDE DEF e
    <3>2. /\ e.was = was_paused /\ e.osd = osd_function /\ e.brk /\ ~e.quit /\ e.list = <<c.file>>
          /\ e.iter = 1 /\ e.fresh /\ e.eof = PT_NEXT_SRC /\ e.moved /\ e.step = play_tree_step
      BY <1>1, <1>2, <3>1 DEF States
    <3> QED BY <1>5, <2>2, <3>2 DEF Effected, Spins, Stays, e
  <2> QED BY <2>1, <2>2
<1>6. CASE c.id = "pt_step"
  <2> DEFINE n == IF c.n > 0 THEN PT_NEXT_ENTRY ELSE PT_PREV_ENTRY
  <2>1. n # 0 /\ (Goes(c) <=> c.force \/ Entry(r, c.n))
    BY <1>1, Steps DEF Goes, Entry
  <2>2. CASE Goes(c)
    <3>1. e = [r EXCEPT !.eof = n, !.moved = TRUE, !.step = c.n, !.brk = TRUE]
      <4>1. PtStep(r, c) = [r EXCEPT !.eof = n, !.moved = r.moved \/ TRUE, !.step = IF n # 0 THEN c.n ELSE r.step, !.brk = TRUE]
        BY <1>2, <2>1, <2>2 DEF PtStep, States
      <4>2. (r.moved \/ TRUE) = TRUE
        OBVIOUS
      <4> QED BY <1>6, <2>1, <4>1, <4>2 DEF Effect, r
    <3> HIDE DEF e, n
    <3>2. /\ e.was = was_paused /\ e.osd = osd_function /\ e.brk /\ ~e.quit /\ e.list = list
          /\ e.iter = iter /\ e.fresh = fresh /\ e.eof = n /\ e.moved /\ e.step = c.n
      BY <1>1, <1>2, <3>1 DEF States
    <3> QED BY <1>6, <2>2, <3>2 DEF Effected, Spins, Stays, e, n
  <2>3. CASE ~Goes(c)
    <3> DEFINE m == IF eof # 0 THEN c.n ELSE play_tree_step
    <3>1. e = [r EXCEPT !.step = m, !.brk = TRUE]
      <4>1. PtStep(r, c) = [r EXCEPT !.eof = r.eof, !.moved = r.moved \/ FALSE, !.step = IF r.eof # 0 THEN c.n ELSE r.step, !.brk = TRUE]
        BY <1>2, <2>1, <2>3 DEF PtStep, States
      <4>2. (r.moved \/ FALSE) = r.moved
        BY <1>2 DEF States
      <4>3. PtStep(r, c) = [r EXCEPT !.step = m, !.brk = TRUE]
        BY <1>1, <1>2, <4>1, <4>2 DEF States
      <4> QED BY <1>6, <4>3 DEF Effect, r
    <3> HIDE DEF e, m
    <3>2. /\ e.was = was_paused /\ e.osd = osd_function /\ e.brk /\ ~e.quit /\ e.list = list
          /\ e.iter = iter /\ e.fresh = fresh /\ e.eof = eof /\ e.moved = moved /\ e.step = m
      BY <1>1, <1>2, <3>1 DEF States
    <3> QED BY <1>6, <2>3, <3>2 DEF Effected, Spins, Stays, e, m
  <2> QED BY <2>2, <2>3
<1> QED BY <1>0, <1>3, <1>4, <1>5, <1>6

LEMMA RanMoves ==
  ASSUME Values, NEW c \in Sent, Ran(run_command(Running, c))
  PROVE  Moves(c) /\ Pauses(c)
<1> DEFINE e == Effect(Running, c)
           p == IF c.id = "pause" THEN 1 ELSE c.pausing
           r == Pausing(e, p)
<1>1. Effected(e, c)
  BY Effects
<1>2. r = run_command(Running, c) /\ Ran1(e, r) /\ e \in States /\ p \in 0 .. 4 /\ r \in States
  BY CommandIs, SentIs DEF run_command, Follows, Command
<1>3. /\ osd_function' = r.osd /\ was_paused' = r.was /\ eof' = r.eof
      /\ play_tree_step' = r.step /\ list' = r.list /\ iter' = r.iter /\ fresh' = r.fresh
      /\ moved' = r.moved
  BY <1>2 DEF Ran
<1>4. /\ p \in {0, 4} => r.osd = e.osd /\ r.was = e.was
      /\ p = 1 => r.osd = "pause" /\ r.was = e.was
      /\ p = 2 => r.osd = (IF e.was THEN "pause" ELSE e.osd) /\ r.was = e.was
      /\ p = 3 /\ ~e.was => r.osd = "pause" /\ r.was
      /\ p = 3 /\ e.was => r.osd = (IF e.osd = "pause" THEN "play" ELSE e.osd) /\ ~r.was
  <2> HIDE DEF e, p
  <2>1. CASE p \in {0, 4}
    <3>1. r = e
      BY <2>1 DEF Pausing
    <3> HIDE DEF r
    <3> QED BY <2>1, <3>1
  <2>2. CASE p = 1
    <3>1. r = [e EXCEPT !.osd = "pause"]
      BY <2>2 DEF Pausing
    <3> QED BY <1>2, <2>2, <3>1 DEF States
  <2>3. CASE p = 2
    <3>1. r = IF e.was THEN [e EXCEPT !.osd = "pause"] ELSE e
      BY <2>3 DEF Pausing
    <3> HIDE DEF r
    <3>2. r.was = e.was
      BY <1>2, <3>1 DEF States
    <3>3. r.osd = IF e.was THEN "pause" ELSE e.osd
      BY <1>2, <3>1 DEF States
    <3> QED BY <2>3, <3>2, <3>3
  <2>4. CASE p = 3 /\ ~e.was
    <3>1. r = [e EXCEPT !.was = TRUE, !.osd = "pause"]
      BY <2>4 DEF Pausing
    <3> HIDE DEF r
    <3>2. r.was /\ r.osd = "pause"
      BY <1>2, <3>1 DEF States
    <3> QED BY <2>4, <3>2
  <2>5. CASE p = 3 /\ e.was
    <3>1. r = [e EXCEPT !.was = FALSE, !.osd = IF @ = "pause" THEN "play" ELSE @]
      BY <2>5 DEF Pausing
    <3> HIDE DEF r
    <3>2. ~r.was
      BY <1>2, <3>1 DEF States
    <3>3. r.osd = IF e.osd = "pause" THEN "play" ELSE e.osd
      BY <1>2, <3>1 DEF States
    <3> QED BY <2>5, <3>2, <3>3
  <2> QED BY <1>2, <2>1, <2>2, <2>3, <2>4, <2>5
<1> HIDE DEF e, r
<1>5. Pauses(c)
  BY <1>1, <1>3, <1>4 DEF Pauses, Effected
<1>6. Moves(c)
  BY <1>1, <1>2, <1>3 DEF Moves, Effected, Ran1
<1> QED BY <1>5, <1>6

----------------------------------------------------------------------------
\* The commands that do what slave.txt says of them.  The others do not: "pause"
\* toggles whatever prefix it has, a prefix given while no file is played pauses
\* the next one or is remembered in was_paused, "pausing_keep_force" moves on but
\* leaves the pause loop running, and a pt_step that goes nowhere replaces the
\* step that the end of the file takes.
Plain(c) ==
  /\ c.id = "pause" => c.pausing = 0
  /\ c.id = "get" => c.pausing # 3
  /\ c.id = "pt_step" => c.pausing # 4 /\ (c.n = 1 \/ c.force)
  /\ c.id = "loadfile" => c.pausing \notin {2, 4}

\* A front end that sends such commands and waits, and a player without -loop
\* and without blocking reads.
InTurn == Waits /\ ~MayInterrupt /\ LoopTimes \subseteq {-1} /\ \A c \in Sent : Plain(c)

\* One command at a time, and each is done with before the file is left.
Follow ==
  /\ pipe # <<>> => pc \in {"idle", "play", "pause", "commands", "exited"}
  /\ Len(pipe) <= 1
  /\ moved => pc \in {"round", "next"}
  /\ pc \in {"idle", "open", "play", "next"} => ~was_paused
  /\ pc = "pause" => was_paused
  /\ pc = "commands" /\ pipe # <<>> =>
       /\ osd_function # "pause"
       /\ was_paused => Head(pipe).pausing # 4 /\ Head(pipe).id # "pause"
  /\ pc \notin {"idle", "exited"} => iter # 0
  /\ pc = "idle" => iter = 0
  /\ ~moved => play_tree_step = 1 /\ eof \in {0, PT_NEXT_ENTRY} /\ ~fresh
  /\ eof \in {PT_NEXT_SRC, PT_STOP} => play_tree_step = 1
  /\ times = -1

FollowInv == ControlInv /\ Follow

\* The paused mode that the front end sees.
Sees == At # 0 /\ InPausedMode

LEMMA TodoTail ==
  ASSUME Values, pipe # <<>>, pipe' = Rest, unsent' = unsent
  PROVE  /\ pipe \o unsent # <<>> /\ Head(pipe \o unsent) = Head(pipe)
         /\ pipe' \o unsent' = Tail(pipe \o unsent)
<1>1. pipe \in Seq(Sent) /\ unsent \in Seq(Sent)
  BY DEF Values
<1>2. pipe \o unsent # <<>> /\ Head(pipe \o unsent) = Head(pipe)
  BY <1>1
<1>3. Tail(pipe) \o unsent = Tail(pipe \o unsent)
  BY <1>1
<1> QED BY <1>2, <1>3 DEF Rest

LEMMA TodoSend ==
  ASSUME Values, Send
  PROVE  pipe' \o unsent' = pipe \o unsent
<1>1. pipe \in Seq(Sent) /\ unsent \in Seq(Sent) /\ unsent # <<>>
      /\ unsent' = Tail(unsent) /\ pipe' = Append(pipe, Head(unsent))
  BY DEF Values, Send
<1>2. Append(pipe, Head(unsent)) \o Tail(unsent) = pipe \o unsent
  BY <1>1
<1> QED BY <1>1, <1>2

LEMMA OneCommand ==
  ASSUME FollowInv, pipe # <<>>
  PROVE  Head(pipe) \in Sent /\ Rest = <<>>
<1>1. pipe \in Seq(Sent) /\ Len(pipe) <= 1
  BY DEF FollowInv, ControlInv, Values, Follow
<1> QED BY <1>1 DEF Rest

LEMMA ViewStutters ==
  ASSUME pipe' \o unsent' = pipe \o unsent, list' = list, At' = At, Sees' <=> Sees,
         pc' = "exited" <=> pc = "exited"
  PROVE  UNCHANGED View!vars
<1>1. (At # 0 /\ InPausedMode)' = (At # 0 /\ InPausedMode)
  BY Zenon DEF Sees
<1>2. (pc = "exited")' = (pc = "exited")
  BY Zenon
<1> QED BY <1>1, <1>2 DEF View!vars

LEMMA Unmoved == ASSUME ~moved, pc # "exited" PROVE At = iter
  BY DEF At

LEMMA UnmovedNext == ASSUME ~moved', pc' # "exited" PROVE At' = iter'
  BY DEF At

\* Steps that leave the pipe, the list and the entry as they are.
LEMMA QuietSteps ==
  ASSUME InTurn, FollowInv, Opened \/ DemuxFails \/ Frame \/ NoCommand \/ Round
  PROVE  Follow' /\ UNCHANGED View!vars
<1>1. /\ UNCHANGED <<pipe, unsent, list, iter, fresh, play_tree_step, osd_function, times>>
      /\ pc \in {"open", "play", "commands", "round"}
      /\ pc = "commands" => pipe = <<>>
  BY DEF Opened, DemuxFails, Frame, NoCommand, Round, player, tree, told
<1>2. pc' \in {"play", "next", "pause", "commands", "round"} /\ ~Looping
  BY <1>1 DEF Opened, DemuxFails, Frame, NoCommand, Round, Looping, FollowInv, ControlInv, Counting, Follow,
     Values, TypeOK
<1>3. moved' = moved
  BY <1>2 DEF Opened, DemuxFails, Frame, NoCommand, Round, told
<1>4. pipe # <<>> => pc = "play" /\ pc' \in {"pause", "commands"}
  BY <1>1 DEF FollowInv, Follow, Opened, DemuxFails, Frame, NoCommand, Round
<1>5. At' = At
  <2>1. pc # "exited" /\ pc' # "exited"
    BY <1>1, <1>2
  <2>2. CASE moved
    <3>1. eof' = eof
      BY <1>1, <1>2, <2>2 DEF FollowInv, Follow, Opened, DemuxFails, Frame, NoCommand, Round, player
    <3> QED BY <1>1, <1>3, <2>1, <2>2, <3>1 DEF At, NextIter
  <2>3. CASE ~moved
    BY <1>1, <1>3, <2>1, <2>3, Unmoved, UnmovedNext
  <2> QED BY <2>2, <2>3
<1>6. Follow'
  <2>1. CASE Opened
    BY <2>1, <1>1, <1>3 DEF FollowInv, Follow, Opened
  <2>2. CASE DemuxFails
    BY <2>2, <1>1, <1>3 DEF FollowInv, Follow, DemuxFails, player
  <2>3. CASE Frame
    BY <2>3, <1>1, <1>3 DEF FollowInv, Follow, Frame
  <2>4. CASE NoCommand
    BY <2>4, <1>1, <1>3 DEF FollowInv, Follow, NoCommand, player
  <2>5. CASE Round
    <3>1. /\ pipe = <<>> /\ ~was_paused' /\ eof' = eof /\ pc' = IF eof' = 0 THEN "play" ELSE "next"
          /\ moved => eof # 0
      BY <2>5, <1>2 DEF Round, FollowInv, Follow, ControlInv, Values, TypeOK
    <3> QED BY <2>5, <1>1, <1>3, <3>1 DEF FollowInv, Follow, Round
  <2> QED BY <2>1, <2>2, <2>3, <2>4, <2>5
<1>7. Sees' <=> Sees
  <2>1. InPausedMode' <=> InPausedMode
    <3>1. CASE Frame
      BY <3>1, <1>1 DEF Frame, InPausedMode, FollowInv, Follow
    <3>2. CASE ~Frame
      BY <3>2, <1>1 DEF Opened, DemuxFails, NoCommand, Round, InPausedMode
    <3> QED BY <3>1, <3>2
  <2> QED BY <1>5, <2>1 DEF Sees
<1> QED BY <1>1, <1>2, <1>5, <1>6, <1>7, ViewStutters

LEMMA SendStutters ==
  ASSUME InTurn, FollowInv, Send
  PROVE  Follow' /\ UNCHANGED View!vars
<1>1. /\ pipe = <<>> /\ pc \in {"pause", "idle", "play"}
      /\ pipe' = Append(pipe, Head(unsent))
      /\ UNCHANGED <<pc, player, tree, ao, moved, times>>
  BY DEF Send, Settled, InTurn
<1>2. /\ UNCHANGED <<pc, osd_function, was_paused, eof, play_tree_step>>
      /\ UNCHANGED <<list, iter, fresh, moved, times>>
  BY <1>1 DEF player, tree
<1>3. Len(pipe') = 1
  BY <1>1
<1>4. At' = At
  BY <1>2 DEF At, NextIter
<1>5. Sees' <=> Sees
  BY <1>1, <1>2, <1>4 DEF Sees, InPausedMode
<1>6. Follow'
  BY <1>1, <1>2, <1>3 DEF FollowInv, Follow
<1> QED BY <1>2, <1>4, <1>5, <1>6, TodoSend, ViewStutters DEF FollowInv, ControlInv

LEMMA OpenFailsStutters ==
  ASSUME InTurn, FollowInv, OpenFails
  PROVE  Follow' /\ UNCHANGED View!vars
<1>1. pc = "open" /\ pipe = <<>> /\ WasInterrupted
  BY DEF OpenFails, FollowInv, Follow
<1>2. /\ pipe' = pipe /\ eof' = PT_NEXT_ENTRY /\ play_tree_step' = play_tree_step /\ ~moved' /\ pc' = "next"
      /\ UNCHANGED <<unsent, osd_function, was_paused, list, iter, fresh, times>>
  BY <1>1 DEF WasInterrupted, tree
<1>3. ~moved
  BY <1>1 DEF FollowInv, Follow
<1>4. At' = At
  BY <1>1, <1>2, <1>3, Unmoved, UnmovedNext
<1>5. Sees' <=> Sees
  BY <1>1, <1>2, <1>4 DEF Sees, InPausedMode
<1>6. Follow'
  BY <1>1, <1>2, <1>3, Steps DEF FollowInv, Follow
<1> QED BY <1>1, <1>2, <1>4, <1>5, <1>6, ViewStutters

\* The file is left: for the entry a command chose, or for the one that follows.
LEMMA NextFileEnds ==
  ASSUME InTurn, FollowInv, NextFile
  PROVE  Follow' /\ [View!Next]_(View!vars)
<1>1. /\ pc = "next" /\ pipe = <<>> /\ iter # 0 /\ ~was_paused
      /\ iter' = NextIter /\ ~fresh' /\ eof' = 0 /\ ~moved'
      /\ play_tree_step' = IF eof \in {PT_NEXT_ENTRY, PT_PREV_ENTRY} THEN 1 ELSE play_tree_step
      /\ pc' = IF NextIter # 0 THEN "open" ELSE IF IdleMode THEN "idle" ELSE "exited"
      /\ UNCHANGED <<unsent, pipe, osd_function, was_paused, list, times>>
  BY DEF NextFile, FollowInv, Follow
<1>2. eof \in {0, 1, -1, 2, 4}
  BY Steps DEF FollowInv, ControlInv, Values, TypeOK
<1>3. Follow'
  <2>1. play_tree_step' = 1
    <3>1. moved => eof # 0
      BY DEF FollowInv, ControlInv, Values, TypeOK
    <3>2. CASE eof \in {0, PT_NEXT_SRC, PT_STOP}
      BY <1>1, <3>1, <3>2, Steps DEF FollowInv, Follow
    <3>3. CASE eof \in {PT_NEXT_ENTRY, PT_PREV_ENTRY}
      BY <1>1, <3>3
    <3> QED BY <1>2, <3>2, <3>3, Steps
  <2>2. pc' \in {"open", "idle", "exited"}
    BY <1>1
  <2>3. times' = -1 /\ Len(pipe') <= 1
    BY <1>1 DEF FollowInv, Follow
  <2> QED BY <1>1, <2>1, <2>2, <2>3, Steps DEF Follow
<1>4. At' = NextIter
  BY <1>1 DEF At
<1>5. InPausedMode' <=> InPausedMode
  BY <1>1 DEF InPausedMode
<1>6. CASE moved
  <2>1. At = NextIter
    BY <1>1, <1>6 DEF At
  <2>2. Sees' <=> Sees
    BY <1>4, <1>5, <2>1 DEF Sees
  <2>3. CASE pc' = "exited"
    <3>1. At = 0 /\ At' = 0 /\ ~IdleMode
      BY <1>1, <1>4, <2>1, <2>3
    <3>2. (At # 0 /\ InPausedMode)' = (At # 0 /\ InPausedMode)
      BY <2>2, Zenon DEF Sees
    <3>3. ~(pc = "exited") /\ (pc = "exited")' = TRUE
      BY <1>1, <2>3, Zenon
    <3>4. View!Leave
      BY <1>1, <3>1, <3>2, <3>3 DEF View!Leave
    <3> QED BY <1>3, <3>4 DEF View!Next
  <2>4. CASE pc' # "exited"
    BY <1>1, <1>3, <1>4, <2>1, <2>2, <2>4, ViewStutters
  <2> QED BY <2>3, <2>4
<1>7. CASE ~moved
  <2>1. At = iter
    BY <1>1, <1>7, Unmoved
  <2>2. NextIter = View!Step(1, TRUE)
    <3>1. play_tree_step = 1 /\ eof \in {0, PT_NEXT_ENTRY} /\ ~fresh
      BY <1>7 DEF FollowInv, Follow
    <3> QED BY <2>1, <3>1, Steps DEF NextIter, View!Step
  <2>3. (At # 0 /\ InPausedMode)' = (At' # 0 /\ (At # 0 /\ InPausedMode))
    BY <1>1, <1>5, <2>1, Zenon
  <2>4. (pc = "exited")' = (At' = 0 /\ ~IdleMode)
    <3>1. pc' = "exited" <=> (At' = 0 /\ ~IdleMode)
      BY <1>1, <1>4
    <3> QED BY <3>1, Zenon
  <2>5. ~(pc = "exited") /\ At # 0
    BY <1>1, <2>1
  <2>6. View!End
    BY <1>1, <1>4, <2>2, <2>3, <2>4, <2>5 DEF View!End
  <2> QED BY <1>3, <2>6 DEF View!Next
<1> QED BY <1>6, <1>7

\* quit ends the player wherever it is obeyed.
LEMMA ExitQuits ==
  ASSUME FollowInv, pc # "exited", pipe # <<>>, Head(pipe).id = "quit", pipe' = Rest, Exit
  PROVE  Follow' /\ View!Quit
<1>1. /\ pc' = "exited" /\ UNCHANGED <<unsent, was_paused, eof, play_tree_step, list, fresh, moved, times>>
  BY DEF Exit, player, tree, told
<1>2. At' = 0
  BY <1>1 DEF At
<1>3. (At # 0 /\ InPausedMode)' = FALSE
  BY <1>2, Zenon
<1>4. (pc = "exited")' = TRUE /\ ~(pc = "exited")
  BY <1>1, Zenon
<1>5. View!Quit
  BY <1>1, <1>2, <1>3, <1>4, TodoTail DEF View!Quit, FollowInv, ControlInv
<1>6. Follow'
  <2>1. ~moved /\ pipe' = <<>>
    BY OneCommand DEF FollowInv, Follow
  <2> QED BY <1>1, <2>1 DEF FollowInv, Follow
<1> QED BY <1>5, <1>6
\* What Playback says of paused mode after a command, in the terms of Sees.
PausedThen(c) ==
  \/ c.pausing = 1
  \/ c.pausing \in {2, 4} /\ Sees
  \/ c.pausing = 3 /\ ~Sees
  \/ c.pausing = 0 /\ c.id = "pause" /\ ~Sees

LEMMA PausedAfterIs ==
  ASSUME NEW c, c.pausing \in 0 .. 4
  PROVE  View!PausedAfter(c) = PausedThen(c)
<1> DEFINE s == At # 0 /\ InPausedMode
<1>1. s = Sees /\ s \in BOOLEAN
  BY Zenon DEF Sees
<1> HIDE DEF s
<1>2. CASE c.pausing = 1
  <2>1. View!PausedAfter(c) = TRUE /\ PausedThen(c) = TRUE
    BY <1>2 DEF View!PausedAfter, PausedThen
  <2> QED BY <2>1
<1>3. CASE c.pausing \in {2, 4}
  <2>1. View!PausedAfter(c) = s
    BY <1>3 DEF View!PausedAfter, s
  <2>2. PausedThen(c) <=> s
    BY <1>1, <1>3 DEF PausedThen
  <2>3. PausedThen(c) \in BOOLEAN
    BY Zenon DEF PausedThen
  <2> QED BY <1>1, <2>1, <2>2, <2>3, Zenon
<1>4. CASE c.pausing = 3
  <2>1. View!PausedAfter(c) = ~s
    BY <1>4 DEF View!PausedAfter, s
  <2>2. PausedThen(c) <=> ~s
    BY <1>1, <1>4 DEF PausedThen
  <2>3. PausedThen(c) \in BOOLEAN
    BY Zenon DEF PausedThen
  <2> QED BY <1>1, <2>1, <2>2, <2>3, Zenon
<1>5. CASE c.pausing = 0
  <2>1. View!PausedAfter(c) = (c.id = "pause" /\ ~s)
    BY <1>5 DEF View!PausedAfter, s
  <2>2. PausedThen(c) <=> (c.id = "pause" /\ ~s)
    BY <1>1, <1>5 DEF PausedThen
  <2>3. PausedThen(c) \in BOOLEAN
    BY Zenon DEF PausedThen
  <2> QED BY <1>1, <2>1, <2>2, <2>3, Zenon
<1> QED BY <1>2, <1>3, <1>4, <1>5

\* A command that is taken from the pipe and does what Playback says is obeyed.
LEMMA Obeyed ==
  ASSUME FollowInv, pc # "exited", pc' # "exited", pipe # <<>>, pipe' = Rest, unsent' = unsent,
         Head(pipe).id # "quit", At # 0,
         list' = IF Head(pipe).id # "loadfile" THEN list
                 ELSE IF Head(pipe).append THEN Append(list, Head(pipe).file) ELSE <<Head(pipe).file>>,
         At' = View!EntryAfter(Head(pipe)),
         Sees' <=> At' # 0 /\ PausedThen(Head(pipe))
  PROVE  View!Obey
<1> DEFINE c == Head(pipe)
<1>1. Values
  BY DEF FollowInv, ControlInv
<1>2. /\ pipe \o unsent # <<>> /\ Head(pipe \o unsent) = c
      /\ pipe' \o unsent' = Tail(pipe \o unsent)
  BY <1>1, TodoTail
<1>3. c.pausing \in 0 .. 4
  BY <1>1, FirstSent DEF Command
<1>4. (At # 0 /\ InPausedMode)' = (At' # 0 /\ View!PausedAfter(c))
  <2>1. View!PausedAfter(c) = PausedThen(c)
    BY <1>3, PausedAfterIs
  <2>2. Sees' = (At' # 0 /\ PausedThen(c))
    BY Zenon DEF Sees
  <2> QED BY <2>1, <2>2, Zenon DEF Sees
<1>5. ~(pc = "exited") /\ (pc = "exited")' = (pc = "exited")
  BY Zenon
<1> QED BY <1>2, <1>4, <1>5 DEF View!Obey

\* What a command without "pausing_toggle" leaves of was_paused.
LEMMA KeepsWas ==
  ASSUME Values, NEW c \in Sent, c.id # "pause", c.pausing # 3
  PROVE  run_command(Running, c).was = was_paused
<1> DEFINE e == Effect(Running, c)
<1>1. e.was = was_paused /\ e \in States /\ c.pausing \in 0 .. 4
  BY Effects, CommandIs, SentIs DEF Effected, Follows, Command
<1>2. run_command(Running, c) = Pausing(e, c.pausing)
  BY DEF run_command
<1> HIDE DEF e
<1>3. Pausing(e, c.pausing) \in {e, [e EXCEPT !.osd = "pause"]}
  BY <1>1 DEF Pausing
<1> QED BY <1>1, <1>2, <1>3 DEF States

\* In the idle loop only loadfile and quit do something.
LEMMA IdleObeys ==
  ASSUME InTurn, FollowInv, Idle
  PROVE  Follow' /\ (View!ObeyIdle \/ View!Quit)
<1> DEFINE c == Head(pipe)
<1>1. /\ Values /\ c \in Sent /\ Rest = <<>> /\ Command(c) /\ Plain(c)
      /\ pc = "idle" /\ pipe # <<>> /\ pipe' = Rest
  BY OneCommand, SentIs DEF FollowInv, ControlInv, InTurn, Idle
<1>2. /\ iter = 0 /\ ~moved /\ ~was_paused /\ eof = 0 /\ play_tree_step = 1 /\ ~fresh /\ times = -1
  BY <1>1 DEF FollowInv, ControlInv, AtStart, Follow
<1>3. CASE c.id = "quit"
  BY <1>1, <1>3, ExitQuits DEF Idle
<1>4. CASE c.id # "quit"
  <2>1. /\ osd_function' = IF c.pausing # 0 THEN "pause" ELSE "play"
        /\ was_paused' = IF c.id = "get" THEN run_command(Running, c).was ELSE was_paused
        /\ UNCHANGED <<unsent, eof, play_tree_step, moved, times>>
    BY <1>4 DEF Idle, told
  <2>2. ~was_paused'
    BY <1>1, <1>2, <2>1, KeepsWas DEF Plain
  <2>3. /\ pipe \o unsent # <<>> /\ Head(pipe \o unsent) = c
        /\ pipe' \o unsent' = Tail(pipe \o unsent)
    BY <1>1, <2>1, TodoTail
  <2>4. At = 0 /\ (At # 0 /\ InPausedMode) = FALSE /\ ~Sees
    <3>1. At = 0
      BY <1>1, <1>2, Unmoved
    <3>2. (At # 0 /\ InPausedMode) = FALSE
      BY <3>1, Zenon
    <3> QED BY <3>1, <3>2 DEF Sees
  <2>5. CASE c.id = "loadfile"
    <3>1. list' = <<c.file>> /\ iter' = 1 /\ ~fresh' /\ pc' = "open"
      BY <1>4, <2>5 DEF Idle
    <3>2. At' = 1
      BY <1>2, <2>1, <3>1, UnmovedNext
    <3>3. c.pausing \in {0, 1, 3}
      BY <1>1, <2>5 DEF Plain, Command
    <3>4. InPausedMode' <=> PausedThen(c)
      BY <2>1, <2>4, <2>5, <3>1, <3>3 DEF InPausedMode, PausedThen
    <3>5. (At # 0 /\ InPausedMode)' = View!PausedAfter(c)
      <4>1. View!PausedAfter(c) = PausedThen(c)
        BY <3>3, PausedAfterIs
      <4>2. At' # 0
        BY <3>2
      <4>3. PausedThen(c) \in BOOLEAN
        BY Zenon DEF PausedThen
      <4> QED BY <3>4, <4>1, <4>2, <4>3, Zenon
    <3>6. ~(pc = "exited") /\ (pc = "exited")' = (pc = "exited")
      BY <1>1, <3>1, Zenon
    <3>7. View!ObeyIdle
      BY <1>4, <2>3, <2>4, <2>5, <3>1, <3>2, <3>5, <3>6 DEF View!ObeyIdle
    <3>8. Follow'
      BY <1>1, <1>2, <2>1, <2>2, <3>1, Steps DEF Follow
    <3> QED BY <3>7, <3>8
  <2>6. CASE c.id # "loadfile"
    <3>1. UNCHANGED <<list, iter, fresh, pc>>
      BY <1>4, <2>6 DEF Idle, tree
    <3>2. At' = 0
      BY <1>1, <1>2, <2>1, <3>1, UnmovedNext
    <3>3. (At # 0 /\ InPausedMode)' = FALSE
      BY <3>2, Zenon
    <3>4. ~(pc = "exited") /\ (pc = "exited")' = (pc = "exited")
      BY <1>1, <3>1, Zenon
    <3>5. View!ObeyIdle
      BY <1>4, <2>3, <2>4, <2>6, <3>1, <3>2, <3>3, <3>4 DEF View!ObeyIdle
    <3>6. Follow'
      BY <1>1, <1>2, <2>1, <2>2, <3>1, Steps DEF Follow
    <3> QED BY <3>5, <3>6
  <2> QED BY <2>5, <2>6
<1> QED BY <1>3, <1>4

\* The pause loop leaves for any command but "pausing_keep_force", which it runs.
LEMMA PauseLoopObeys ==
  ASSUME InTurn, FollowInv, PauseLoop
  PROVE  Follow' /\ (View!Obey \/ View!Quit \/ UNCHANGED View!vars)
<1> DEFINE c == Head(pipe)
<1>1. /\ Values /\ c \in Sent /\ Rest = <<>> /\ Command(c) /\ Plain(c)
      /\ pc = "pause" /\ pipe # <<>> /\ Len(pipe) <= 1
  BY OneCommand, SentIs DEF FollowInv, ControlInv, Follow, InTurn, PauseLoop
<1>2. /\ iter # 0 /\ ~moved /\ was_paused /\ eof \in {0, PT_NEXT_ENTRY} /\ play_tree_step = 1 /\ ~fresh
      /\ times = -1
  BY <1>1 DEF FollowInv, Follow
<1>3. At = iter /\ Sees
  BY <1>1, <1>2, Unmoved DEF Sees, InPausedMode
<1>4. CASE c.pausing = 4
  <2>1. pipe' = Rest
    BY <1>4 DEF PauseLoop
  <2>2. CASE c.id = "quit"
    BY <1>1, <1>4, <2>1, <2>2, ExitQuits DEF PauseLoop
  <2>3. CASE c.id # "quit"
    <3>1. Ran(run_command(Running, c)) /\ UNCHANGED <<unsent, pc, times>>
      BY <1>4, <2>3 DEF PauseLoop
    <3>2. Moves(c) /\ Pauses(c)
      BY <1>1, <3>1, RanMoves
    <3>3. c.id \in {"seek", "get"}
      BY <1>1, <1>4, <2>3 DEF Plain, Command, Ids
    <3>4. UNCHANGED <<list, iter, fresh, eof, moved, play_tree_step, was_paused>>
      BY <1>4, <3>2, <3>3 DEF Moves, Pauses, Stays
    <3>5. At' = iter' /\ Sees'
      BY <1>1, <1>2, <3>1, <3>4, UnmovedNext DEF Sees, InPausedMode
    <3>6. At' = View!EntryAfter(c)
      BY <1>3, <3>3, <3>4, <3>5 DEF View!EntryAfter
    <3>7. PausedThen(c)
      BY <1>3, <1>4 DEF PausedThen
    <3>8. View!Obey
      BY <1>1, <1>2, <1>3, <2>1, <2>3, <3>1, <3>3, <3>4, <3>5, <3>6, <3>7, Obeyed
    <3>9. Follow'
      BY <1>1, <1>2, <2>1, <3>1, <3>4, Steps DEF Follow
    <3> QED BY <3>8, <3>9
  <2> QED BY <2>2, <2>3
<1>5. CASE c.pausing # 4
  <2>1. /\ pipe' = IF c.id = "pause" THEN Rest ELSE pipe
        /\ osd_function' = "play" /\ pc' = "commands"
        /\ UNCHANGED <<unsent, was_paused, eof, play_tree_step, list, iter, fresh, moved, times>>
    BY <1>5 DEF PauseLoop, tree, told
  <2>2. At' = iter'
    BY <1>2, <2>1, UnmovedNext
  <2>3. CASE c.id = "pause"
    <3>1. c.pausing = 0
      BY <1>1, <2>3 DEF Plain
    <3>2. ~Sees' /\ ~PausedThen(c)
      BY <1>1, <1>3, <2>1, <2>3, <3>1 DEF Sees, InPausedMode, PausedThen
    <3>3. At' = View!EntryAfter(c)
      BY <1>3, <2>1, <2>2, <2>3 DEF View!EntryAfter
    <3>4. View!Obey
      BY <1>1, <1>2, <1>3, <2>1, <2>3, <3>2, <3>3, Obeyed
    <3>5. Follow'
      BY <1>1, <1>2, <2>1, <2>3, Steps DEF Follow
    <3> QED BY <3>4, <3>5
  <2>4. CASE c.id # "pause"
    <3>1. At' = At /\ Sees'
      BY <1>1, <1>2, <1>3, <2>1, <2>2, <2>4 DEF Sees, InPausedMode
    <3>2. UNCHANGED View!vars
      BY <1>1, <1>3, <2>1, <2>4, <3>1, ViewStutters
    <3>3. Follow'
      BY <1>1, <1>2, <1>5, <2>1, <2>4, Steps DEF Follow
    <3> QED BY <3>2, <3>3
  <2> QED BY <2>3, <2>4
<1> QED BY <1>4, <1>5

\* The main loop runs the command, for what it does to the entry ...
LEMMA CommandMoves ==
  ASSUME FollowInv, NEW c \in Sent, Plain(c), Moves(c), c.id # "quit", iter # 0, ~moved,
         eof \in {0, PT_NEXT_ENTRY}, play_tree_step = 1, ~fresh, pc' # "exited", At = iter
  PROVE  /\ At' = View!EntryAfter(c) /\ iter' # 0
         /\ moved' => c.id # "get"
         /\ ~moved' => play_tree_step' = 1 /\ eof' \in {0, PT_NEXT_ENTRY} /\ ~fresh'
         /\ eof' \in {PT_NEXT_SRC, PT_STOP} => play_tree_step' = 1
<1>1. Command(c) /\ list \in Seq(Files) /\ iter \in 0 .. Len(list)
  BY SentIs DEF FollowInv, ControlInv, Values, TypeOK
<1>2. CASE Stays(c)
  <2>1. At' = iter'
    BY <1>2, UnmovedNext DEF Moves
  <2> QED BY <1>2, <2>1, Steps DEF Moves, Stays, View!EntryAfter
<1>3. CASE c.id = "loadfile" /\ ~c.append
  <2>1. iter' = 1 /\ fresh' /\ eof' = PT_NEXT_SRC /\ moved' /\ play_tree_step' = 1 /\ Len(list') = 1
    BY <1>3 DEF Moves
  <2>2. At' = 1
    BY <2>1, Steps DEF At, NextIter
  <2> QED BY <1>3, <2>1, <2>2, Steps DEF View!EntryAfter
<1>4. CASE c.id = "stop"
  <2>1. iter' = iter /\ eof' = PT_STOP /\ moved' /\ play_tree_step' = 1
    BY <1>4 DEF Moves
  <2>2. At' = 0
    BY <2>1 DEF At, NextIter
  <2> QED BY <1>4, <2>1, <2>2, Steps DEF View!EntryAfter
<1>5. CASE c.id = "pt_step" /\ Goes(c)
  <2>1. /\ iter' = iter /\ moved' /\ play_tree_step' = c.n /\ list' = list
        /\ eof' \in {PT_NEXT_ENTRY, PT_PREV_ENTRY}
    BY <1>5 DEF Moves
  <2>2. At' = IF iter + c.n \in 1 .. Len(list) THEN iter + c.n ELSE 0
    BY <1>1, <2>1, Steps DEF At, NextIter
  <2>3. At' = View!Step(c.n, c.force)
    BY <1>5, <2>2 DEF View!Step, Goes
  <2> QED BY <1>5, <2>1, <2>3, Steps DEF View!EntryAfter
<1>6. CASE c.id = "pt_step" /\ ~Goes(c)
  <2>1. UNCHANGED <<iter, fresh, eof, moved>> /\ play_tree_step' = 1
    BY <1>6 DEF Moves, Plain, Goes
  <2>2. At' = iter'
    BY <2>1, UnmovedNext
  <2>3. View!Step(c.n, c.force) = iter
    BY <1>6 DEF View!Step, Goes
  <2> QED BY <1>6, <2>1, <2>2, <2>3, Steps DEF View!EntryAfter
<1> QED BY <1>1, <1>2, <1>3, <1>4, <1>5, <1>6 DEF Command, Ids, Stays

\* ... and to paused mode.
LEMMA RunCommandObeys ==
  ASSUME InTurn, FollowInv, RunCommand
  PROVE  Follow' /\ (View!Obey \/ View!Quit)
<1> DEFINE c == Head(pipe)
           r == run_command(Running, c)
<1>1. /\ Values /\ c \in Sent /\ Rest = <<>> /\ Command(c) /\ Plain(c)
      /\ pc = "commands" /\ pipe # <<>> /\ pipe' = Rest
  BY OneCommand, SentIs DEF FollowInv, ControlInv, Follow, InTurn, RunCommand
<1>2. /\ iter # 0 /\ ~moved /\ eof \in {0, PT_NEXT_ENTRY} /\ play_tree_step = 1 /\ ~fresh
      /\ times = -1 /\ osd_function # "pause" /\ (was_paused => c.pausing # 4 /\ c.id # "pause")
  BY <1>1 DEF FollowInv, Follow
<1>3. At = iter /\ (Sees <=> was_paused)
  BY <1>1, <1>2, Unmoved DEF Sees, InPausedMode
<1>4. (r.quit <=> c.id = "quit") /\ (r.brk <=> c.id \notin {"get", "quit"})
  <2>1. Effected(Effect(Running, c), c)
    BY <1>1, Effects
  <2>2. Ran1(Effect(Running, c), r)
    BY <1>1, CommandIs
  <2> QED BY <2>1, <2>2 DEF Effected, Ran1
<1>5. CASE c.id = "quit"
  <2>1. Exit
    BY <1>4, <1>5 DEF RunCommand
  <2> QED BY <1>1, <1>5, <2>1, ExitQuits
<1>6. CASE c.id # "quit"
  <2>1. /\ Ran(r) /\ UNCHANGED <<unsent, times>>
        /\ pc' = IF c.id # "get" THEN "round" ELSE "commands"
    BY <1>4, <1>6 DEF RunCommand
  <2>2. Moves(c) /\ Pauses(c)
    BY <1>1, <2>1, RanMoves
  <2>3. /\ At' = View!EntryAfter(c) /\ iter' # 0
        /\ moved' => c.id # "get"
        /\ ~moved' => play_tree_step' = 1 /\ eof' \in {0, PT_NEXT_ENTRY} /\ ~fresh'
        /\ eof' \in {PT_NEXT_SRC, PT_STOP} => play_tree_step' = 1
    BY <1>1, <1>2, <1>3, <1>6, <2>1, <2>2, CommandMoves
  <2>4. Sees' <=> At' # 0 /\ osd_function' = "pause"
    BY <1>1, <2>1 DEF Sees, InPausedMode
  <2>5. osd_function' = "pause" <=> PausedThen(c)
    BY <1>1, <1>2, <1>3, <2>2 DEF Pauses, PausedThen, Plain, Command
  <2>6. list' = IF c.id # "loadfile" THEN list
                ELSE IF c.append THEN Append(list, c.file) ELSE <<c.file>>
    BY <2>2 DEF Moves
  <2>7. View!Obey
    BY <1>1, <1>2, <1>3, <1>6, <2>1, <2>3, <2>4, <2>5, <2>6, Obeyed
  <2>8. Follow'
    BY <1>1, <1>2, <2>1, <2>3 DEF Follow
  <2> QED BY <2>7, <2>8
<1> QED BY <1>5, <1>6

LEMMA FollowInit ==
  ASSUME InTurn, Init
  PROVE  Follow /\ View!Init
<1>1. /\ unsent \in Scripts /\ pipe = <<>> /\ osd_function = "play" /\ ~was_paused /\ eof = 0
      /\ play_tree_step = 1 /\ list \in FirstLists /\ ~fresh /\ ~moved /\ times = -1
      /\ iter = IF list = <<>> THEN 0 ELSE 1
      /\ pc = IF list = <<>> THEN "idle" ELSE "open"
  BY DEF Init, InTurn
<1>2. Follow
  BY <1>1, Steps DEF Follow
<1>3. At = IF list = <<>> THEN 0 ELSE 1
  BY <1>1, Unmoved
<1>4. pipe \o unsent = unsent
  <2>1. unsent \in Seq({unsent[i] : i \in 1 .. Len(unsent)})
    BY <1>1, ControlAssumption DEF ControlAssumption
  <2> QED BY <1>1, <2>1
<1>5. (At # 0 /\ InPausedMode) = FALSE
  <2>1. ~InPausedMode
    BY <1>1 DEF InPausedMode
  <2> QED BY <2>1, Zenon
<1>6. (pc = "exited") = FALSE
  BY <1>1, Zenon
<1>7. View!Init
  BY <1>1, <1>3, <1>4, <1>5, <1>6 DEF View!Init
<1> QED BY <1>2, <1>7

LEMMA FollowNext ==
  ASSUME InTurn, FollowInv, [Next]_vars
  PROVE  FollowInv' /\ [View!Next]_(View!vars)
<1>1. ControlInv'
  BY NextControl DEF FollowInv
<1>2. CASE UNCHANGED vars
  <2>1. UNCHANGED <<unsent, pipe, pc, osd_function, was_paused, eof, play_tree_step, list, iter, fresh, moved, times>>
    BY <1>2 DEF vars, player, tree, told
  <2>2. At' = At
    BY <2>1 DEF At, NextIter
  <2>3. Sees' <=> Sees
    BY <2>1, <2>2 DEF Sees, InPausedMode
  <2>4. Follow'
    BY <2>1 DEF FollowInv, Follow
  <2> QED BY <1>1, <2>1, <2>2, <2>3, <2>4, ViewStutters DEF FollowInv
<1>3. CASE Send
  BY <1>1, <1>3, SendStutters DEF FollowInv
<1>4. CASE Idle
  BY <1>1, <1>4, IdleObeys DEF FollowInv, View!Next
<1>5. CASE Opened \/ DemuxFails \/ Frame \/ NoCommand \/ Round
  BY <1>1, <1>5, QuietSteps DEF FollowInv
<1>6. CASE OpenFails
  BY <1>1, <1>6, OpenFailsStutters DEF FollowInv
<1>7. CASE PauseLoop
  BY <1>1, <1>7, PauseLoopObeys DEF FollowInv, View!Next
<1>8. CASE RunCommand
  BY <1>1, <1>8, RunCommandObeys DEF FollowInv, View!Next
<1>9. CASE NextFile
  BY <1>1, <1>9, NextFileEnds DEF FollowInv
<1>10. ~Interrupt
  BY DEF Interrupt, InTurn
<1> QED BY <1>2, <1>3, <1>4, <1>5, <1>6, <1>7, <1>8, <1>9, <1>10 DEF Next, Player, Done

\* Sent one plain command at a time, the player does what slave.txt says of each:
\* the entry, the list and paused mode are those of Playback at every step.
THEOREM PlayerObeys == InTurn => (Spec => ImplementsPlayback)
<1> SUFFICES ASSUME InTurn PROVE Spec => ImplementsPlayback
  OBVIOUS
<1>1. Init => FollowInv /\ View!Init
  BY FollowInit, InitControl DEF FollowInv
<1>2. FollowInv /\ [Next]_vars => FollowInv' /\ [View!Next]_(View!vars)
  BY FollowNext
<1> QED BY <1>1, <1>2, PTL DEF Spec, ImplementsPlayback, View!Spec
=============================================================================
