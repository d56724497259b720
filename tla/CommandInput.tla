---------------------------- MODULE CommandInput ----------------------------
(***************************************************************************)
(* Commands: the command half of input/input.c.  A slave-mode front end    *)
(* writes lines to pipes; read_events cuts them into commands, one per     *)
(* call; mp_input_get_cmd hands a command to the player's main loop, or    *)
(* only shows it (peek_only); mp_input_check_interrupt lets a blocking     *)
(* operation notice that the user wants it to stop; a signal asks for a    *)
(* quit.  All but the signal and the pipes' writers run on one thread.     *)
(*                                                                         *)
(* A line is a sequence of tokens ended by NL: its first token is the      *)
(* command's name, the others stand for its arguments.  A token is as long *)
(* as one byte of the buffer.  Keys give whole commands, see KeyInput.     *)
(***************************************************************************)
EXTENDS Integers, Sequences, SequencesExt

CONSTANTS
  Fds,        \* the pipes, a sequence in the order they were added
  Script,     \* what is written to each pipe before it is closed
  MaxSize,    \* MP_CMD_MAX_SIZE, 4096
  QueueSize,  \* CMD_QUEUE_SIZE, 100
  Commands,   \* names mp_input_parse_cmd knows, with the arguments they need
  Stops,      \* the commands that interrupt: quit and the play tree steps
  Grabbed,    \* commands a filter (the menu) takes
  KeyCmds,    \* commands keys and window events may give, not in any script
  Signals,    \* a termination signal may come
  Checks,     \* bound on the calls of mp_input_check_interrupt
  MaxKeys     \* bound on the commands that keys and window events give

NL     == "nl"
NoCmd  == "none"
AsyncQuit == "quit 1"   \* what a signal makes of mp_input_get_cmd

FdSet == ToSet(Fds)

ASSUME CommandAssumption ==
  /\ Fds \in Seq(FdSet) /\ Script \in [FdSet -> Seq(STRING)]
  /\ MaxSize \in Nat /\ MaxSize >= 2
  /\ QueueSize \in Nat \ {0}
  /\ Checks \in Nat /\ MaxKeys \in Nat
  /\ Signals \in BOOLEAN
  /\ Stops \subseteq Commands /\ Grabbed \subseteq Commands /\ KeyCmds \subseteq Commands
  /\ \A f \in FdSet : ToSet(Script[f]) \cap KeyCmds = {}
  /\ \A f, g \in FdSet : f # g => ToSet(Script[f]) \cap ToSet(Script[g]) \cap Commands = {}
  /\ {NL, NoCmd, AsyncQuit} \cap Commands = {}

VARIABLES
  pipe,      \* written and not yet read, per pipe
  unsent,    \* what the front end has still to write, per pipe
  buf,       \* mp_input_fd_t.buffer[0 .. pos - 1], per pipe
  got_cmd, eof, drop,
  cmd_fds,   \* the registered pipes, in the order of Fds
  cmd_queue,
  async_quit_request,
  pc,        \* "main", or "remove" inside mp_input_check_interrupt
  shown,     \* the command peek_only returned and nothing has taken since
  answer,    \* what mp_input_check_interrupt returned last
  checks,
  keys,      \* commands from keys and window events so far
  taken      \* history: the piped commands taken, to be run or just freed

writers == <<pipe, unsent>>
fdState == <<buf, got_cmd, eof, drop, cmd_fds>>
vars == <<writers, fdState, cmd_queue, async_quit_request, pc, shown, answer, checks, keys,
          taken>>

Init ==
  /\ pipe = [f \in FdSet |-> <<>>] /\ unsent = Script
  /\ buf = [f \in FdSet |-> <<>>]
  /\ got_cmd = [f \in FdSet |-> FALSE]
  /\ eof = [f \in FdSet |-> FALSE]
  /\ drop = [f \in FdSet |-> FALSE]
  /\ cmd_fds = FdSet
  /\ cmd_queue = <<>>
  /\ async_quit_request = FALSE
  /\ pc = "main" /\ shown = NoCmd /\ answer = FALSE /\ checks = 0 /\ keys = 0
  /\ taken = <<>>

----------------------------------------------------------------------------
\* mp_input_read_cmd.  s holds one mp_input_fd_t, the bytes its pipe has to
\* offer and, in "line", the line found (*ret) when "found".

Least(a, b) == IF a < b THEN a ELSE b
Full(b)     == MaxSize - Len(b) <= 1

\* One read of as much as fits, or the end of the file.
GetData(s) ==
  IF s.got_cmd \/ s.eof \/ Full(s.buf) THEN s
  ELSE IF s.in = <<>> THEN [s EXCEPT !.eof = TRUE]
  ELSE LET n == Least(Len(s.in), MaxSize - 1 - Len(s.buf))
       IN [s EXCEPT !.buf = @ \o SubSeq(s.in, 1, n), !.in = SubSeq(s.in, n + 1, Len(s.in))]

LineEnd(b) == SelectInSeq(b, LAMBDA c : c = NL)

\* One turn of the loop that looks for the end of a line.
FindKeepsDrop(s) ==
  LET e == LineEnd(s.buf)
  IN IF e = 0
     THEN IF Full(s.buf) THEN [s EXCEPT !.buf = <<>>] ELSE s
     ELSE IF s.found THEN [s EXCEPT !.got_cmd = TRUE]
     ELSE [s EXCEPT !.buf = SubSeq(@, e + 1, Len(@)), !.drop = FALSE,
                    !.found = ~s.drop,
                    !.line = IF s.drop THEN <<>> ELSE SubSeq(s.buf, 1, e - 1)]
Find(s) ==
  LET e == LineEnd(s.buf)
  IN IF e = 0
     THEN IF Full(s.buf) THEN [s EXCEPT !.buf = <<>>, !.drop = TRUE] ELSE s
     ELSE IF s.found THEN [s EXCEPT !.got_cmd = TRUE]
     ELSE [s EXCEPT !.buf = SubSeq(@, e + 1, Len(@)), !.drop = FALSE,
                    !.found = ~s.drop,
                    !.line = IF s.drop THEN <<>> ELSE SubSeq(s.buf, 1, e - 1)]

\* At most three turns: the rest of a dropped line, a line, the next line.
Turn(S)     == {Find(s) : s \in S}
read_cmd(s) == Turn(Turn(Turn({[GetData(s) EXCEPT !.got_cmd = FALSE]})))

parse_cmd(line) == IF line # <<>> /\ Head(line) \in Commands THEN Head(line) ELSE NoCmd

----------------------------------------------------------------------------
\* read_events and mp_input_get_cmd, as the sets of their outcomes.  An outcome
\* holds everything the input code may change, and the command in ret.

Now == [pipe |-> pipe, buf |-> buf, got_cmd |-> got_cmd, eof |-> eof, drop |-> drop,
        cmd_fds |-> cmd_fds, queue |-> cmd_queue, keys |-> keys, ret |-> NoCmd]

Become(i) ==
  /\ pipe' = i.pipe /\ buf' = i.buf /\ got_cmd' = i.got_cmd /\ eof' = i.eof
  /\ drop' = i.drop /\ cmd_fds' = i.cmd_fds /\ cmd_queue' = i.queue
  /\ keys' = i.keys

\* Nothing is read of a pipe with a line in its buffer until that is used up.
ReadyNever(f, anyGot) == ~anyGot /\ (pipe[f] # <<>> \/ unsent[f] = <<>>)
Ready(f, anyGot) == IF anyGot THEN got_cmd[f] ELSE pipe[f] # <<>> \/ unsent[f] = <<>>

Fd(f) == [in |-> pipe[f], buf |-> buf[f], got_cmd |-> got_cmd[f], eof |-> eof[f],
          drop |-> drop[f], found |-> FALSE, line |-> <<>>]

ReadFd(f, anyGot) == IF Ready(f, anyGot) THEN read_cmd(Fd(f)) ELSE {Fd(f)}

\* Pipes at their end are removed, then the keys come first, then the pipes in
\* their order, up to the first command.
Open == {f \in cmd_fds : ~eof[f]}

Reads ==
  LET anyGot  == \E f \in Open : got_cmd[f]
      read(f) == ReadFd(f, anyGot)
  IN {after \in [FdSet -> UNION {read(f) : f \in FdSet}] : \A f \in FdSet : after[f] \in read(f)}

\* The pipes are as after says up to the first that gave a command.
ReadPipes(after) ==
  LET cmd(n) == parse_cmd(after[Fds[n]].line)
      found  == {n \in 1 .. Len(Fds) : Fds[n] \in Open /\ cmd(n) # NoCmd}
      last   == IF found = {} THEN Len(Fds) ELSE Min(found)
      fd(f)  == IF f \in Open /\ \E n \in 1 .. last : Fds[n] = f THEN after[f] ELSE Fd(f)
  IN [pipe |-> [f \in FdSet |-> fd(f).in], buf |-> [f \in FdSet |-> fd(f).buf],
      got_cmd |-> [f \in FdSet |-> fd(f).got_cmd], eof |-> [f \in FdSet |-> fd(f).eof],
      drop |-> [f \in FdSet |-> fd(f).drop], cmd_fds |-> Open,
      queue |-> cmd_queue, keys |-> keys, ret |-> IF found = {} THEN NoCmd ELSE cmd(last)]

read_events ==
  {ReadPipes(after) : after \in Reads} \union
    {[Now EXCEPT !.cmd_fds = Open, !.ret = key, !.keys = @ + 1] :
       key \in IF keys < MaxKeys THEN KeyCmds ELSE {}}

\* mp_input_queue_cmd
queue_cmd(q, c) == IF Len(q) >= QueueSize THEN q ELSE Append(q, c)

\* A filter that grabs the command takes it out of the queue as well.
Filtered(i, peek, fromQueue) ==
  IF i.ret \notin Grabbed THEN i
  ELSE [i EXCEPT !.ret = NoCmd,
                 !.queue = IF peek /\ fromQueue THEN Tail(@) ELSE @]

\* A command that was read just now has to be queued to be peeked at.
Enqueue(i) ==
  IF i.ret = NoCmd THEN i
  ELSE [i EXCEPT !.queue = queue_cmd(@, i.ret),
                 !.ret = IF Len(i.queue) >= QueueSize THEN NoCmd ELSE i.ret]

get_cmdTakes(peek) ==
  IF async_quit_request
  THEN LET quit == [Now EXCEPT !.ret = AsyncQuit] IN {IF peek THEN Enqueue(quit) ELSE quit}
  ELSE IF cmd_queue # <<>>
  THEN {Filtered([Now EXCEPT !.ret = Head(cmd_queue), !.queue = Tail(@)], FALSE, TRUE)}
  ELSE {LET j == Filtered(i, peek, FALSE) IN IF peek THEN Enqueue(j) ELSE j : i \in read_events}
get_cmd(peek) ==
  IF async_quit_request
  THEN LET quit == [Now EXCEPT !.ret = AsyncQuit] IN {IF peek THEN Enqueue(quit) ELSE quit}
  ELSE IF cmd_queue # <<>>
  THEN {Filtered([Now EXCEPT !.ret = Head(cmd_queue), !.queue = IF peek THEN @ ELSE Tail(@)],
                 peek, TRUE)}
  ELSE {LET j == Filtered(i, peek, FALSE) IN IF peek THEN Enqueue(j) ELSE j : i \in read_events}

----------------------------------------------------------------------------
\* The front end writes one token.
Write(f) ==
  /\ unsent[f] # <<>>
  /\ pipe' = [pipe EXCEPT ![f] = Append(@, Head(unsent[f]))]
  /\ unsent' = [unsent EXCEPT ![f] = Tail(@)]
  /\ UNCHANGED <<fdState, cmd_queue, async_quit_request, pc, shown, answer, checks, keys,
                 taken>>

\* A window event queues its command (video_out.c, osx_common.c), from the main
\* loop or from an event driver that read_events calls on an empty queue.
Post(c) ==
  /\ pc = "main" /\ keys < MaxKeys
  /\ keys' = keys + 1
  /\ cmd_queue' = queue_cmd(cmd_queue, c)
  /\ UNCHANGED <<writers, fdState, async_quit_request, pc, shown, answer, checks, taken>>

\* exit_sighandler: SIGINT, SIGTERM, ...
Signal ==
  /\ Signals /\ ~async_quit_request
  /\ async_quit_request' = TRUE
  /\ UNCHANGED <<writers, fdState, cmd_queue, pc, shown, answer, checks, keys, taken>>

Take(i, use) ==
  taken' = IF i.ret \in KeyCmds \union {NoCmd, AsyncQuit} THEN taken
           ELSE Append(taken, [cmd |-> i.ret, use |-> use])

\* The main loop takes a command and runs it.
Get ==
  /\ pc = "main"
  /\ \E i \in get_cmd(FALSE) : Become(i) /\ Take(i, "run")
  /\ shown' = NoCmd
  /\ UNCHANGED <<unsent, async_quit_request, pc, answer, checks>>

\* The pause loop looks at the next command.
Peek ==
  /\ pc = "main"
  /\ \E i \in get_cmd(TRUE) : Become(i) /\ shown' = i.ret
  /\ UNCHANGED <<unsent, async_quit_request, pc, answer, checks, taken>>

\* mp_input_check_interrupt: peeks ...
StaysNone(c) == c = NoCmd
Stays(c) == c \in Stops \union {AsyncQuit, NoCmd}

CheckInterrupt ==
  /\ pc = "main" /\ checks < Checks
  /\ checks' = checks + 1
  /\ \E i \in get_cmd(TRUE) :
       /\ Become(i) /\ shown' = i.ret
       /\ answer' = (i.ret \in Stops \union {AsyncQuit})
       /\ pc' = IF Stays(i.ret) THEN "main" ELSE "remove"
  /\ UNCHANGED <<unsent, async_quit_request, taken>>

\* ... and removes what does not stop the operation.
RemoveCmd ==
  /\ pc = "remove"
  /\ \E i \in get_cmd(FALSE) : Become(i) /\ Take(i, "free")
  /\ pc' = "main" /\ shown' = NoCmd
  /\ UNCHANGED <<unsent, async_quit_request, answer, checks>>

Next ==
  \/ \E f \in FdSet : Write(f)
  \/ \E c \in KeyCmds : Post(c)
  \/ Signal \/ Get \/ Peek \/ CheckInterrupt \/ RemoveCmd

Spec == Init /\ [][Next]_vars

\* The front end writes and closes; the main loop keeps asking for commands.
FairSpec ==
  /\ Spec
  /\ \A f \in FdSet : WF_vars(Write(f))
  /\ WF_vars(Get) /\ WF_vars(RemoveCmd)

----------------------------------------------------------------------------
TypeOK ==
  /\ \A f \in FdSet : /\ pipe[f] \in Seq(STRING) /\ unsent[f] \in Seq(STRING)
                      /\ Len(buf[f]) < MaxSize
                      /\ {got_cmd[f], eof[f], drop[f]} \subseteq BOOLEAN
  /\ cmd_fds \subseteq FdSet
  /\ Len(cmd_queue) <= QueueSize /\ ToSet(cmd_queue) \subseteq Commands \union {AsyncQuit}
  /\ async_quit_request \in BOOLEAN /\ answer \in BOOLEAN
  /\ pc \in {"main", "remove"} /\ shown \in Commands \union {NoCmd, AsyncQuit}

\* The command a line gives, if it fits the buffer and the menu does not grab it.
Gives(line) ==
  IF Len(line) > MaxSize - 2 \/ parse_cmd(line) \in Grabbed \union {NoCmd}
  THEN <<>> ELSE <<parse_cmd(line)>>

NextLine(text) == SubSeq(text, LineEnd(text) + 1, Len(text))

\* What a front end may expect of the text it writes: the commands of its lines.
\* "skip" is the state of a reader that is still inside a line it gave up.
Cmds[text \in Seq(STRING)] ==
  IF LineEnd(text) = 0 THEN <<>>
  ELSE Gives(SubSeq(text, 1, LineEnd(text) - 1)) \o Cmds[NextLine(text)]

Accepted(text, skip) ==
  IF ~skip THEN Cmds[text] ELSE IF LineEnd(text) = 0 THEN <<>> ELSE Cmds[NextLine(text)]

\* Those of a sequence of commands that came from pipe f.
Of(f, cmds) ==
  LET own[s \in Seq(Commands \union {AsyncQuit})] ==
        IF s = <<>> THEN <<>>
        ELSE (IF Head(s) \in ToSet(Script[f]) \cap Commands THEN <<Head(s)>> ELSE <<>>) \o own[Tail(s)]
  IN own[cmds]
Names(t) == [n \in 1 .. Len(t) |-> t[n].cmd]

\* Every command line a front end writes is taken once, in the order of its
\* pipe, or is still on its way: in the queue, the buffer, or the pipe.
LinesKept ==
  \A f \in FdSet :
    Accepted(Script[f], FALSE) =
      Of(f, Names(taken)) \o Of(f, cmd_queue) \o Accepted(buf[f] \o pipe[f] \o unsent[f], drop[f])

\* input.c, mp_input_check_interrupt: a command that interrupts "will be executed
\* when we are back in the main loop", whatever is pressed or signalled between
\* the two looks at the queue.
StopsAreRun == \A n \in 1 .. Len(taken) : taken[n].cmd \in Stops => taken[n].use = "run"

\* A command that was only peeked at is the next one to be taken.
ShownIsNext == shown \in Commands => cmd_queue # <<>> /\ Head(cmd_queue) = shown

\* Every line that is written gets taken in the end, from every pipe and whatever
\* keys, events and blocking operations come first, unless a signal asks to quit.
AllTaken ==
  \A f \in FdSet :
    <>(async_quit_request \/ Of(f, Names(taken)) = Accepted(Script[f], FALSE))

\* input.h: a command read during a blocking operation is put "in the system
\* again", for the main loop to run.
CommandsAreRun == \A n \in 1 .. Len(taken) : taken[n].use = "run"

\* input.h, "Interruptible usleep": while a quit is pending, every blocking
\* operation that asks is told to stop.
QuitInterrupts == [][checks' # checks /\ async_quit_request => answer']_vars
=============================================================================
