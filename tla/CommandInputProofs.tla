------------------------- MODULE CommandInputProofs -------------------------
(***************************************************************************)
(* Proofs about CommandInput, for any number of pipes, whatever is written *)
(* to them, and every size of the buffer and the queue.                    *)
(***************************************************************************)
EXTENDS CommandInput, DataLemmas

Texts   == Seq(STRING)
Queued  == Commands \union {AsyncQuit}
Answers == Commands \union {AsyncQuit, NoCmd}

\* What each variable holds.
Values ==
  /\ pipe \in [FdSet -> Texts] /\ unsent \in [FdSet -> Texts] /\ buf \in [FdSet -> Texts]
  /\ got_cmd \in [FdSet -> BOOLEAN] /\ eof \in [FdSet -> BOOLEAN] /\ drop \in [FdSet -> BOOLEAN]
  /\ cmd_fds \in SUBSET FdSet
  /\ cmd_queue \in Seq(Queued) /\ keys \in Nat

BuffersFit == \A f \in FdSet : Len(buf[f]) < MaxSize

\* What mp_input_check_interrupt is about to remove does not stop anything.
Removing == pc = "remove" => shown \in Commands \ Stops

Kinds ==
  /\ Len(cmd_queue) <= QueueSize
  /\ async_quit_request \in BOOLEAN /\ answer \in BOOLEAN
  /\ pc \in {"main", "remove"} /\ shown \in Answers
  /\ taken \in Seq([cmd : Commands, use : {"run", "free"}])

CommandInv == Values /\ BuffersFit /\ Kinds /\ ShownIsNext /\ Removing /\ StopsAreRun

----------------------------------------------------------------------------
\* One pipe.
LEMMA LineEndFirst ==
  ASSUME NEW b \in Texts
  PROVE  /\ LineEnd(b) \in 0 .. Len(b)
         /\ LineEnd(b) = 0 => \A j \in 1 .. Len(b) : b[j] # NL
         /\ LineEnd(b) # 0 => b[LineEnd(b)] = NL /\ \A j \in 1 .. LineEnd(b) - 1 : b[j] # NL
<1> DEFINE I == {i \in 1 .. Len(b) : b[i] = NL}
<1>1. LineEnd(b) = IF I # {} THEN Min(I) ELSE 0
  BY DEF LineEnd, SelectInSeq
<1>2. Len(b) \in Nat /\ I \in SUBSET Nat /\ I \subseteq 1 .. Len(b)
  BY DEF Texts
<1>3. CASE I = {}
  BY <1>1, <1>2, <1>3
<1>4. CASE I # {}
  <2>1. PICK x \in I : \A y \in I : x <= y
    BY <1>2, <1>4, LeastNatural
  <2>2. Min(I) \in I /\ \A y \in I : Min(I) <= y
    BY <2>1, Zenon DEF Min
  <2>3. LineEnd(b) \in I /\ LineEnd(b) \in 1 .. Len(b) /\ \A y \in I : LineEnd(b) <= y
    BY <1>1, <1>2, <1>4, <2>2
  <2>4. ASSUME NEW j \in 1 .. LineEnd(b) - 1 PROVE b[j] # NL
    <3>1. j \in 1 .. Len(b) /\ ~(LineEnd(b) <= j)
      BY <1>2, <2>3
    <3> QED BY <2>3, <3>1
  <2> QED BY <1>2, <2>3, <2>4
<1> QED BY <1>3, <1>4

Lines == [in : Texts, buf : Texts, got_cmd : BOOLEAN, eof : BOOLEAN, drop : BOOLEAN,
          found : BOOLEAN, line : Texts]

Fits(s) == s \in Lines /\ Len(s.buf) < MaxSize

LEMMA Sizes == MaxSize \in Nat /\ MaxSize >= 2 /\ QueueSize \in Nat \ {0}
  BY CommandAssumption DEF CommandAssumption

\* A read never takes more than there is room for.
LEMMA GetDataFits == ASSUME NEW s, Fits(s) PROVE Fits(GetData(s))
<1>0. s \in Lines /\ Len(s.buf) < MaxSize /\ Len(s.buf) \in Nat /\ s.buf \in Texts /\ s.in \in Texts
  BY DEF Fits, Lines, Texts
<1>1. CASE s.got_cmd \/ s.eof \/ Full(s.buf)
  BY <1>1 DEF GetData
<1>2. CASE ~(s.got_cmd \/ s.eof \/ Full(s.buf)) /\ s.in = <<>>
  <2> DEFINE r == [s EXCEPT !.eof = TRUE]
  <2>1. GetData(s) = r
    BY <1>2 DEF GetData
  <2>2. r \in Lines /\ r.buf = s.buf
    BY <1>0 DEF Lines
  <2> HIDE DEF r
  <2> QED BY <1>0, <2>1, <2>2 DEF Fits
<1>3. CASE ~(s.got_cmd \/ s.eof \/ Full(s.buf)) /\ s.in # <<>>
  <2> DEFINE n == Least(Len(s.in), MaxSize - 1 - Len(s.buf))
             b == s.buf \o SubSeq(s.in, 1, n)
             t == SubSeq(s.in, n + 1, Len(s.in))
             r == [s EXCEPT !.buf = b, !.in = t]
  <2>1. GetData(s) = r
    BY <1>0, <1>3 DEF GetData, Lines
  <2>2. n \in 0 .. Len(s.in) /\ n <= MaxSize - 1 - Len(s.buf)
    <3>1. Len(s.in) \in Nat /\ MaxSize - 1 - Len(s.buf) \in Nat
      BY <1>0, <1>3, Sizes DEF Full, Texts
    <3> QED BY <3>1 DEF Least
  <2>3. SubSeq(s.in, 1, n) \in Texts /\ Len(SubSeq(s.in, 1, n)) = n /\ t \in Texts
    <3> HIDE DEF n
    <3> QED BY <1>0, <2>2 DEF Texts
  <2>4. b \in Texts /\ Len(b) = Len(s.buf) + n
    <3> DEFINE a == SubSeq(s.in, 1, n)
    <3>1. a \in Texts /\ Len(a) = n
      BY <2>3
    <3> HIDE DEF a
    <3>2. s.buf \o a \in Texts /\ Len(s.buf \o a) = Len(s.buf) + n
      BY <1>0, <3>1 DEF Texts
    <3> QED BY <3>2 DEF a
  <2> HIDE DEF b, t
  <2>5. r \in Lines /\ r.buf = b
    BY <1>0, <2>3, <2>4 DEF Lines
  <2> HIDE DEF r, n
  <2> QED BY <1>0, <2>1, <2>2, <2>4, <2>5, Sizes DEF Fits
<1> QED BY <1>1, <1>2, <1>3

LEMMA FindFits == ASSUME NEW s, Fits(s) PROVE Fits(Find(s))
<1> DEFINE e == LineEnd(s.buf)
<1>0. s \in Lines /\ Len(s.buf) < MaxSize /\ Len(s.buf) \in Nat /\ s.buf \in Texts /\ e \in 0 .. Len(s.buf)
      /\ <<>> \in Texts /\ Len(<<>>) = 0 /\ s.drop \in BOOLEAN
  BY LineEndFirst DEF Fits, Lines, Texts
<1> HIDE DEF e
<1>1. CASE e = 0 /\ Full(s.buf)
  <2> DEFINE r == [s EXCEPT !.buf = <<>>, !.drop = TRUE]
  <2>1. Find(s) = r
    BY <1>1 DEF Find, e
  <2>2. r \in Lines /\ r.buf = <<>>
    BY <1>0 DEF Lines
  <2> HIDE DEF r
  <2> QED BY <1>0, <2>1, <2>2, Sizes DEF Fits
<1>2. CASE e = 0 /\ ~Full(s.buf)
  BY <1>2 DEF Find, e
<1>3. CASE e # 0 /\ s.found
  <2> DEFINE r == [s EXCEPT !.got_cmd = TRUE]
  <2>1. Find(s) = r
    BY <1>3 DEF Find, e
  <2>2. r \in Lines /\ r.buf = s.buf
    BY <1>0 DEF Lines
  <2> HIDE DEF r
  <2> QED BY <1>0, <2>1, <2>2 DEF Fits
<1>4. CASE e # 0 /\ ~s.found
  <2> DEFINE b == SubSeq(s.buf, e + 1, Len(s.buf))
             l == IF s.drop THEN <<>> ELSE SubSeq(s.buf, 1, e - 1)
             d == ~s.drop
             r == [s EXCEPT !.buf = b, !.drop = FALSE, !.found = d, !.line = l]
  <2>1. Find(s) = r
    BY <1>0, <1>4 DEF Find, e, Lines
  <2>2. b \in Texts /\ Len(b) <= Len(s.buf)
    BY <1>0, <1>4 DEF Texts
  <2>3. l \in Texts
    <3>1. SubSeq(s.buf, 1, e - 1) \in Texts
      BY <1>0, <1>4 DEF Texts
    <3> QED BY <1>0, <3>1
  <2>4. d \in BOOLEAN
    BY <1>0
  <2> HIDE DEF b, l, d
  <2>5. r \in Lines /\ r.buf = b
    BY <1>0, <2>2, <2>3, <2>4 DEF Lines
  <2> HIDE DEF r
  <2> QED BY <1>0, <2>1, <2>2, <2>5, Sizes DEF Fits, Texts
<1> QED BY <1>1, <1>2, <1>3, <1>4

LEMMA ReadCmdFits == ASSUME NEW s, Fits(s), NEW r \in read_cmd(s) PROVE Fits(r)
<1> DEFINE g == [GetData(s) EXCEPT !.got_cmd = FALSE]
<1>1. Fits(g)
  <2>1. Fits(GetData(s))
    BY GetDataFits
  <2>2. g \in Lines /\ g.buf = GetData(s).buf
    BY <2>1 DEF Fits, Lines
  <2> HIDE DEF g
  <2> QED BY <2>1, <2>2 DEF Fits
<1> HIDE DEF g
<1>2. r = Find(Find(Find(g)))
  BY DEF read_cmd, Turn, g
<1> QED BY <1>1, <1>2, FindFits
----------------------------------------------------------------------------
\* read_events and mp_input_get_cmd.
Outcomes == [pipe : [FdSet -> Texts], buf : [FdSet -> Texts], got_cmd : [FdSet -> BOOLEAN],
             eof : [FdSet -> BOOLEAN], drop : [FdSet -> BOOLEAN], cmd_fds : SUBSET FdSet,
             queue : Seq(Queued), keys : Nat, ret : Answers]

Sound(i) == i \in Outcomes /\ (\A f \in FdSet : Len(i.buf[f]) < MaxSize) /\ Len(i.queue) <= QueueSize

LEMMA NamesDiffer ==
  /\ Stops \subseteq Commands /\ Grabbed \subseteq Commands /\ KeyCmds \subseteq Commands
  /\ NoCmd \notin Commands /\ AsyncQuit \notin Commands /\ NoCmd # AsyncQuit
<1>1. NoCmd # AsyncQuit
  BY DEF NoCmd, AsyncQuit
<1>2. {NL, NoCmd, AsyncQuit} \cap Commands = {}
  BY CommandAssumption DEF CommandAssumption
<1>3. Stops \subseteq Commands /\ Grabbed \subseteq Commands /\ KeyCmds \subseteq Commands
  BY CommandAssumption DEF CommandAssumption
<1> QED BY <1>1, <1>2, <1>3

LEMMA ParseCmdIs == ASSUME NEW line PROVE parse_cmd(line) \in Commands \union {NoCmd}
  BY DEF parse_cmd

LEMMA NowIs ==
  ASSUME Values, BuffersFit, Kinds
  PROVE  /\ Sound(Now) /\ Now.queue = cmd_queue /\ Now.ret = NoCmd
         /\ \A f \in FdSet : Fits(Fd(f))
<1>1. Sound(Now) /\ Now.queue = cmd_queue /\ Now.ret = NoCmd
  BY DEF Values, BuffersFit, Kinds, Sound, Outcomes, Now, Answers
<1>2. ASSUME NEW f \in FdSet PROVE Fits(Fd(f))
  BY <1>2 DEF Values, BuffersFit, Fits, Fd, Lines, Texts
<1> QED BY <1>1, <1>2

LEMMA ReadPipesIs ==
  ASSUME Values, BuffersFit, Kinds, NEW after \in Reads
  PROVE  /\ Sound(ReadPipes(after)) /\ ReadPipes(after).queue = cmd_queue
         /\ ReadPipes(after).ret \in Commands \union {NoCmd}
<1> DEFINE cmd(n) == parse_cmd(after[Fds[n]].line)
           found  == {n \in 1 .. Len(Fds) : Fds[n] \in Open /\ cmd(n) # NoCmd}
           last   == IF found = {} THEN Len(Fds) ELSE Min(found)
           fd(f)  == IF f \in Open /\ \E n \in 1 .. last : Fds[n] = f THEN after[f] ELSE Fd(f)
           r      == IF found = {} THEN NoCmd ELSE cmd(last)
<1>1. \A f \in FdSet : Fits(after[f])
  <2> SUFFICES ASSUME NEW f \in FdSet PROVE Fits(after[f])
    OBVIOUS
  <2>1. PICK g : after[f] \in ReadFd(f, g)
    BY DEF Reads
  <2> QED BY <2>1, NowIs, ReadCmdFits DEF ReadFd
<1>2. r \in Commands \union {NoCmd}
  BY ParseCmdIs
<1>3. ReadPipes(after) =
        [pipe |-> [f \in FdSet |-> fd(f).in], buf |-> [f \in FdSet |-> fd(f).buf],
         got_cmd |-> [f \in FdSet |-> fd(f).got_cmd], eof |-> [f \in FdSet |-> fd(f).eof],
         drop |-> [f \in FdSet |-> fd(f).drop], cmd_fds |-> Open,
         queue |-> cmd_queue, keys |-> keys, ret |-> r]
  BY DEF ReadPipes
<1>4. \A f \in FdSet : Fits(fd(f))
  BY <1>1, NowIs
<1> HIDE DEF fd, r
<1>5. Open \in SUBSET FdSet
  BY DEF Open, Values
<1>6. \A f \in FdSet : fd(f) \in Lines /\ Len(fd(f).buf) < MaxSize
  BY <1>4 DEF Fits
<1>7. /\ [f \in FdSet |-> fd(f).in] \in [FdSet -> Texts] /\ [f \in FdSet |-> fd(f).buf] \in [FdSet -> Texts]
      /\ [f \in FdSet |-> fd(f).got_cmd] \in [FdSet -> BOOLEAN]
      /\ [f \in FdSet |-> fd(f).eof] \in [FdSet -> BOOLEAN]
      /\ [f \in FdSet |-> fd(f).drop] \in [FdSet -> BOOLEAN]
  BY <1>6 DEF Lines
<1>8. ReadPipes(after) \in Outcomes
  BY <1>2, <1>3, <1>5, <1>7 DEF Outcomes, Values, Answers
<1> QED BY <1>2, <1>3, <1>6, <1>8 DEF Sound, Kinds

\* Reading leaves the queue alone and gives a command or nothing.
LEMMA ReadEventsIs ==
  ASSUME Values, BuffersFit, Kinds, NEW i \in read_events
  PROVE  Sound(i) /\ i.queue = cmd_queue /\ i.ret \in Commands \union {NoCmd}
<1>1. CASE i \in {ReadPipes(after) : after \in Reads}
  BY <1>1, ReadPipesIs
<1>2. CASE i \in {[Now EXCEPT !.cmd_fds = Open, !.ret = key, !.keys = @ + 1] : key \in KeyCmds}
  <2>1. PICK key \in KeyCmds : i = [Now EXCEPT !.cmd_fds = Open, !.ret = key, !.keys = @ + 1]
    BY <1>2
  <2>2. Now \in Outcomes /\ Now.queue = cmd_queue /\ Open \in SUBSET FdSet /\ Now.keys + 1 \in Nat /\ key \in Commands
        /\ \A f \in FdSet : Len(Now.buf[f]) < MaxSize
    BY NowIs, NamesDiffer DEF Sound, Open, Values, Now
  <2>3. i \in Outcomes /\ i.queue = Now.queue /\ i.buf = Now.buf /\ i.ret = key
    BY <2>1, <2>2 DEF Outcomes, Answers
  <2> QED BY <2>2, <2>3 DEF Sound, Kinds
<1> QED BY <1>1, <1>2 DEF read_events

LEMMA QueueCmdIs ==
  ASSUME NEW q \in Seq(Queued), Len(q) <= QueueSize, NEW c \in Queued
  PROVE  /\ queue_cmd(q, c) \in Seq(Queued) /\ Len(queue_cmd(q, c)) <= QueueSize
         /\ q # <<>> => queue_cmd(q, c) # <<>> /\ Head(queue_cmd(q, c)) = Head(q)
         /\ q = <<>> => queue_cmd(q, c) = <<c>>
<1>1. Len(q) \in Nat /\ Append(q, c) \in Seq(Queued) /\ Len(Append(q, c)) = Len(q) + 1
  OBVIOUS
<1>2. q # <<>> => Append(q, c) # <<>> /\ Head(Append(q, c)) = Head(q)
  OBVIOUS
<1>3. q = <<>> => Len(q) = 0 /\ Append(q, c) = <<c>>
  OBVIOUS
<1> QED BY <1>1, <1>2, <1>3, Sizes DEF queue_cmd

\* A command that is peeked at is the first of the queue.
Peeked(i) == i.ret \in Commands => i.queue # <<>> /\ Head(i.queue) = i.ret

LEMMA FilteredIs ==
  ASSUME NEW i, Sound(i), NEW peek \in BOOLEAN, NEW fromQueue \in BOOLEAN,
         peek /\ fromQueue => i.queue # <<>>
  PROVE  /\ Sound(Filtered(i, peek, fromQueue))
         /\ Filtered(i, peek, fromQueue).ret \in {NoCmd, i.ret}
         /\ Filtered(i, peek, fromQueue).ret # NoCmd =>
              Filtered(i, peek, fromQueue).ret \notin Grabbed /\ Filtered(i, peek, fromQueue).queue = i.queue
         /\ ~fromQueue => Filtered(i, peek, fromQueue).queue = i.queue
<1>1. CASE i.ret \notin Grabbed
  BY <1>1 DEF Filtered
<1>2. CASE i.ret \in Grabbed
  <2> DEFINE q == IF peek /\ fromQueue THEN Tail(i.queue) ELSE i.queue
             r == [i EXCEPT !.ret = NoCmd, !.queue = q]
  <2>1. i \in Outcomes /\ i.queue \in Seq(Queued) /\ Len(i.queue) <= QueueSize
    BY DEF Sound, Outcomes
  <2>2. Filtered(i, peek, fromQueue) = r
    BY <1>2, <2>1 DEF Filtered, Outcomes
  <2>3. q \in Seq(Queued) /\ Len(q) <= QueueSize
    BY <2>1, Sizes
  <2>4. ~fromQueue => q = i.queue
    OBVIOUS
  <2> HIDE DEF q
  <2>5. r \in Outcomes /\ r.queue = q /\ r.buf = i.buf /\ r.ret = NoCmd
    BY <2>1, <2>3 DEF Outcomes, Answers
  <2> HIDE DEF r
  <2> QED BY <2>2, <2>3, <2>4, <2>5 DEF Sound
<1> QED BY <1>1, <1>2

LEMMA EnqueueIs ==
  ASSUME NEW i, Sound(i), i.ret \in Commands => i.queue = <<>>
  PROVE  Sound(Enqueue(i)) /\ Peeked(Enqueue(i)) /\ Enqueue(i).ret \in {NoCmd, i.ret}
<1>1. CASE i.ret = NoCmd
  BY <1>1, NamesDiffer DEF Enqueue, Peeked
<1>2. CASE i.ret # NoCmd
  <2> DEFINE q == queue_cmd(i.queue, i.ret)
             a == IF Len(i.queue) >= QueueSize THEN NoCmd ELSE i.ret
             r == [i EXCEPT !.queue = q, !.ret = a]
  <2>1. i \in Outcomes /\ i.queue \in Seq(Queued) /\ Len(i.queue) <= QueueSize /\ i.ret \in Queued
    BY <1>2 DEF Sound, Outcomes, Answers, Queued
  <2>2. Enqueue(i) = r
    BY <1>2, <2>1 DEF Enqueue, Outcomes
  <2>3. /\ q \in Seq(Queued) /\ Len(q) <= QueueSize /\ a \in {NoCmd, i.ret}
        /\ i.queue = <<>> => q = <<i.ret>>
    BY <2>1, QueueCmdIs
  <2> HIDE DEF q, a
  <2>4. r \in Outcomes /\ r.queue = q /\ r.buf = i.buf /\ r.ret = a
    BY <2>1, <2>3 DEF Outcomes, Answers, Queued
  <2>5. r.ret \in Commands => r.ret = i.ret /\ r.queue = <<i.ret>>
    BY <2>3, <2>4, NamesDiffer
  <2>6. Head(<<i.ret>>) = i.ret /\ <<i.ret>> # <<>>
    OBVIOUS
  <2> HIDE DEF r
  <2> QED BY <2>2, <2>3, <2>4, <2>5, <2>6 DEF Sound, Peeked
<1> QED BY <1>1, <1>2

\* What mp_input_get_cmd returns: a command that is only looked at is the first of
\* the queue, one that is taken was.
LEMMA GetCmdIs ==
  ASSUME Values, BuffersFit, Kinds, NEW peek \in BOOLEAN, NEW i \in get_cmd(peek)
  PROVE  /\ Sound(i)
         /\ peek => Peeked(i)
         /\ ~peek /\ async_quit_request => i.ret = AsyncQuit
         /\ ~peek /\ ~async_quit_request /\ cmd_queue # <<>> => i.ret \in {NoCmd, Head(cmd_queue)}
<1>0. /\ Sound(Now) /\ Now.queue = cmd_queue /\ Now \in Outcomes /\ cmd_queue \in Seq(Queued)
      /\ Len(cmd_queue) <= QueueSize /\ async_quit_request \in BOOLEAN
      /\ \A f \in FdSet : Len(Now.buf[f]) < MaxSize
  BY NowIs DEF Sound, Values, Kinds
<1>1. CASE async_quit_request
  <2> DEFINE quit == [Now EXCEPT !.ret = AsyncQuit]
  <2>1. i = IF peek THEN Enqueue(quit) ELSE quit
    BY <1>1 DEF get_cmd
  <2>2. quit \in Outcomes /\ quit.queue = cmd_queue /\ quit.buf = Now.buf /\ quit.ret = AsyncQuit
    BY <1>0 DEF Outcomes, Answers
  <2> HIDE DEF quit
  <2>3. Sound(quit) /\ quit.ret \notin Commands
    BY <1>0, <2>2, NamesDiffer DEF Sound
  <2> QED BY <1>1, <2>1, <2>2, <2>3, EnqueueIs
<1>2. CASE ~async_quit_request /\ cmd_queue # <<>>
  <2> DEFINE q == IF peek THEN cmd_queue ELSE Tail(cmd_queue)
             r == [Now EXCEPT !.ret = Head(cmd_queue), !.queue = q]
  <2>1. i = Filtered(r, peek, TRUE)
    BY <1>0, <1>2 DEF get_cmd, Outcomes
  <2>2. /\ q \in Seq(Queued) /\ Len(q) <= QueueSize /\ Head(cmd_queue) \in Queued
        /\ peek => q = cmd_queue
    BY <1>0, <1>2, Sizes
  <2> HIDE DEF q
  <2>3. r \in Outcomes /\ r.queue = q /\ r.buf = Now.buf /\ r.ret = Head(cmd_queue)
    BY <1>0, <2>2 DEF Outcomes, Answers, Queued
  <2> HIDE DEF r
  <2>4. Sound(r)
    BY <1>0, <2>2, <2>3 DEF Sound
  <2>5. peek => r.queue # <<>>
    BY <1>2, <2>2, <2>3
  <2>6. Sound(i) /\ i.ret \in {NoCmd, r.ret} /\ (i.ret # NoCmd => i.queue = r.queue)
    BY <2>1, <2>4, <2>5, FilteredIs
  <2> QED BY <1>2, <2>2, <2>3, <2>5, <2>6, NamesDiffer DEF Peeked
<1>3. CASE ~async_quit_request /\ cmd_queue = <<>>
  <2>1. PICK e \in read_events :
          i = LET j == Filtered(e, peek, FALSE) IN IF peek THEN Enqueue(j) ELSE j
    BY <1>3 DEF get_cmd
  <2> DEFINE j == Filtered(e, peek, FALSE)
  <2>2. Sound(e) /\ e.queue = cmd_queue
    BY ReadEventsIs
  <2>3. Sound(j) /\ j.queue = cmd_queue
    BY <2>2, FilteredIs
  <2> HIDE DEF j
  <2>4. i = IF peek THEN Enqueue(j) ELSE j
    BY <2>1 DEF j
  <2> QED BY <1>3, <2>3, <2>4, EnqueueIs
<1> QED BY <1>0, <1>1, <1>2, <1>3

----------------------------------------------------------------------------
\* The invariant: reading and looking, one lemma for each action.
LEMMA BecomeKeeps ==
  ASSUME NEW i, Sound(i), Become(i), unsent' = unsent, Values
  PROVE  Values' /\ BuffersFit' /\ Len(cmd_queue') <= QueueSize
BY DEF Sound, Outcomes, Become, Values, BuffersFit

LEMMA InitCommand == ASSUME Init PROVE CommandInv
<1>1. Values /\ BuffersFit
  BY CommandAssumption, Sizes DEF Init, Values, BuffersFit, CommandAssumption, Texts
<1>2. Kinds /\ ShownIsNext /\ Removing /\ StopsAreRun
  <2>1. /\ taken = <<>> /\ cmd_queue = <<>> /\ ~async_quit_request /\ ~answer /\ pc = "main" /\ shown = NoCmd
        /\ async_quit_request \in BOOLEAN /\ answer \in BOOLEAN
    BY DEF Init
  <2>2. taken \in Seq([cmd : Commands, use : {"run", "free"}]) /\ Len(taken) = 0 /\ Len(cmd_queue) = 0
    BY <2>1
  <2>3. Kinds
    BY <2>1, <2>2, Sizes DEF Kinds, Answers
  <2>4. ShownIsNext /\ Removing /\ StopsAreRun
    BY <2>1, <2>2, NamesDiffer DEF ShownIsNext, Removing, StopsAreRun
  <2> QED BY <2>3, <2>4
<1> QED BY <1>1, <1>2 DEF CommandInv

LEMMA WriteKeeps == ASSUME CommandInv, NEW f \in FdSet, Write(f) PROVE CommandInv'
<1>1. /\ UNCHANGED <<buf, got_cmd, eof, drop, cmd_fds, cmd_queue, async_quit_request, pc, shown, answer, keys, taken>>
      /\ unsent[f] # <<>> /\ unsent[f] \in Texts /\ pipe[f] \in Texts
      /\ pipe' = [pipe EXCEPT ![f] = Append(@, Head(unsent[f]))]
      /\ unsent' = [unsent EXCEPT ![f] = Tail(@)]
  BY DEF Write, fdState, CommandInv, Values
<1>2. Append(pipe[f], Head(unsent[f])) \in Texts /\ Tail(unsent[f]) \in Texts
  <2> DEFINE u == unsent[f]
             p == pipe[f]
  <2>1. u \in Seq(STRING) /\ u # <<>> /\ p \in Seq(STRING)
    BY <1>1 DEF Texts
  <2> HIDE DEF u, p
  <2>2. Head(u) \in STRING /\ Tail(u) \in Seq(STRING)
    BY <2>1
  <2>3. Append(p, Head(u)) \in Seq(STRING)
    BY <2>1, <2>2
  <2> QED BY <2>2, <2>3 DEF u, p, Texts
<1>3. Values'
  BY <1>1, <1>2 DEF CommandInv, Values
<1> QED BY <1>1, <1>3 DEF CommandInv, BuffersFit, Kinds, ShownIsNext, Removing, StopsAreRun

LEMMA PostKeeps == ASSUME CommandInv, NEW c \in KeyCmds, Post(c) PROVE CommandInv'
<1>1. /\ UNCHANGED <<pipe, unsent, buf, got_cmd, eof, drop, cmd_fds, async_quit_request, pc, shown, answer, taken>>
      /\ keys' = keys + 1 /\ cmd_queue' = queue_cmd(cmd_queue, c)
  BY DEF Post, fdState, writers
<1>2. c \in Queued /\ cmd_queue \in Seq(Queued) /\ Len(cmd_queue) <= QueueSize
  BY NamesDiffer DEF Queued, CommandInv, Values, Kinds
<1>3. /\ cmd_queue' \in Seq(Queued) /\ Len(cmd_queue') <= QueueSize
      /\ cmd_queue # <<>> => cmd_queue' # <<>> /\ Head(cmd_queue') = Head(cmd_queue)
  BY <1>1, <1>2, QueueCmdIs
<1>4. Values' /\ BuffersFit' /\ Kinds'
  BY <1>1, <1>3 DEF CommandInv, Values, BuffersFit, Kinds
<1>5. ShownIsNext' /\ Removing' /\ StopsAreRun'
  BY <1>1, <1>3 DEF CommandInv, ShownIsNext, Removing, StopsAreRun
<1> QED BY <1>4, <1>5 DEF CommandInv

LEMMA SignalKeeps == ASSUME CommandInv, Signal PROVE CommandInv'
<1>1. /\ UNCHANGED <<pipe, unsent, buf, got_cmd, eof, drop, cmd_fds, cmd_queue, pc, shown, answer, keys, taken>>
      /\ async_quit_request' = TRUE
  BY DEF Signal, fdState, writers
<1> QED BY <1>1 DEF CommandInv, Values, BuffersFit, Kinds, ShownIsNext, Removing, StopsAreRun

\* A command that is taken to be freed does not stop an operation.
LEMMA TakeKeeps ==
  ASSUME CommandInv, NEW i, i.ret \in Answers, NEW use \in {"run", "free"}, Take(i, use),
         use = "free" => i.ret \notin Stops
  PROVE  taken' \in Seq([cmd : Commands, use : {"run", "free"}]) /\ StopsAreRun'
<1>0. taken \in Seq([cmd : Commands, use : {"run", "free"}]) /\ StopsAreRun
  BY DEF CommandInv, Kinds
<1>1. CASE i.ret \in KeyCmds \union {NoCmd, AsyncQuit}
  BY <1>0, <1>1 DEF Take, StopsAreRun
<1>2. CASE i.ret \notin KeyCmds \union {NoCmd, AsyncQuit}
  <2> DEFINE t == [cmd |-> i.ret, use |-> use]
  <2>1. taken' = Append(taken, t) /\ i.ret \in Commands
    BY <1>2 DEF Take, Answers
  <2>2. t \in [cmd : Commands, use : {"run", "free"}] /\ (t.cmd \in Stops => t.use = "run")
    BY <2>1
  <2> HIDE DEF t
  <2> QED BY <1>0, <2>1, <2>2 DEF StopsAreRun
<1> QED BY <1>1, <1>2

LEMMA GetKeeps == ASSUME CommandInv, Get PROVE CommandInv'
<1>1. PICK i \in get_cmd(FALSE) : Become(i) /\ Take(i, "run")
  BY DEF Get
<1>2. Sound(i) /\ i.ret \in Answers
  BY GetCmdIs DEF CommandInv, Sound, Outcomes
<1>3. pc = "main" /\ shown' = NoCmd /\ UNCHANGED <<unsent, async_quit_request, pc, answer>>
  BY DEF Get
<1>4. Values' /\ BuffersFit' /\ Len(cmd_queue') <= QueueSize
  BY <1>1, <1>2, <1>3, BecomeKeeps DEF CommandInv
<1>5. taken' \in Seq([cmd : Commands, use : {"run", "free"}]) /\ StopsAreRun'
  BY <1>1, <1>2, TakeKeeps
<1>6. Kinds' /\ ShownIsNext' /\ Removing'
  BY <1>3, <1>4, <1>5, NamesDiffer DEF CommandInv, Kinds, Answers, ShownIsNext, Removing
<1> QED BY <1>4, <1>5, <1>6 DEF CommandInv

LEMMA RemoveCmdKeeps == ASSUME CommandInv, RemoveCmd PROVE CommandInv'
<1>1. PICK i \in get_cmd(FALSE) : Become(i) /\ Take(i, "free")
  BY DEF RemoveCmd
<1>2. Sound(i) /\ i.ret \in Answers
  BY GetCmdIs DEF CommandInv, Sound, Outcomes
<1>3. pc = "remove" /\ pc' = "main" /\ shown' = NoCmd /\ UNCHANGED <<unsent, async_quit_request, answer>>
  BY DEF RemoveCmd
<1>4. i.ret \notin Stops
  <2>1. shown \in Commands \ Stops /\ cmd_queue # <<>> /\ Head(cmd_queue) = shown
    BY <1>3 DEF CommandInv, Removing, ShownIsNext
  <2>2. i.ret \in {AsyncQuit, NoCmd, shown}
    BY <2>1, GetCmdIs DEF CommandInv, Kinds
  <2> QED BY <2>1, <2>2, NamesDiffer
<1>5. Values' /\ BuffersFit' /\ Len(cmd_queue') <= QueueSize
  BY <1>1, <1>2, <1>3, BecomeKeeps DEF CommandInv
<1>6. taken' \in Seq([cmd : Commands, use : {"run", "free"}]) /\ StopsAreRun'
  BY <1>1, <1>2, <1>4, TakeKeeps
<1>7. Kinds' /\ ShownIsNext' /\ Removing'
  BY <1>3, <1>5, <1>6, NamesDiffer DEF CommandInv, Kinds, Answers, ShownIsNext, Removing
<1> QED BY <1>5, <1>6, <1>7 DEF CommandInv

\* The two that only look.
LEMMA LookKeeps ==
  ASSUME CommandInv, NEW i \in get_cmd(TRUE), Become(i), shown' = i.ret,
         UNCHANGED <<unsent, async_quit_request, taken>>, answer' \in BOOLEAN,
         pc' = "main" \/ (pc' = "remove" /\ ~Stays(i.ret))
  PROVE  CommandInv'
<1>1. Sound(i) /\ i.ret \in Answers /\ Peeked(i)
  BY GetCmdIs DEF CommandInv, Sound, Outcomes
<1>2. Values' /\ BuffersFit' /\ Len(cmd_queue') <= QueueSize
  BY <1>1, BecomeKeeps DEF CommandInv
<1>3. ShownIsNext'
  BY <1>1 DEF ShownIsNext, Peeked, Become
<1>4. Removing'
  BY <1>1 DEF Removing, Stays, Answers
<1>5. Kinds' /\ StopsAreRun'
  BY <1>1, <1>2 DEF CommandInv, Kinds, StopsAreRun
<1> QED BY <1>2, <1>3, <1>4, <1>5 DEF CommandInv

LEMMA PeekKeeps == ASSUME CommandInv, Peek PROVE CommandInv'
  BY LookKeeps DEF Peek, CommandInv, Kinds

LEMMA CheckInterruptKeeps == ASSUME CommandInv, CheckInterrupt PROVE CommandInv'
<1>1. PICK i \in get_cmd(TRUE) :
        /\ Become(i) /\ shown' = i.ret
        /\ answer' = (i.ret \in Stops \union {AsyncQuit})
        /\ pc' = IF Stays(i.ret) THEN "main" ELSE "remove"
  BY DEF CheckInterrupt
<1>2. answer' \in BOOLEAN
  <2> DEFINE a == i.ret \in Stops \union {AsyncQuit}
  <2>1. a \in BOOLEAN
    OBVIOUS
  <2> HIDE DEF a
  <2>2. answer' = a
    BY <1>1, Zenon DEF a
  <2> QED BY <2>1, <2>2
<1>3. UNCHANGED <<unsent, async_quit_request, taken>>
  BY DEF CheckInterrupt
<1> QED BY <1>1, <1>2, <1>3, LookKeeps

LEMMA NextCommand == ASSUME CommandInv, [Next]_vars PROVE CommandInv'
<1>1. CASE UNCHANGED vars
  <2>1. UNCHANGED <<pipe, unsent, buf, got_cmd, eof, drop, cmd_fds, cmd_queue, async_quit_request, pc, shown, answer, keys, taken>>
    BY <1>1 DEF vars, fdState, writers
  <2> QED BY <2>1 DEF CommandInv, Values, BuffersFit, Kinds, ShownIsNext, Removing, StopsAreRun
<1>2. CASE Next
  BY <1>2, WriteKeeps, PostKeeps, SignalKeeps, GetKeeps, PeekKeeps, CheckInterruptKeeps, RemoveCmdKeeps DEF Next
<1> QED BY <1>1, <1>2

THEOREM CommandInvariant == Spec => []CommandInv
  BY InitCommand, NextCommand, PTL DEF Spec

\* No pipe's buffer and no queue overflows, and the queue holds commands only.
THEOREM CommandTypes == Spec => []TypeOK
<1>1. CommandInv => TypeOK
  <2> SUFFICES ASSUME CommandInv PROVE TypeOK
    OBVIOUS
  <2>1. \A f \in FdSet : /\ pipe[f] \in Seq(STRING) /\ unsent[f] \in Seq(STRING)
                         /\ Len(buf[f]) < MaxSize
                         /\ {got_cmd[f], eof[f], drop[f]} \subseteq BOOLEAN
    BY DEF CommandInv, Values, BuffersFit, Texts
  <2>2. ToSet(cmd_queue) \subseteq Commands \union {AsyncQuit}
    BY DEF CommandInv, Values, Queued, ToSet
  <2> QED BY <2>1, <2>2 DEF CommandInv, Values, Kinds, Answers, TypeOK
<1> QED BY <1>1, CommandInvariant, PTL

\* A command that was only looked at is the next one to be taken, whatever keys,
\* window events and signals come in between.
THEOREM LookIsPromise == Spec => []ShownIsNext
<1>1. CommandInv => ShownIsNext
  BY DEF CommandInv
<1> QED BY <1>1, CommandInvariant, PTL

\* A command that interrupts a blocking operation is not removed by it.
THEOREM StopsReachMainLoop == Spec => []StopsAreRun
<1>1. CommandInv => StopsAreRun
  BY DEF CommandInv
<1> QED BY <1>1, CommandInvariant, PTL

----------------------------------------------------------------------------
\* The end of the first line of a text.
LEMMA LineEndOnly ==
  ASSUME NEW b \in Texts, NEW e \in 1 .. Len(b), b[e] = NL, \A j \in 1 .. e - 1 : b[j] # NL
  PROVE  LineEnd(b) = e
<1> DEFINE d == LineEnd(b)
<1>1. d \in 0 .. Len(b) /\ Len(b) \in Nat
  BY LineEndFirst DEF Texts
<1>2. d # 0
  BY LineEndFirst
<1>3. b[d] = NL /\ \A j \in 1 .. d - 1 : b[j] # NL
  BY <1>2, LineEndFirst
<1> HIDE DEF d
<1>4. ~(d < e) /\ ~(e < d)
  BY <1>1, <1>2, <1>3
<1>5. d = e
  BY <1>1, <1>4
<1> QED BY <1>5 DEF d

LEMMA LineEndConcat ==
  ASSUME NEW b \in Texts, NEW r \in Texts
  PROVE  /\ LineEnd(b) # 0 => LineEnd(b \o r) = LineEnd(b)
         /\ LineEnd(b) = 0 /\ LineEnd(r) # 0 => LineEnd(b \o r) = Len(b) + LineEnd(r)
         /\ LineEnd(b) = 0 /\ LineEnd(r) = 0 => LineEnd(b \o r) = 0
<1> DEFINE u == b \o r
           l == Len(b)
           e == LineEnd(b)
           d == LineEnd(r)
<1>1. u \in Texts /\ Len(u) = l + Len(r) /\ l \in Nat /\ Len(r) \in Nat
      /\ \A i \in 1 .. Len(u) : u[i] = IF i <= l THEN b[i] ELSE r[i - l]
  BY DEF Texts
<1>2. /\ e \in 0 .. l
      /\ e = 0 => \A j \in 1 .. l : b[j] # NL
      /\ e # 0 => b[e] = NL /\ \A j \in 1 .. e - 1 : b[j] # NL
  BY LineEndFirst
<1>3. /\ d \in 0 .. Len(r)
      /\ d = 0 => \A j \in 1 .. Len(r) : r[j] # NL
      /\ d # 0 => r[d] = NL /\ \A j \in 1 .. d - 1 : r[j] # NL
  BY LineEndFirst
<1> HIDE DEF u, l, e, d
<1>4. e # 0 => LineEnd(u) = e
  <2>1. SUFFICES ASSUME e # 0 PROVE LineEnd(u) = e
    OBVIOUS
  <2>2. e \in 1 .. Len(u) /\ u[e] = NL /\ \A j \in 1 .. e - 1 : u[j] # NL
    BY <1>1, <1>2, <2>1
  <2> QED BY <1>1, <2>2, LineEndOnly
<1>5. e = 0 /\ d # 0 => LineEnd(u) = l + d
  <2>1. SUFFICES ASSUME e = 0, d # 0 PROVE LineEnd(u) = l + d
    OBVIOUS
  <2>2. l + d \in 1 .. Len(u) /\ (l + d) - l = d /\ ~(l + d <= l)
    BY <1>1, <1>3, <2>1
  <2>3. u[l + d] = NL
    BY <1>1, <1>3, <2>1, <2>2
  <2>4. ASSUME NEW j \in 1 .. (l + d) - 1 PROVE u[j] # NL
    <3>1. CASE j <= l
      BY <1>1, <1>2, <2>1, <2>2, <3>1
    <3>2. CASE ~(j <= l)
      <4>1. j - l \in 1 .. d - 1 /\ j \in 1 .. Len(u)
        BY <1>1, <1>3, <2>2, <3>2
      <4> QED BY <1>1, <1>3, <2>1, <3>2, <4>1
    <3> QED BY <3>1, <3>2
  <2> QED BY <1>1, <2>2, <2>3, <2>4, LineEndOnly
<1>6. e = 0 /\ d = 0 => LineEnd(u) = 0
  <2>1. SUFFICES ASSUME e = 0, d = 0 PROVE LineEnd(u) = 0
    OBVIOUS
  <2>2. ASSUME NEW j \in 1 .. Len(u) PROVE u[j] # NL
    <3>1. CASE j <= l
      BY <1>1, <1>2, <2>1, <3>1
    <3>2. CASE ~(j <= l)
      <4>1. j - l \in 1 .. Len(r)
        BY <1>1, <3>2
      <4> QED BY <1>1, <1>3, <2>1, <3>2, <4>1
    <3> QED BY <3>1, <3>2
  <2>3. LineEnd(u) \in 0 .. Len(u) /\ (LineEnd(u) # 0 => u[LineEnd(u)] = NL)
    BY <1>1, LineEndFirst
  <2> QED BY <1>1, <2>2, <2>3
<1> QED BY <1>4, <1>5, <1>6 DEF u, l, e, d
----------------------------------------------------------------------------
\* What a text gives, line by line.
LEMMA GivesIs == \A line : Gives(line) \in Seq(Commands)
<1> SUFFICES ASSUME NEW line PROVE Gives(line) \in Seq(Commands)
  OBVIOUS
<1>1. parse_cmd(line) \in Commands \/ parse_cmd(line) = NoCmd
  BY ParseCmdIs
<1> QED BY <1>1 DEF Gives

LEMMA GivesNothing == Gives(<<>>) = <<>>
<1>1. parse_cmd(<<>>) = NoCmd
  BY DEF parse_cmd
<1> QED BY <1>1 DEF Gives

LEMMA NextLineIs ==
  ASSUME NEW t \in Texts, LineEnd(t) # 0
  PROVE  NextLine(t) \in Texts /\ Len(NextLine(t)) < Len(t)
<1> DEFINE e == LineEnd(t)
           n == SubSeq(t, e + 1, Len(t))
<1>1. e \in 1 .. Len(t) /\ Len(t) \in Nat /\ t \in Seq(STRING)
  BY LineEndFirst DEF Texts
<1>2. NextLine(t) = n
  BY DEF NextLine
<1> HIDE DEF e
<1>3. n \in Seq(STRING) /\ Len(n) = Len(t) - e
  BY <1>1
<1> HIDE DEF n
<1> QED BY <1>1, <1>2, <1>3 DEF Texts

LEMMA CmdsIs ==
  \A t \in Texts :
    /\ Cmds[t] \in Seq(Commands)
    /\ Cmds[t] = IF LineEnd(t) = 0 THEN <<>>
                 ELSE Gives(SubSeq(t, 1, LineEnd(t) - 1)) \o Cmds[NextLine(t)]
<1> DEFINE V == Seq(Commands)
           rank == [t \in Texts |-> Len(t)]
           base == {t \in Texts : LineEnd(t) = 0}
           next == [t \in Texts \ base |-> NextLine(t)]
           step == [p \in Texts \X V |-> Gives(SubSeq(p[1], 1, LineEnd(p[1]) - 1)) \o p[2]]
           Def(f) == [t \in Texts |-> IF LineEnd(t) = 0 THEN <<>>
                                      ELSE Gives(SubSeq(t, 1, LineEnd(t) - 1)) \o f[NextLine(t)]]
<1>1. rank \in [Texts -> Nat] /\ base \in SUBSET Texts /\ <<>> \in V
  BY DEF Texts
<1>2. next \in [Texts \ base -> Texts]
  BY NextLineIs
<1>3. step \in [Texts \X V -> V]
  <2> SUFFICES ASSUME NEW p \in Texts \X V
               PROVE  Gives(SubSeq(p[1], 1, LineEnd(p[1]) - 1)) \o p[2] \in V
    OBVIOUS
  <2>1. p[2] \in Seq(Commands) /\ Gives(SubSeq(p[1], 1, LineEnd(p[1]) - 1)) \in Seq(Commands)
    BY GivesIs
  <2> QED BY <2>1, ConcatProperties
<1>4. Descends(Texts, rank, base, next)
  BY NextLineIs DEF Descends
<1>5. \A t \in Texts \ base : next[t] = NextLine(t) /\ next[t] \in Texts
  BY NextLineIs
<1>6. \A t \in Texts, v \in V : step[<<t, v>>] = Gives(SubSeq(t, 1, LineEnd(t) - 1)) \o v
  OBVIOUS
<1>7. \A t \in Texts : t \in base <=> LineEnd(t) = 0
  OBVIOUS
<1> HIDE DEF rank, base, next, step, V
<1>8. PICK f \in [Texts -> V] : Solution(f, Texts, base, <<>>, next, step)
  BY <1>1, <1>2, <1>3, <1>4, Recursion
<1>9. ASSUME NEW t \in Texts
      PROVE  f[t] = IF LineEnd(t) = 0 THEN <<>>
                    ELSE Gives(SubSeq(t, 1, LineEnd(t) - 1)) \o f[NextLine(t)]
  <2>1. CASE LineEnd(t) = 0
    BY <1>7, <1>8, <2>1 DEF Solution
  <2>2. CASE LineEnd(t) # 0
    <3>1. t \in Texts \ base
      BY <1>7, <2>2
    <3>2. f[t] = step[<<t, f[next[t]]>>] /\ next[t] = NextLine(t) /\ f[next[t]] \in V
      BY <1>5, <1>8, <3>1 DEF Solution
    <3> QED BY <1>6, <2>2, <3>2
  <2> QED BY <2>1, <2>2
<1>10. f = Def(f)
  BY <1>8, <1>9
<1>11. Cmds = CHOOSE g : g = Def(g)
  BY DEF Cmds, Texts
<1> HIDE DEF Def
<1>12. Cmds = Def(Cmds)
  BY <1>10, <1>11
<1>13. \A t \in Texts : Cmds[t] = IF LineEnd(t) = 0 THEN <<>>
                                  ELSE Gives(SubSeq(t, 1, LineEnd(t) - 1)) \o Cmds[NextLine(t)]
  BY <1>12 DEF Def
<1>14. \A t \in Texts : Cmds[t] \in Seq(Commands)
  <2> DEFINE T == {t \in Texts : Cmds[t] \notin Seq(Commands)}
  <2>1. SUFFICES ASSUME T # {} PROVE FALSE
    OBVIOUS
  <2>2. T \in SUBSET Texts
    OBVIOUS
  <2>3. PICK t \in T : \A u \in T : rank[t] <= rank[u]
    BY <1>1, <2>1, <2>2, LeastRanked
  <2>4. t \in Texts /\ Cmds[t] \notin Seq(Commands)
    OBVIOUS
  <2>5. LineEnd(t) # 0
    <3>1. <<>> \in Seq(Commands)
      OBVIOUS
    <3> QED BY <1>13, <2>4, <3>1
  <2>6. NextLine(t) \in Texts /\ Len(NextLine(t)) < Len(t) /\ Len(t) \in Nat /\ Len(NextLine(t)) \in Nat
    BY <2>4, <2>5, NextLineIs DEF Texts
  <2>7. rank[NextLine(t)] = Len(NextLine(t)) /\ rank[t] = Len(t)
    BY <2>4, <2>6 DEF rank
  <2>8. NextLine(t) \notin T
    BY <2>3, <2>6, <2>7
  <2>9. Cmds[NextLine(t)] \in Seq(Commands)
    BY <2>6, <2>8
  <2>10. Gives(SubSeq(t, 1, LineEnd(t) - 1)) \o Cmds[NextLine(t)] \in Seq(Commands)
    BY <2>9, GivesIs, ConcatProperties
  <2> QED BY <1>13, <2>4, <2>5, <2>10
<1> QED BY <1>13, <1>14

LEMMA AcceptedIs == \A skip : \A t \in Texts : Accepted(t, skip) \in Seq(Commands)
<1>1. ASSUME NEW t \in Texts, NEW skip PROVE Accepted(t, skip) \in Seq(Commands)
  <2>1. <<>> \in Seq(Commands)
    OBVIOUS
  <2>2. LineEnd(t) # 0 => Cmds[NextLine(t)] \in Seq(Commands)
    BY CmdsIs, NextLineIs
  <2>3. Cmds[t] \in Seq(Commands)
    BY CmdsIs
  <2> QED BY <2>1, <2>2, <2>3 DEF Accepted
<1> QED BY <1>1

\* A whole line at the front of a text ...
LEMMA AcceptedLine ==
  ASSUME NEW b \in Texts, Len(b) < MaxSize, LineEnd(b) # 0, NEW r \in Texts, NEW skip
  PROVE  Accepted(b \o r, skip) =
           (IF skip THEN <<>> ELSE Gives(SubSeq(b, 1, LineEnd(b) - 1)))
             \o Accepted(SubSeq(b, LineEnd(b) + 1, Len(b)) \o r, FALSE)
<1> DEFINE e == LineEnd(b)
           u == b \o r
           rest == SubSeq(b, e + 1, Len(b)) \o r
<1>1. e \in 1 .. Len(b) /\ Len(b) \in Nat /\ LineEnd(u) = e
  BY LineEndFirst, LineEndConcat DEF Texts
<1>2. u \in Texts /\ rest \in Texts
  <2>1. b \in Seq(STRING) /\ r \in Seq(STRING)
    BY DEF Texts
  <2>2. SubSeq(b, e + 1, Len(b)) \in Seq(STRING)
    BY <1>1, <2>1
  <2> QED BY <2>1, <2>2, ConcatProperties DEF Texts
<1>3. SubSeq(u, 1, e - 1) = SubSeq(b, 1, e - 1)
  <2>1. e - 1 \in 0 .. Len(b)
    BY <1>1
  <2> QED BY <2>1, CutFirst DEF Texts
<1>4. NextLine(u) = rest
  <2>1. e \in 0 .. Len(b)
    BY <1>1
  <2>2. SubSeq(u, e + 1, Len(u)) = rest
    BY <2>1, CutFirst DEF Texts
  <2> QED BY <1>1, <2>2 DEF NextLine
<1> HIDE DEF e, u, rest
<1>5. e # 0
  BY <1>1
<1>6. Cmds[u] = Gives(SubSeq(b, 1, e - 1)) \o Cmds[rest]
  BY <1>1, <1>2, <1>3, <1>4, <1>5, CmdsIs
<1>7. Cmds[rest] \in Seq(Commands) /\ <<>> \o Cmds[rest] = Cmds[rest]
  BY <1>2, CmdsIs, ConcatEmptySeq
<1>8. Accepted(rest, FALSE) = Cmds[rest]
  BY DEF Accepted
<1>9. CASE skip
  <2>1. Accepted(u, skip) = Cmds[rest]
    BY <1>1, <1>4, <1>5, <1>9 DEF Accepted
  <2> QED BY <1>7, <1>8, <1>9, <2>1 DEF u, rest, e
<1>10. CASE ~skip
  <2>1. Accepted(u, skip) = Cmds[u]
    BY <1>10 DEF Accepted
  <2> QED BY <1>6, <1>8, <1>10, <2>1 DEF u, rest, e
<1> QED BY <1>9, <1>10

\* ... and the start of one that does not fit the buffer.
LEMMA AcceptedDrop ==
  ASSUME NEW b \in Texts, Full(b), LineEnd(b) = 0, NEW r \in Texts, NEW skip
  PROVE  Accepted(b \o r, skip) = Accepted(r, TRUE)
<1> DEFINE u == b \o r
           d == LineEnd(r)
           l == Len(b)
<1>1. u \in Texts /\ l \in Nat /\ l > MaxSize - 2 /\ MaxSize \in Nat /\ d \in 0 .. Len(r) /\ Len(r) \in Nat
      /\ Len(u) = l + Len(r)
  <2>1. b \in Seq(STRING) /\ r \in Seq(STRING)
    BY DEF Texts
  <2>2. u \in Seq(STRING) /\ Len(u) = l + Len(r) /\ l \in Nat /\ Len(r) \in Nat
    BY <2>1
  <2>3. d \in 0 .. Len(r)
    BY LineEndFirst
  <2> HIDE DEF u, d
  <2>4. l > MaxSize - 2
    BY <2>2, Sizes DEF Full
  <2> QED BY <2>2, <2>3, <2>4, Sizes DEF Texts
<1>2. CASE d = 0
  <2>1. LineEnd(u) = 0
    BY <1>2, LineEndConcat
  <2>2. Cmds[u] = <<>>
    BY <1>1, <2>1, CmdsIs
  <2> QED BY <1>2, <2>1, <2>2 DEF Accepted
<1>3. CASE d # 0
  <2>1. LineEnd(u) = l + d
    BY <1>3, LineEndConcat
  <2>2. NextLine(u) = NextLine(r) /\ NextLine(r) \in Texts
    <3>1. SubSeq(u, l + d + 1, Len(u)) = SubSeq(r, d + 1, Len(r))
      BY <1>1, CutSecond DEF Texts
    <3>2. NextLine(r) \in Texts
      BY <1>3, NextLineIs
    <3> QED BY <2>1, <3>1, <3>2 DEF NextLine
  <2> DEFINE line == SubSeq(u, 1, LineEnd(u) - 1)
  <2>3. Len(line) = l + d - 1
    <3> HIDE DEF u, d, l
    <3>1. u \in Seq(STRING) /\ LineEnd(u) - 1 \in 0 .. Len(u)
      BY <1>1, <1>3, <2>1 DEF Texts
    <3> DEFINE k == LineEnd(u) - 1
    <3> HIDE DEF k
    <3>3. k \in 0 .. Len(u)
      BY <3>1 DEF k
    <3>4. Len(SubSeq(u, 1, k)) = k
      BY <3>1, <3>3
    <3>2. Len(line) = LineEnd(u) - 1
      BY <3>4 DEF k
    <3> HIDE DEF line
    <3> QED BY <1>1, <2>1, <3>2
  <2> HIDE DEF line, u, d, l
  <2>4. Gives(line) = <<>>
    <3>1. Len(line) > MaxSize - 2
      BY <1>1, <1>3, <2>3
    <3> QED BY <3>1 DEF Gives
  <2>5. LineEnd(u) # 0
    BY <1>1, <1>3, <2>1
  <2>6. Cmds[u] = <<>> \o Cmds[NextLine(r)]
    BY <1>1, <2>2, <2>4, <2>5, CmdsIs DEF line
  <2>7. Cmds[u] = Cmds[NextLine(r)]
    BY <2>2, <2>6, CmdsIs, ConcatEmptySeq
  <2>8. Accepted(r, TRUE) = Cmds[NextLine(r)]
    BY <1>3 DEF Accepted, d
  <2>9. Accepted(u, skip) = Cmds[NextLine(r)]
    BY <2>2, <2>5, <2>7 DEF Accepted
  <2> QED BY <2>8, <2>9 DEF u
<1> QED BY <1>2, <1>3
----------------------------------------------------------------------------
\* The commands of one pipe among those of all.
Own(f, c) == IF c \in ToSet(Script[f]) \cap Commands THEN <<c>> ELSE <<>>

LEMMA OwnIs == \A f, c : Own(f, c) \in Seq(Commands)
<1> SUFFICES ASSUME NEW f, NEW c PROVE Own(f, c) \in Seq(Commands)
  OBVIOUS
<1> QED BY DEF Own

LEMMA OfIs ==
  ASSUME NEW f
  PROVE  /\ Of(f, <<>>) = <<>>
         /\ \A s \in Seq(Queued) : s # <<>> => Of(f, s) = Own(f, Head(s)) \o Of(f, Tail(s))
         /\ \A s \in Seq(Queued) : Of(f, s) \in Seq(Commands)
<1> DEFINE S == Seq(Queued)
           V == Seq(Commands)
           rank == [s \in S |-> Len(s)]
           base == {s \in S : s = <<>>}
           next == [s \in S \ base |-> Tail(s)]
           step == [p \in S \X V |-> Own(f, Head(p[1])) \o p[2]]
           Def(g) == [s \in Seq(Commands \union {AsyncQuit}) |->
                        IF s = <<>> THEN <<>>
                        ELSE (IF Head(s) \in ToSet(Script[f]) \cap Commands
                              THEN <<Head(s)>> ELSE <<>>) \o g[Tail(s)]]
<1>1. rank \in [S -> Nat] /\ base \in SUBSET S /\ <<>> \in V /\ <<>> \in S
  OBVIOUS
<1>2. next \in [S \ base -> S]
  OBVIOUS
<1>3. step \in [S \X V -> V]
  <2> SUFFICES ASSUME NEW p \in S \X V PROVE Own(f, Head(p[1])) \o p[2] \in V
    OBVIOUS
  <2>1. p[2] \in Seq(Commands) /\ Own(f, Head(p[1])) \in Seq(Commands)
    BY OwnIs
  <2> QED BY <2>1, ConcatProperties
<1>4. Descends(S, rank, base, next)
  BY TailIs DEF Descends
<1>5. \A s \in S \ base : next[s] = Tail(s) /\ next[s] \in S
  OBVIOUS
<1>6. \A s \in S, v \in V : step[<<s, v>>] = Own(f, Head(s)) \o v
  OBVIOUS
<1>7. \A s \in S : s \in base <=> s = <<>>
  OBVIOUS
<1> HIDE DEF rank, base, next, step, V, S
<1>8. PICK g \in [S -> V] : Solution(g, S, base, <<>>, next, step)
  BY <1>1, <1>2, <1>3, <1>4, Recursion
<1>9. ASSUME NEW s \in S
      PROVE  g[s] = IF s = <<>> THEN <<>> ELSE Own(f, Head(s)) \o g[Tail(s)]
  <2>1. CASE s = <<>>
    BY <1>7, <1>8, <2>1 DEF Solution
  <2>2. CASE s # <<>>
    <3>1. s \in S \ base
      BY <1>7, <2>2
    <3>2. g[s] = step[<<s, g[next[s]]>>] /\ next[s] = Tail(s) /\ g[next[s]] \in V
      BY <1>5, <1>8, <3>1 DEF Solution
    <3> QED BY <1>6, <2>2, <3>2
  <2> QED BY <2>1, <2>2
<1>10. \A h : Def(h) = [s \in S |-> IF s = <<>> THEN <<>> ELSE Own(f, Head(s)) \o h[Tail(s)]]
  BY DEF S, Queued, Own
<1>11. g = Def(g)
  BY <1>8, <1>9, <1>10
<1> DEFINE own == CHOOSE h : h = Def(h)
<1>12. \A s : Of(f, s) = own[s]
  BY DEF Of
<1> HIDE DEF Def
<1>13. own = Def(own)
  BY <1>11
<1> HIDE DEF own
<1>14. \A s \in S : own[s] = IF s = <<>> THEN <<>> ELSE Own(f, Head(s)) \o own[Tail(s)]
  BY <1>10, <1>13
<1>15. \A s \in S : own[s] \in Seq(Commands)
  <2> DEFINE T == {s \in S : own[s] \notin Seq(Commands)}
  <2>1. SUFFICES ASSUME T # {} PROVE FALSE
    OBVIOUS
  <2>2. T \in SUBSET S
    OBVIOUS
  <2>3. PICK t \in T : \A u \in T : rank[t] <= rank[u]
    BY <1>1, <2>1, <2>2, LeastRanked
  <2>4. t \in S /\ own[t] \notin Seq(Commands)
    OBVIOUS
  <2>5. t # <<>>
    <3>1. <<>> \in Seq(Commands)
      OBVIOUS
    <3> QED BY <1>14, <2>4, <3>1
  <2>6. Tail(t) \in S /\ Len(Tail(t)) < Len(t) /\ Len(t) \in Nat /\ Len(Tail(t)) \in Nat
    BY <2>4, <2>5, TailIs DEF S
  <2>7. rank[Tail(t)] = Len(Tail(t)) /\ rank[t] = Len(t)
    BY <2>4, <2>6 DEF rank
  <2>8. Tail(t) \notin T
    BY <2>3, <2>6, <2>7
  <2>9. own[Tail(t)] \in Seq(Commands) /\ Own(f, Head(t)) \in Seq(Commands)
    BY <2>6, <2>8, OwnIs
  <2>10. Own(f, Head(t)) \o own[Tail(t)] \in Seq(Commands)
    BY <2>9, ConcatProperties
  <2> QED BY <1>14, <2>4, <2>5, <2>10
<1> QED BY <1>1, <1>12, <1>14, <1>15 DEF S

LEMMA OfConcat ==
  ASSUME NEW f, NEW s \in Seq(Queued), NEW t \in Seq(Queued)
  PROVE  Of(f, s \o t) = Of(f, s) \o Of(f, t)
<1> DEFINE S == Seq(Queued)
           rank == [u \in S |-> Len(u)]
           T == {u \in S : Of(f, u \o t) # Of(f, u) \o Of(f, t)}
<1>1. SUFFICES ASSUME T # {} PROVE FALSE
  OBVIOUS
<1>2. rank \in [S -> Nat] /\ T \in SUBSET S
  OBVIOUS
<1>3. PICK u \in T : \A v \in T : rank[u] <= rank[v]
  BY <1>1, <1>2, LeastRanked
<1>4. u \in Seq(Queued) /\ Of(f, u \o t) # Of(f, u) \o Of(f, t)
  OBVIOUS
<1>5. u # <<>>
  <2>1. Of(f, t) \in Seq(Commands) /\ Of(f, <<>>) = <<>>
    BY OfIs
  <2>2. <<>> \o Of(f, t) = Of(f, t) /\ <<>> \o t = t
    BY <2>1, ConcatEmptySeq
  <2> QED BY <1>4, <2>1, <2>2
<1> DEFINE h == Head(u)
           w == Tail(u)
<1>6. h \in Queued /\ w \in Seq(Queued) /\ Len(w) < Len(u) /\ u = <<h>> \o w /\ Len(u) \in Nat /\ Len(w) \in Nat
  BY <1>4, <1>5, TailIs
<1>7. w \notin T
  <2>1. rank[w] = Len(w) /\ rank[u] = Len(u)
    BY <1>4, <1>6
  <2> HIDE DEF rank, T, w
  <2> QED BY <1>3, <1>6, <2>1
<1>8. Of(f, w \o t) = Of(f, w) \o Of(f, t)
  BY <1>6, <1>7
<1>9. Of(f, u) = Own(f, h) \o Of(f, w)
  BY <1>4, <1>5, OfIs
<1>10. u \o t # <<>> /\ u \o t \in Seq(Queued) /\ Head(u \o t) = h /\ Tail(u \o t) = w \o t
  <2> HIDE DEF T
  <2>1. u \o t \in Seq(Queued) /\ u \o t # <<>>
    BY <1>4, <1>5, ConcatProperties, ConcatEqualIffEmpty
  <2>2. Head(u \o t) = h
    BY <1>4, <1>5
  <2>3. <<h>> \in Seq(Queued) /\ Len(<<h>>) = 1
    BY <1>6
  <2>4. u \o t = <<h>> \o (w \o t)
    <3> HIDE DEF h, w
    <3> QED BY <1>6, <2>3, Regroup
  <2>5. w \o t \in Seq(Queued)
    BY <1>6, ConcatProperties
  <2>6. Tail(<<h>> \o (w \o t)) = w \o t
    <3> DEFINE x == w \o t
               y == <<h>> \o x
    <3> HIDE DEF x, h
    <3>1. x \in Seq(Queued) /\ <<h>> \in Seq(Queued) /\ Len(<<h>>) = 1 /\ Len(x) \in Nat
      BY <2>3, <2>5 DEF x
    <3>2. y \in Seq(Queued) /\ Len(y) = 1 + Len(x)
          /\ \A i \in 1 .. 1 + Len(x) : y[i] = IF i <= 1 THEN <<h>>[i] ELSE x[i - 1]
      BY <3>1, ConcatProperties
    <3> HIDE DEF y
    <3>3. y # <<>>
      BY <3>1, <3>2
    <3>4. Tail(y) \in Seq(Queued) /\ Len(Tail(y)) = Len(y) - 1
          /\ \A i \in 1 .. Len(Tail(y)) : Tail(y)[i] = y[i + 1]
      BY <3>2, <3>3, HeadTailProperties
    <3>5. ASSUME NEW i \in 1 .. Len(Tail(y)) PROVE Tail(y)[i] = x[i]
      <4>1. i + 1 \in 1 .. 1 + Len(x) /\ ~(i + 1 <= 1) /\ (i + 1) - 1 = i
        BY <3>1, <3>2, <3>4
      <4> QED BY <3>2, <3>4, <4>1
    <3>6. Len(Tail(y)) = Len(x)
      BY <3>1, <3>2, <3>4
    <3>7. Tail(y) = x
      BY <3>1, <3>4, <3>5, <3>6, SeqEqual
    <3> QED BY <3>7 DEF y, x
  <2> QED BY <2>1, <2>2, <2>4, <2>6
<1>11. Of(f, u \o t) = Own(f, h) \o Of(f, w \o t)
  BY <1>10, OfIs
<1>12. Own(f, h) \in Seq(Commands) /\ Of(f, w) \in Seq(Commands) /\ Of(f, t) \in Seq(Commands)
  BY <1>6, OwnIs, OfIs
<1>13. Own(f, h) \o (Of(f, w) \o Of(f, t)) = (Own(f, h) \o Of(f, w)) \o Of(f, t)
  <2> HIDE DEF h, w, S, T, rank
  <2>1. \A x, y, z \in Seq(Commands) : (x \o y) \o z = x \o (y \o z)
    BY Regroup
  <2> QED BY <1>12, <2>1
<1> QED BY <1>4, <1>8, <1>9, <1>11, <1>13

LEMMA OfOne == ASSUME NEW f, NEW c \in Queued PROVE Of(f, <<c>>) = Own(f, c)
<1>1. <<c>> \in Seq(Queued) /\ <<c>> # <<>> /\ Head(<<c>>) = c /\ Tail(<<c>>) = <<>>
  OBVIOUS
<1>2. Of(f, <<c>>) = Own(f, c) \o <<>>
  BY <1>1, OfIs
<1> QED BY <1>2, OwnIs, ConcatEmptySeq

LEMMA OfAppend ==
  ASSUME NEW f, NEW s \in Seq(Queued), NEW c \in Queued
  PROVE  Of(f, Append(s, c)) = Of(f, s) \o Own(f, c)
<1>1. <<c>> \in Seq(Queued) /\ Append(s, c) = s \o <<c>>
  BY AppendIsConcat
<1> QED BY <1>1, OfConcat, OfOne
----------------------------------------------------------------------------
\* One pipe: what its reader has found, has in its buffer and has still to read.
Yield(s, r) == Gives(s.line) \o Accepted((s.buf \o s.in) \o r, s.drop)

Clean(s, T) ==
  /\ Fits(s) /\ s.in \in Seq(T) /\ s.buf \in Seq(T) /\ s.line \in Seq(T)
  /\ Len(s.line) <= MaxSize - 2
  /\ ~s.found => s.line = <<>>

LEMMA GetDataYields ==
  ASSUME NEW s, NEW T, Clean(s, T), NEW r \in Texts
  PROVE  Clean(GetData(s), T) /\ Yield(GetData(s), r) = Yield(s, r)
<1>0. /\ s \in Lines /\ Len(s.buf) < MaxSize /\ Len(s.buf) \in Nat /\ s.buf \in Texts /\ s.in \in Texts
      /\ Len(s.in) \in Nat /\ s.in \in Seq(T) /\ s.buf \in Seq(T) /\ s.line \in Seq(T)
      /\ (~s.found => s.line = <<>>) /\ Len(s.line) <= MaxSize - 2
  BY DEF Clean, Fits, Lines, Texts
<1>g. \A x, y, z \in Texts : (x \o y) \o z = x \o (y \o z)
  BY Regroup DEF Texts
<1>f. Fits(GetData(s))
  BY GetDataFits DEF Clean
<1>1. CASE s.got_cmd \/ s.eof \/ Full(s.buf)
  BY <1>1 DEF GetData
<1>2. CASE ~(s.got_cmd \/ s.eof \/ Full(s.buf)) /\ s.in = <<>>
  <2> DEFINE q == [s EXCEPT !.eof = TRUE]
  <2>1. GetData(s) = q
    BY <1>2 DEF GetData
  <2>2. q.in = s.in /\ q.buf = s.buf /\ q.line = s.line /\ q.found = s.found /\ q.drop = s.drop
    BY <1>0 DEF Lines
  <2> HIDE DEF q
  <2> QED BY <1>0, <1>f, <2>1, <2>2 DEF Clean, Yield
<1>3. CASE ~(s.got_cmd \/ s.eof \/ Full(s.buf)) /\ s.in # <<>>
  <2> DEFINE n == Least(Len(s.in), MaxSize - 1 - Len(s.buf))
             a == SubSeq(s.in, 1, n)
             t == SubSeq(s.in, n + 1, Len(s.in))
             b == s.buf \o a
             q == [s EXCEPT !.buf = b, !.in = t]
  <2>1. GetData(s) = q
    BY <1>0, <1>3 DEF GetData, Lines
  <2>2. n \in 0 .. Len(s.in)
    <3>1. Len(s.in) \in Nat /\ MaxSize - 1 - Len(s.buf) \in Nat
      BY <1>0, <1>3, Sizes DEF Full, Texts
    <3> QED BY <3>1 DEF Least
  <2> HIDE DEF n
  <2>3. a \in Seq(T) /\ t \in Seq(T) /\ a \in Texts /\ t \in Texts
    <3>1. a \in Seq(T) /\ t \in Seq(T)
      BY <1>0, <2>2
    <3>2. a \in Seq(STRING) /\ t \in Seq(STRING)
      BY <1>0, <2>2 DEF Texts
    <3> QED BY <3>1, <3>2 DEF Texts
  <2>4. a \o t = s.in
    <3>1. SubSeq(s.in, 1, n) \o SubSeq(s.in, n + 1, Len(s.in)) = SubSeq(s.in, 1, Len(s.in))
      <4> DEFINE one == 1
                 l == Len(s.in)
      <4>1. one \in 1 .. Len(s.in) + 1 /\ n \in one - 1 .. Len(s.in) /\ l \in n .. Len(s.in)
        BY <1>0, <2>2
      <4> HIDE DEF one, l
      <4>2. SubSeq(s.in, one, n) \o SubSeq(s.in, n + 1, l) = SubSeq(s.in, one, l)
        BY <1>0, <4>1, ConcatAdjacentSubSeq
      <4> QED BY <4>2 DEF one, l
    <3>2. SubSeq(s.in, 1, Len(s.in)) = s.in
      BY <1>0, SubSeqFull
    <3> QED BY <3>1, <3>2
  <2> HIDE DEF a, t
  <2>5. b \in Seq(T) /\ b \o t = s.buf \o s.in
    <3>1. b \in Seq(T)
      BY <1>0, <2>3, ConcatProperties
    <3>2. (s.buf \o a) \o t = s.buf \o (a \o t)
      BY <1>0, <1>g, <2>3
    <3> QED BY <2>4, <3>1, <3>2
  <2> HIDE DEF b
  <2>6. q.in = t /\ q.buf = b /\ q.line = s.line /\ q.found = s.found /\ q.drop = s.drop
    BY <1>0 DEF Lines
  <2> HIDE DEF q
  <2> QED BY <1>0, <1>f, <2>1, <2>3, <2>5, <2>6 DEF Clean, Yield
<1> QED BY <1>1, <1>2, <1>3

LEMMA FindYields ==
  ASSUME NEW s, NEW T, Clean(s, T), NEW r \in Texts
  PROVE  Clean(Find(s), T) /\ Yield(Find(s), r) = Yield(s, r)
<1> DEFINE e == LineEnd(s.buf)
           rest == s.in \o r
<1>0. /\ s \in Lines /\ Len(s.buf) < MaxSize /\ Len(s.buf) \in Nat /\ s.buf \in Texts /\ s.in \in Texts
      /\ s.in \in Seq(T) /\ s.buf \in Seq(T) /\ s.line \in Seq(T) /\ s.drop \in BOOLEAN /\ s.found \in BOOLEAN
      /\ (~s.found => s.line = <<>>) /\ Len(s.line) <= MaxSize - 2
      /\ e \in 0 .. Len(s.buf) /\ <<>> \in Seq(T) /\ <<>> \in Texts /\ rest \in Texts
  BY LineEndFirst, ConcatProperties DEF Clean, Fits, Lines, Texts
<1>f. Fits(Find(s))
  BY FindFits DEF Clean
<1>g. \A x, y, z \in Texts : (x \o y) \o z = x \o (y \o z)
  BY Regroup DEF Texts
<1>s. (s.buf \o s.in) \o r = s.buf \o rest
  BY <1>0, <1>g
<1>1. CASE e = 0 /\ Full(s.buf)
  <2> DEFINE q == [s EXCEPT !.buf = <<>>, !.drop = TRUE]
  <2>1. Find(s) = q
    BY <1>1 DEF Find
  <2>2. q.in = s.in /\ q.buf = <<>> /\ q.line = s.line /\ q.found = s.found /\ q.drop = TRUE
    BY <1>0 DEF Lines
  <2>3. <<>> \o s.in = s.in
    BY <1>0, ConcatEmptySeq
  <2>4. Accepted(s.buf \o rest, s.drop) = Accepted(rest, TRUE)
    BY <1>0, <1>1, AcceptedDrop
  <2> HIDE DEF q, e, rest
  <2>5. Yield(q, r) = Yield(s, r)
    BY <1>s, <2>2, <2>3, <2>4 DEF Yield, rest
  <2> QED BY <1>0, <1>f, <2>1, <2>2, <2>5 DEF Clean
<1>2. CASE e = 0 /\ ~Full(s.buf)
  BY <1>2 DEF Find
<1>3. CASE e # 0 /\ s.found
  <2> DEFINE q == [s EXCEPT !.got_cmd = TRUE]
  <2>1. Find(s) = q
    BY <1>3 DEF Find
  <2>2. q.in = s.in /\ q.buf = s.buf /\ q.line = s.line /\ q.found = s.found /\ q.drop = s.drop
    BY <1>0 DEF Lines
  <2> HIDE DEF q, e, rest
  <2> QED BY <1>0, <1>f, <2>1, <2>2 DEF Clean, Yield
<1>4. CASE e # 0 /\ ~s.found
  <2> DEFINE b == SubSeq(s.buf, e + 1, Len(s.buf))
             a == SubSeq(s.buf, 1, e - 1)
             l == IF s.drop THEN <<>> ELSE a
             d == ~s.drop
             q == [s EXCEPT !.buf = b, !.drop = FALSE, !.found = d, !.line = l]
  <2>1. Find(s) = q
    BY <1>0, <1>4 DEF Find, Lines
  <2>2. b \in Seq(T) /\ b \in Texts /\ a \in Seq(T) /\ a \in Texts
    <3> HIDE DEF e
    <3>1. b \in Seq(T) /\ a \in Seq(T)
      BY <1>0, <1>4
    <3>2. b \in Seq(STRING) /\ a \in Seq(STRING)
      BY <1>0, <1>4 DEF Texts
    <3> QED BY <3>1, <3>2 DEF Texts
  <2>3. Accepted(s.buf \o rest, s.drop) = (IF s.drop THEN <<>> ELSE Gives(a)) \o Accepted(b \o rest, FALSE)
    <3> HIDE DEF rest
    <3>1. Accepted(s.buf \o rest, s.drop) =
            (IF s.drop THEN <<>> ELSE Gives(SubSeq(s.buf, 1, LineEnd(s.buf) - 1)))
              \o Accepted(SubSeq(s.buf, LineEnd(s.buf) + 1, Len(s.buf)) \o rest, FALSE)
      <4>1. s.buf \in Texts /\ Len(s.buf) < MaxSize /\ LineEnd(s.buf) # 0 /\ rest \in Texts
        BY <1>0, <1>4
      <4> QED BY <4>1, AcceptedLine
    <3> QED BY <3>1
  <2> HIDE DEF a, b, e, rest
  <2>a. Len(a) <= MaxSize - 2
    <3>1. Len(a) = e - 1
      BY <1>0, <1>4 DEF a, Texts
    <3> QED BY <1>0, <1>4, <3>1, Sizes
  <2>4. l \in Seq(T) /\ (~d => l = <<>>) /\ d \in BOOLEAN /\ Len(l) <= MaxSize - 2
    <3>1. Len(<<>>) <= MaxSize - 2
      BY Sizes
    <3> QED BY <1>0, <2>2, <2>a, <3>1
  <2>5. Gives(l) = IF s.drop THEN <<>> ELSE Gives(a)
    BY GivesNothing
  <2> HIDE DEF l, d
  <2>6. q.in = s.in /\ q.buf = b /\ q.line = l /\ q.found = d /\ q.drop = FALSE
    BY <1>0 DEF Lines
  <2> HIDE DEF q
  <2>7. (b \o s.in) \o r = b \o rest
    <3>1. (b \o s.in) \o r = b \o (s.in \o r)
      <4>1. b \in Texts /\ s.in \in Texts /\ r \in Texts
        BY <1>0, <2>2
      <4> QED BY <1>g, <4>1
    <3> QED BY <3>1 DEF rest
  <2>8. Yield(q, r) = Gives(l) \o Accepted(b \o rest, FALSE)
    BY <2>6, <2>7 DEF Yield
  <2>9. Yield(s, r) = <<>> \o Accepted(s.buf \o rest, s.drop)
    BY <1>0, <1>4, <1>s, GivesNothing DEF Yield
  <2>10. Accepted(s.buf \o rest, s.drop) \in Seq(Commands)
    <3>1. s.buf \o rest \in Texts
      BY <1>0, ConcatProperties DEF Texts
    <3> QED BY <3>1, AcceptedIs
  <2>11. Yield(s, r) = Accepted(s.buf \o rest, s.drop)
    BY <2>9, <2>10, ConcatEmptySeq
  <2> QED BY <1>0, <1>f, <2>1, <2>2, <2>3, <2>4, <2>5, <2>6, <2>8, <2>11 DEF Clean
<1> QED BY <1>0, <1>1, <1>2, <1>3, <1>4

\* A call of mp_input_read_cmd gives one command or none, and leaves the rest of
\* what is written to be read.
LEMMA ReadCmdYields ==
  ASSUME NEW s, NEW T, Clean(s, T), NEW r \in Texts, NEW q \in read_cmd(s)
  PROVE  Clean(q, T) /\ Yield(q, r) = Yield(s, r)
<1> DEFINE c == GetData(s)
           g == [c EXCEPT !.got_cmd = FALSE]
<1>1. Clean(c, T) /\ Yield(c, r) = Yield(s, r)
  BY GetDataYields
<1> HIDE DEF c
<1>2. Clean(g, T) /\ Yield(g, r) = Yield(c, r)
  <2>1. c \in Lines
    BY <1>1 DEF Clean, Fits
  <2>2. g \in Lines /\ g.in = c.in /\ g.buf = c.buf /\ g.line = c.line /\ g.found = c.found /\ g.drop = c.drop
    BY <2>1 DEF Lines
  <2> HIDE DEF g
  <2> QED BY <1>1, <2>2 DEF Clean, Fits, Yield
<1> HIDE DEF g
<1>3. q = Find(Find(Find(g)))
  BY DEF read_cmd, Turn, g, c
<1>4. Clean(Find(g), T) /\ Yield(Find(g), r) = Yield(g, r)
  BY <1>2, FindYields
<1>5. Clean(Find(Find(g)), T) /\ Yield(Find(Find(g)), r) = Yield(Find(g), r)
  BY <1>4, FindYields
<1>6. Clean(Find(Find(Find(g))), T) /\ Yield(Find(Find(Find(g))), r) = Yield(Find(Find(g)), r)
  BY <1>5, FindYields
<1> QED BY <1>1, <1>2, <1>3, <1>4, <1>5, <1>6
----------------------------------------------------------------------------
\* What is on its way, from which pipe, and what may be in the queue.
Kept == (Commands \ Grabbed) \union KeyCmds \union {AsyncQuit}

Sources ==
  \A f \in FdSet : /\ pipe[f] \in Seq(ToSet(Script[f])) /\ buf[f] \in Seq(ToSet(Script[f]))
                  /\ unsent[f] \in Seq(ToSet(Script[f]))
QueueKept == cmd_queue \in Seq(Kept)

LinesInv == CommandInv /\ Sources /\ QueueKept /\ LinesKept

ToCome(f)    == Accepted((buf[f] \o pipe[f]) \o unsent[f], drop[f])
ToComeOf(i, f) == Accepted((i.buf[f] \o i.pipe[f]) \o unsent[f], i.drop[f])
Passed(f, c)    == IF c \in Grabbed THEN <<>> ELSE Own(f, c)

LEMMA NotOwn ==
  ASSUME NEW f \in FdSet
  PROVE  /\ Own(f, NoCmd) = <<>> /\ Own(f, AsyncQuit) = <<>>
         /\ \A c \in KeyCmds : Own(f, c) = <<>>
         /\ \A g \in FdSet : \A c \in ToSet(Script[g]) \cap Commands : f # g => Own(f, c) = <<>>
<1>1. \A c \in KeyCmds : c \notin ToSet(Script[f])
  BY CommandAssumption, Zenon DEF CommandAssumption
<1>2. \A g \in FdSet : \A c \in ToSet(Script[g]) \cap Commands : f # g => c \notin ToSet(Script[f])
  BY CommandAssumption, Zenon DEF CommandAssumption
<1> QED BY <1>1, <1>2, NamesDiffer DEF Own

LEMMA ToComeIs == ASSUME CommandInv, NEW f \in FdSet PROVE ToCome(f) \in Seq(Commands)
<1>1. buf[f] \in Texts /\ pipe[f] \in Texts /\ unsent[f] \in Texts
  BY DEF CommandInv, Values
<1>2. (buf[f] \o pipe[f]) \o unsent[f] \in Texts
  BY <1>1, ConcatProperties DEF Texts
<1> QED BY <1>2, AcceptedIs DEF ToCome

LEMMA FdIsClean ==
  ASSUME CommandInv, Sources, NEW f \in FdSet
  PROVE  Clean(Fd(f), ToSet(Script[f])) /\ Yield(Fd(f), unsent[f]) = ToCome(f)
<1>1. Fits(Fd(f))
  BY NowIs DEF CommandInv
<1>2. /\ Fd(f).in = pipe[f] /\ Fd(f).buf = buf[f] /\ Fd(f).line = <<>> /\ Fd(f).drop = drop[f]
      /\ <<>> \in Seq(ToSet(Script[f])) /\ Len(<<>>) = 0
  BY DEF Fd
<1>3. Clean(Fd(f), ToSet(Script[f]))
  BY <1>1, <1>2, Sizes DEF Clean, Sources
<1>4. Yield(Fd(f), unsent[f]) = <<>> \o ToCome(f)
  BY <1>2, GivesNothing DEF Yield, ToCome
<1>5. ToCome(f) \in Seq(Commands)
  BY ToComeIs
<1> QED BY <1>3, <1>4, <1>5, ConcatEmptySeq

LEMMA ReadFdYields ==
  ASSUME CommandInv, Sources, NEW f \in FdSet, NEW anyGot, NEW q \in ReadFd(f, anyGot)
  PROVE  Clean(q, ToSet(Script[f])) /\ Yield(q, unsent[f]) = ToCome(f)
<1>1. Clean(Fd(f), ToSet(Script[f])) /\ Yield(Fd(f), unsent[f]) = ToCome(f)
  BY FdIsClean
<1>2. unsent[f] \in Texts
  BY DEF CommandInv, Values
<1> QED BY <1>1, <1>2, ReadCmdYields DEF ReadFd

LEMMA ReadPipesYields ==
  ASSUME CommandInv, Sources, NEW after \in Reads, NEW f \in FdSet
  PROVE  /\ ReadPipes(after).buf[f] \in Seq(ToSet(Script[f]))
         /\ ReadPipes(after).pipe[f] \in Seq(ToSet(Script[f]))
         /\ ToCome(f) = Passed(f, ReadPipes(after).ret) \o ToComeOf(ReadPipes(after), f)
<1> DEFINE cmd(n) == parse_cmd(after[Fds[n]].line)
           found  == {n \in 1 .. Len(Fds) : Fds[n] \in Open /\ cmd(n) # NoCmd}
           last   == IF found = {} THEN Len(Fds) ELSE Min(found)
           fd(g)  == IF g \in Open /\ \E n \in 1 .. last : Fds[n] = g THEN after[g] ELSE Fd(g)
           ret    == IF found = {} THEN NoCmd ELSE cmd(last)
           i      == ReadPipes(after)
<1>1. \A g \in FdSet : Clean(after[g], ToSet(Script[g])) /\ Yield(after[g], unsent[g]) = ToCome(g)
  <2> SUFFICES ASSUME NEW g \in FdSet
               PROVE  Clean(after[g], ToSet(Script[g])) /\ Yield(after[g], unsent[g]) = ToCome(g)
    OBVIOUS
  <2>1. PICK any : after[g] \in ReadFd(g, any)
    BY DEF Reads
  <2> QED BY <2>1, ReadFdYields
<1>2. Fds \in Seq(FdSet) /\ Len(Fds) \in Nat /\ \A n \in 1 .. Len(Fds) : Fds[n] \in FdSet
  BY CommandAssumption DEF CommandAssumption
<1>3. i.buf[f] = fd(f).buf /\ i.pipe[f] = fd(f).in /\ i.drop[f] = fd(f).drop /\ i.ret = ret
  BY DEF ReadPipes
<1>4. found # {} => last \in found /\ \A n \in found : last <= n
  <2>1. SUFFICES ASSUME found # {} PROVE Min(found) \in found /\ \A n \in found : Min(found) <= n
    OBVIOUS
  <2>2. found \in SUBSET Nat
    OBVIOUS
  <2> HIDE DEF found
  <2>3. PICK x \in found : \A y \in found : x <= y
    BY <2>1, <2>2, LeastNatural
  <2> QED BY <2>3, Zenon DEF Min
<1>5. \A n \in 1 .. Len(Fds) : n \in found <=> Fds[n] \in Open /\ cmd(n) # NoCmd
  OBVIOUS
<1>6. found \subseteq 1 .. Len(Fds)
  OBVIOUS
<1>7. last \in 0 .. Len(Fds)
  BY <1>2, <1>4, <1>6
<1> HIDE DEF found, i, last
\* The command that is given comes from the pipe it was found in.
<1>8. \A g \in FdSet : parse_cmd(after[g].line) # NoCmd =>
        /\ parse_cmd(after[g].line) \in ToSet(Script[g]) \cap Commands
        /\ Gives(after[g].line) = Passed(g, parse_cmd(after[g].line))
  <2> SUFFICES ASSUME NEW g \in FdSet, parse_cmd(after[g].line) # NoCmd
               PROVE  /\ parse_cmd(after[g].line) \in ToSet(Script[g]) \cap Commands
                      /\ Gives(after[g].line) = Passed(g, parse_cmd(after[g].line))
    OBVIOUS
  <2>1. /\ after[g].line \in Seq(ToSet(Script[g])) /\ Len(after[g].line) <= MaxSize - 2
        /\ Len(after[g].line) \in Nat
    BY <1>1 DEF Clean
  <2>2. after[g].line # <<>> /\ parse_cmd(after[g].line) = Head(after[g].line)
        /\ parse_cmd(after[g].line) \in Commands
    BY DEF parse_cmd
  <2>3. Head(after[g].line) \in ToSet(Script[g])
    BY <2>1, <2>2, HeadTailProperties
  <2>4. ~(Len(after[g].line) > MaxSize - 2)
    BY <2>1, Sizes
  <2> QED BY <2>2, <2>3, <2>4 DEF Gives, Passed, Own
<1>9. ToCome(f) \in Seq(Commands)
  BY ToComeIs
<1>10. found # {} => Fds[last] \in FdSet /\ Fds[last] \in Open /\ last \in 1 .. last
                    /\ ret = parse_cmd(after[Fds[last]].line) /\ ret # NoCmd
  BY <1>2, <1>4, <1>5, <1>6, <1>7
<1>11. found = {} \/ Fds[last] # f => Passed(f, ret) = <<>>
  BY <1>8, <1>10, NotOwn DEF Passed
<1>12. CASE ~(f \in Open /\ \E n \in 1 .. last : Fds[n] = f)
  <2>1. fd(f) = Fd(f)
    BY <1>12
  <2>2. i.buf[f] = buf[f] /\ i.pipe[f] = pipe[f] /\ i.drop[f] = drop[f]
    BY <1>3, <2>1 DEF Fd
  <2>3. Passed(f, ret) = <<>>
    BY <1>10, <1>11, <1>12
  <2> HIDE DEF ret, fd
  <2>4. Passed(f, i.ret) \o ToComeOf(i, f) = ToCome(f)
    BY <1>3, <1>9, <2>2, <2>3, ConcatEmptySeq DEF ToComeOf, ToCome
  <2> QED BY <2>2, <2>4 DEF i, Sources
<1>13. CASE f \in Open /\ \E n \in 1 .. last : Fds[n] = f
  <2>1. fd(f) = after[f]
    BY <1>13
  <2>2. PICK n \in 1 .. last : Fds[n] = f
    BY <1>13
  <2>3. n \in 1 .. Len(Fds) /\ n <= last /\ n \in Nat /\ last \in Nat
    BY <1>2, <1>7, <2>2
  <2>4. n \notin found => Gives(after[f].line) = <<>>
    BY <1>5, <1>13, <2>2, <2>3 DEF Gives
  <2>5. Gives(after[f].line) = Passed(f, ret)
    <3>1. CASE found = {} \/ Fds[last] # f
      <4>1. n \notin found
        BY <1>4, <2>2, <2>3, <3>1
      <4> QED BY <1>11, <2>4, <3>1, <4>1
    <3>2. CASE found # {} /\ Fds[last] = f
      BY <1>8, <1>10, <3>2
    <3> QED BY <3>1, <3>2
  <2> HIDE DEF ret, fd
  <2>6. ToCome(f) = Passed(f, i.ret) \o ToComeOf(i, f)
    BY <1>1, <1>3, <2>1, <2>5 DEF Yield, ToComeOf
  <2>7. i.buf[f] \in Seq(ToSet(Script[f])) /\ i.pipe[f] \in Seq(ToSet(Script[f]))
    BY <1>1, <1>3, <2>1 DEF Clean
  <2> QED BY <2>6, <2>7 DEF i
<1> QED BY <1>12, <1>13

LEMMA ReadEventsYields ==
  ASSUME CommandInv, Sources, NEW i \in read_events, NEW f \in FdSet
  PROVE  /\ i.buf[f] \in Seq(ToSet(Script[f])) /\ i.pipe[f] \in Seq(ToSet(Script[f]))
         /\ ToCome(f) = Passed(f, i.ret) \o ToComeOf(i, f)
<1>1. CASE i \in {ReadPipes(after) : after \in Reads}
  BY <1>1, ReadPipesYields
<1>2. CASE i \in {[Now EXCEPT !.cmd_fds = Open, !.ret = key, !.keys = @ + 1] : key \in KeyCmds}
  <2>1. PICK key \in KeyCmds : i = [Now EXCEPT !.cmd_fds = Open, !.ret = key, !.keys = @ + 1]
    BY <1>2
  <2>2. i.buf = buf /\ i.pipe = pipe /\ i.drop = drop /\ i.ret = key
    BY <2>1 DEF Now
  <2>3. Passed(f, key) = <<>>
    BY NotOwn DEF Passed
  <2>4. ToComeOf(i, f) = ToCome(f)
    BY <2>2 DEF ToComeOf, ToCome
  <2> QED BY <2>2, <2>3, <2>4, ToComeIs, ConcatEmptySeq DEF Sources
<1> QED BY <1>1, <1>2 DEF read_events

\* Filters and the queue leave the pipes alone.
Same(i, j) == i.buf = j.buf /\ i.pipe = j.pipe /\ i.drop = j.drop

LEMMA FilteredSame ==
  ASSUME NEW i \in Outcomes, NEW peek, NEW fromQueue
  PROVE  /\ Same(Filtered(i, peek, fromQueue), i)
         /\ i.ret \in Grabbed =>
              /\ Filtered(i, peek, fromQueue).ret = NoCmd
              /\ Filtered(i, peek, fromQueue).queue = IF peek /\ fromQueue THEN Tail(i.queue) ELSE i.queue
         /\ i.ret \notin Grabbed => Filtered(i, peek, fromQueue) = i
<1>1. CASE i.ret \notin Grabbed
  BY <1>1 DEF Filtered, Same
<1>2. CASE i.ret \in Grabbed
  <2> DEFINE q == IF peek /\ fromQueue THEN Tail(i.queue) ELSE i.queue
             r == [i EXCEPT !.ret = NoCmd, !.queue = q]
  <2>1. Filtered(i, peek, fromQueue) = r
    BY <1>2 DEF Filtered, Outcomes
  <2> HIDE DEF q
  <2>2. Same(r, i) /\ r.ret = NoCmd /\ r.queue = q
    BY DEF Outcomes, Same
  <2> HIDE DEF r
  <2> QED BY <1>2, <2>1, <2>2 DEF q
<1> QED BY <1>1, <1>2

LEMMA EnqueueSame ==
  ASSUME NEW i \in Outcomes
  PROVE  /\ Same(Enqueue(i), i)
         /\ i.ret = NoCmd => Enqueue(i) = i
         /\ i.ret # NoCmd => Enqueue(i).queue = queue_cmd(i.queue, i.ret)
<1>1. CASE i.ret = NoCmd
  BY <1>1 DEF Enqueue, Same
<1>2. CASE i.ret # NoCmd
  <2> DEFINE q == queue_cmd(i.queue, i.ret)
             a == IF Len(i.queue) >= QueueSize THEN NoCmd ELSE i.ret
             r == [i EXCEPT !.queue = q, !.ret = a]
  <2>1. Enqueue(i) = r
    BY <1>2 DEF Enqueue, Outcomes
  <2> HIDE DEF q, a
  <2>2. Same(r, i) /\ r.queue = q
    BY DEF Outcomes, Same
  <2> HIDE DEF r
  <2> QED BY <1>2, <2>1, <2>2 DEF q
<1> QED BY <1>1, <1>2

LEMMA KeptIs == Kept \subseteq Queued /\ AsyncQuit \in Kept /\ NoCmd \notin Kept
                /\ KeyCmds \subseteq Kept /\ Commands \ Grabbed \subseteq Kept
                /\ \A c \in Kept \cap Grabbed : c \in KeyCmds
  BY NamesDiffer DEF Kept, Queued

LEMMA QueueCmdKept ==
  ASSUME NEW q \in Seq(Kept), NEW c \in Kept
  PROVE  queue_cmd(q, c) \in Seq(Kept)
  BY DEF queue_cmd

LEMMA QueueCmdOf ==
  ASSUME NEW f, NEW q \in Seq(Kept), NEW c \in Kept, Own(f, c) = <<>>
  PROVE  Of(f, queue_cmd(q, c)) = Of(f, q)
<1>1. q \in Seq(Queued) /\ c \in Queued
  BY KeptIs
<1>2. Of(f, Append(q, c)) = Of(f, q) \o <<>> /\ Of(f, q) \in Seq(Commands)
  BY <1>1, OfAppend, OfIs
<1> QED BY <1>2, ConcatEmptySeq DEF queue_cmd

LEMMA GetCmdKept ==
  ASSUME CommandInv, QueueKept, NEW peek \in BOOLEAN, NEW i \in get_cmd(peek)
  PROVE  i.queue \in Seq(Kept)
<1>0. /\ Now \in Outcomes /\ Now.queue = cmd_queue /\ cmd_queue \in Seq(Kept) /\ Len(cmd_queue) <= QueueSize
      /\ async_quit_request \in BOOLEAN
  BY NowIs DEF CommandInv, Kinds, Sound, QueueKept
<1>3. CASE async_quit_request
  <2> DEFINE quit == [Now EXCEPT !.ret = AsyncQuit]
  <2>1. i = IF peek THEN Enqueue(quit) ELSE quit
    BY <1>3 DEF get_cmd
  <2>2. quit \in Outcomes /\ quit.queue = cmd_queue /\ quit.ret = AsyncQuit
    BY <1>0 DEF Outcomes, Answers
  <2> HIDE DEF quit
  <2>3. peek => i.queue = queue_cmd(cmd_queue, AsyncQuit)
    BY <2>1, <2>2, EnqueueSame, NamesDiffer
  <2> QED BY <1>0, <2>1, <2>2, <2>3, KeptIs, QueueCmdKept
<1>4. CASE ~async_quit_request /\ cmd_queue # <<>>
  <2> DEFINE q == IF peek THEN cmd_queue ELSE Tail(cmd_queue)
             r == [Now EXCEPT !.ret = Head(cmd_queue), !.queue = q]
  <2>1. i = Filtered(r, peek, TRUE)
    BY <1>0, <1>4 DEF get_cmd, Outcomes
  <2>2. /\ Head(cmd_queue) \in Kept /\ Tail(cmd_queue) \in Seq(Kept) /\ q \in Seq(Kept)
        /\ peek => q # <<>>
    BY <1>0, <1>4
  <2>a. Head(cmd_queue) \in Queued /\ q \in Seq(Queued)
    BY <2>2, KeptIs
  <2> HIDE DEF q
  <2>3. r \in Outcomes /\ r.queue = q
    BY <1>0, <2>a DEF Outcomes, Answers, Queued
  <2> HIDE DEF r
  <2>4. i.queue = r.queue \/ (peek /\ i.queue = Tail(r.queue))
    BY <2>1, <2>3, FilteredSame
  <2>5. q # <<>> => Tail(q) \in Seq(Kept)
    BY <2>2
  <2> QED BY <2>2, <2>3, <2>4, <2>5
<1>5. CASE ~async_quit_request /\ cmd_queue = <<>>
  <2>1. PICK e \in read_events :
          i = LET j == Filtered(e, peek, FALSE) IN IF peek THEN Enqueue(j) ELSE j
    BY <1>5 DEF get_cmd
  <2> DEFINE j == Filtered(e, peek, FALSE)
  <2>2. Sound(e) /\ e \in Outcomes /\ e.queue = cmd_queue /\ e.ret \in Commands \union {NoCmd}
    BY ReadEventsIs DEF CommandInv, Sound
  <2>3. j \in Outcomes /\ j.queue = cmd_queue
    BY <2>2, FilteredIs DEF Sound
  <2>4. j.ret # NoCmd => j.ret \in Kept
    BY <2>2, FilteredIs, KeptIs
  <2> HIDE DEF j
  <2>5. i = IF peek THEN Enqueue(j) ELSE j
    BY <2>1 DEF j
  <2> QED BY <1>0, <2>3, <2>4, <2>5, EnqueueSame, QueueCmdKept
<1> QED BY <1>0, <1>3, <1>4, <1>5

\* What a call of mp_input_get_cmd hands out, keeps in the queue and leaves to be
\* read is, for every pipe, what was in the queue and to be read.
Handed(peek, f, i) == IF peek THEN <<>> ELSE Own(f, i.ret)

LEMMA GetCmdYields ==
  ASSUME CommandInv, Sources, QueueKept, NEW peek \in BOOLEAN, NEW i \in get_cmd(peek), NEW f \in FdSet
  PROVE  /\ i.queue \in Seq(Kept)
         /\ i.buf[f] \in Seq(ToSet(Script[f])) /\ i.pipe[f] \in Seq(ToSet(Script[f]))
         /\ Of(f, cmd_queue) \o ToCome(f) = Handed(peek, f, i) \o (Of(f, i.queue) \o ToComeOf(i, f))
<1>0. /\ Now \in Outcomes /\ Now.queue = cmd_queue /\ Now.buf = buf /\ Now.pipe = pipe /\ Now.drop = drop
      /\ cmd_queue \in Seq(Kept) /\ cmd_queue \in Seq(Queued) /\ Len(cmd_queue) <= QueueSize
      /\ async_quit_request \in BOOLEAN
  BY NowIs DEF CommandInv, Kinds, Sound, Now, QueueKept, Values
<1>1. \A j : Same(j, Now) =>
        /\ j.buf[f] \in Seq(ToSet(Script[f])) /\ j.pipe[f] \in Seq(ToSet(Script[f]))
        /\ ToComeOf(j, f) = ToCome(f)
  BY <1>0 DEF Same, ToComeOf, ToCome, Sources
<1>2. ToCome(f) \in Seq(Commands) /\ Of(f, cmd_queue) \in Seq(Commands)
      /\ Of(f, cmd_queue) \o ToCome(f) \in Seq(Commands)
      /\ \A t \in Seq(Commands) : <<>> \o t = t
  BY <1>0, ToComeIs, OfIs, ConcatProperties, ConcatEmptySeq
<1>3. CASE async_quit_request
  <2> DEFINE quit == [Now EXCEPT !.ret = AsyncQuit]
  <2>1. i = IF peek THEN Enqueue(quit) ELSE quit
    BY <1>3 DEF get_cmd
  <2>2. quit \in Outcomes /\ quit.queue = cmd_queue /\ Same(quit, Now) /\ quit.ret = AsyncQuit
    BY <1>0 DEF Outcomes, Answers, Same
  <2> HIDE DEF quit
  <2>3. Same(i, Now)
    BY <2>1, <2>2, EnqueueSame DEF Same
  <2>4. i.queue \in Seq(Kept) /\ Of(f, i.queue) = Of(f, cmd_queue)
    <3>1. CASE peek
      <4>1. i.queue = queue_cmd(cmd_queue, AsyncQuit)
        BY <2>1, <2>2, <3>1, EnqueueSame, NamesDiffer
      <4> QED BY <1>0, <4>1, KeptIs, NotOwn, QueueCmdKept, QueueCmdOf
    <3>2. CASE ~peek
      BY <1>0, <2>1, <2>2, <3>2
    <3> QED BY <3>1, <3>2
  <2>5. Handed(peek, f, i) = <<>>
    BY <2>1, <2>2, NotOwn DEF Handed
  <2> QED BY <1>1, <1>2, <2>3, <2>4, <2>5
<1>4. CASE ~async_quit_request /\ cmd_queue # <<>>
  <2> DEFINE q == IF peek THEN cmd_queue ELSE Tail(cmd_queue)
             r == [Now EXCEPT !.ret = Head(cmd_queue), !.queue = q]
  <2>1. i = Filtered(r, peek, TRUE)
    BY <1>0, <1>4 DEF get_cmd, Outcomes
  <2>2. /\ Head(cmd_queue) \in Kept /\ Tail(cmd_queue) \in Seq(Kept)
        /\ Head(cmd_queue) \in Queued /\ Tail(cmd_queue) \in Seq(Queued)
        /\ q \in Seq(Kept) /\ q \in Seq(Queued)
    BY <1>0, <1>4
  <2>3. Of(f, cmd_queue) = Own(f, Head(cmd_queue)) \o Of(f, Tail(cmd_queue))
        /\ Of(f, Tail(cmd_queue)) \in Seq(Commands)
    BY <1>0, <1>4, <2>2, OfIs
  <2> HIDE DEF q
  <2>4. r \in Outcomes /\ r.queue = q /\ Same(r, Now) /\ r.ret = Head(cmd_queue)
    BY <1>0, <2>2 DEF Outcomes, Answers, Queued, Same
  <2> HIDE DEF r
  <2>5. Same(i, Now)
    BY <2>1, <2>4, FilteredSame DEF Same
  <2>6. CASE Head(cmd_queue) \in Grabbed
    <3>1. Own(f, Head(cmd_queue)) = <<>>
      BY <2>2, <2>6, KeptIs, NotOwn
    <3>2. i.ret = NoCmd /\ i.queue = Tail(cmd_queue)
      BY <2>1, <2>4, <2>6, FilteredSame DEF q
    <3>3. Handed(peek, f, i) = <<>>
      BY <3>2, NotOwn DEF Handed
    <3>4. Of(f, cmd_queue) = Of(f, i.queue)
      BY <1>2, <2>3, <3>1, <3>2
    <3> QED BY <1>1, <1>2, <2>2, <2>5, <3>2, <3>3, <3>4
  <2>7. CASE Head(cmd_queue) \notin Grabbed
    <3>1. i.ret = Head(cmd_queue) /\ i.queue = q
      BY <2>1, <2>4, <2>7, FilteredSame
    <3>2. CASE peek
      <4>1. Handed(peek, f, i) = <<>> /\ i.queue = cmd_queue
        BY <3>1, <3>2 DEF Handed, q
      <4>2. ToComeOf(i, f) = ToCome(f) /\ i.buf[f] \in Seq(ToSet(Script[f])) /\ i.pipe[f] \in Seq(ToSet(Script[f]))
        BY <1>1, <2>5
      <4>3. Of(f, i.queue) \o ToComeOf(i, f) = Of(f, cmd_queue) \o ToCome(f)
        BY <4>1, <4>2
      <4>4. <<>> \o (Of(f, cmd_queue) \o ToCome(f)) = Of(f, cmd_queue) \o ToCome(f)
        BY <1>2
      <4> QED BY <1>0, <4>1, <4>2, <4>3, <4>4
    <3>3. CASE ~peek
      <4>1. Handed(peek, f, i) = Own(f, Head(cmd_queue)) /\ i.queue = Tail(cmd_queue)
        BY <3>1, <3>3 DEF Handed, q
      <4>2. \A x, y, z \in Seq(Commands) : (x \o y) \o z = x \o (y \o z)
        BY Regroup
      <4>3. Own(f, Head(cmd_queue)) \in Seq(Commands)
        BY OwnIs
      <4>4. (Own(f, Head(cmd_queue)) \o Of(f, Tail(cmd_queue))) \o ToCome(f)
              = Own(f, Head(cmd_queue)) \o (Of(f, Tail(cmd_queue)) \o ToCome(f))
        BY <1>2, <2>3, <4>2, <4>3
      <4>5. ToComeOf(i, f) = ToCome(f) /\ i.buf[f] \in Seq(ToSet(Script[f])) /\ i.pipe[f] \in Seq(ToSet(Script[f]))
        BY <1>1, <2>5
      <4> QED BY <2>2, <2>3, <4>1, <4>4, <4>5
    <3> QED BY <3>2, <3>3
  <2> QED BY <2>6, <2>7
<1>5. CASE ~async_quit_request /\ cmd_queue = <<>>
  <2>1. PICK e \in read_events :
          i = LET j == Filtered(e, peek, FALSE) IN IF peek THEN Enqueue(j) ELSE j
    BY <1>5 DEF get_cmd
  <2> DEFINE j == Filtered(e, peek, FALSE)
  <2>2. e \in Outcomes /\ e.queue = cmd_queue /\ e.ret \in Commands \union {NoCmd}
    BY ReadEventsIs DEF CommandInv, Sound
  <2>3. /\ e.buf[f] \in Seq(ToSet(Script[f])) /\ e.pipe[f] \in Seq(ToSet(Script[f]))
        /\ ToCome(f) = Passed(f, e.ret) \o ToComeOf(e, f)
    BY ReadEventsYields
  <2>4. Same(j, e) /\ j.queue = cmd_queue /\ j \in Outcomes
    <3>1. Sound(e)
      BY ReadEventsIs DEF CommandInv
    <3> QED BY <2>2, <3>1, FilteredSame, FilteredIs DEF Sound
  <2>5. /\ e.ret \in Grabbed => j.ret = NoCmd
        /\ e.ret \notin Grabbed => j.ret = e.ret
    <3>1. e.ret \in Grabbed => Filtered(e, peek, FALSE).ret = NoCmd
      BY <2>2, FilteredSame, Zenon
    <3>2. e.ret \notin Grabbed => Filtered(e, peek, FALSE) = e
      BY DEF Filtered
    <3> QED BY <3>1, <3>2
  <2> HIDE DEF j
  <2>6. i = IF peek THEN Enqueue(j) ELSE j
    BY <2>1 DEF j
  <2>7. Own(f, j.ret) = Passed(f, e.ret) /\ (j.ret # NoCmd => j.ret \in Kept)
    BY <2>2, <2>5, NotOwn, KeptIs DEF Passed
  <2>8. Same(i, e)
    BY <2>4, <2>6, EnqueueSame DEF Same
  <2>9. ToComeOf(i, f) = ToComeOf(e, f) /\ i.buf[f] = e.buf[f] /\ i.pipe[f] = e.pipe[f]
    BY <2>8 DEF Same, ToComeOf
  <2>10. Of(f, cmd_queue) = <<>> /\ Of(f, cmd_queue) \o ToCome(f) = ToCome(f)
    BY <1>2, <1>5, OfIs
  <2>11. ToComeOf(e, f) \in Seq(Commands)
    <3>1. e.buf[f] \in Texts /\ e.pipe[f] \in Texts /\ unsent[f] \in Texts
      BY <2>2 DEF Outcomes, CommandInv, Values
    <3>2. (e.buf[f] \o e.pipe[f]) \o unsent[f] \in Texts
      BY <3>1, ConcatProperties DEF Texts
    <3> QED BY <3>2, AcceptedIs DEF ToComeOf
  <2>12. CASE ~peek
    <3>1. i.queue = cmd_queue /\ Handed(peek, f, i) = Passed(f, e.ret)
      BY <2>4, <2>6, <2>7, <2>12 DEF Handed
    <3> QED BY <1>0, <1>2, <2>3, <2>9, <2>10, <2>11, <3>1
  <2>13. CASE peek
    <3>1. i.queue \in Seq(Kept) /\ Of(f, i.queue) = Passed(f, e.ret)
      <4>1. CASE j.ret = NoCmd
        <5>1. i.queue = cmd_queue /\ Passed(f, e.ret) = <<>>
          BY <2>4, <2>6, <2>7, <2>13, <4>1, EnqueueSame, NotOwn
        <5> QED BY <1>0, <2>10, <5>1
      <4>2. CASE j.ret # NoCmd
        <5>1. i.queue = queue_cmd(<<>>, j.ret) /\ j.ret \in Kept /\ j.ret \in Queued
          BY <1>5, <2>4, <2>6, <2>7, <2>13, <4>2, EnqueueSame, KeptIs
        <5>2. i.queue = <<j.ret>>
          <6>1. <<>> \in Seq(Queued) /\ Len(<<>>) <= QueueSize
            BY Sizes
          <6> QED BY <5>1, <6>1, QueueCmdIs
        <5>3. Of(f, i.queue) = Own(f, j.ret)
          BY <5>1, <5>2, OfOne
        <5>4. <<j.ret>> \in Seq(Kept)
          BY <5>1
        <5> QED BY <2>7, <5>2, <5>3, <5>4
      <4> QED BY <4>1, <4>2
    <3>2. Handed(peek, f, i) = <<>>
      BY <2>13 DEF Handed
    <3> QED BY <1>2, <2>3, <2>9, <2>10, <3>1, <3>2
  <2> QED BY <2>12, <2>13
<1> QED BY <1>0, <1>3, <1>4, <1>5

----------------------------------------------------------------------------
\* The invariant, one lemma for each action.
LEMMA LinesKeptIs ==
  LinesKept <=> \A f \in FdSet : Cmds[Script[f]] = (Of(f, Names(taken)) \o Of(f, cmd_queue)) \o ToCome(f)
  BY DEF LinesKept, ToCome, Accepted

LEMMA NamesAre ==
  ASSUME NEW t \in Seq([cmd : Commands, use : {"run", "free"}])
  PROVE  /\ Names(t) \in Seq(Queued)
         /\ \A c \in Commands, use \in {"run", "free"} :
              Names(Append(t, [cmd |-> c, use |-> use])) = Append(Names(t), c)
<1> DEFINE E == [cmd : Commands, use : {"run", "free"}]
<1>0. \A s \in Seq(E) : \A n \in 1 .. Len(s) : s[n] \in E
  BY ElementOfSeq
<1>9. \A e \in E : e.cmd \in Queued
  BY DEF Queued
<1> HIDE DEF E
<1>1. \A n \in 1 .. Len(t) : t[n] \in E /\ t[n].cmd \in Queued
  BY <1>0, <1>9 DEF E
<1>2. Len(t) \in Nat
  OBVIOUS
<1>3. Names(t) \in Seq(Queued) /\ Len(Names(t)) = Len(t)
  BY <1>1, <1>2 DEF Names
<1>4. ASSUME NEW c \in Commands, NEW use \in {"run", "free"}
      PROVE  Names(Append(t, [cmd |-> c, use |-> use])) = Append(Names(t), c)
  <2> DEFINE x == [cmd |-> c, use |-> use]
             u == Append(t, x)
             a == Names(u)
             b == Append(Names(t), c)
  <2>1. x \in [cmd : Commands, use : {"run", "free"}] /\ x.cmd = c
    OBVIOUS
  <2> HIDE DEF x
  <2>2. /\ u \in Seq([cmd : Commands, use : {"run", "free"}]) /\ Len(u) = Len(t) + 1
        /\ \A n \in 1 .. Len(t) : u[n] = t[n]
        /\ u[Len(t) + 1] = x
    BY <2>1
  <2> HIDE DEF u
  <2>3. c \in Queued
    BY DEF Queued
  <2>4. b \in Seq(Queued) /\ Len(b) = Len(t) + 1 /\ b[Len(t) + 1] = c
        /\ \A n \in 1 .. Len(t) : b[n] = Names(t)[n]
    BY <1>3, <2>3, AppendProperties
  <2>5. \A n \in 1 .. Len(t) : Names(t)[n] = t[n].cmd
    BY DEF Names
  <2> HIDE DEF b
  <2>6. Len(u) \in Nat /\ \A n \in 1 .. Len(u) : u[n].cmd \in Queued
    <3>1. u \in Seq(E)
      BY <2>2 DEF E
    <3> QED BY <1>0, <1>9, <3>1
  <2>7. a \in Seq(Queued) /\ Len(a) = Len(t) + 1 /\ \A n \in 1 .. Len(t) + 1 : a[n] = u[n].cmd
    BY <2>2, <2>6 DEF Names
  <2> HIDE DEF a
  <2>8. ASSUME NEW n \in 1 .. Len(a) PROVE a[n] = b[n]
    <3>1. CASE n = Len(t) + 1
      <4>1. Len(t) + 1 \in 1 .. Len(t) + 1
        BY <1>2
      <4>2. a[Len(t) + 1] = u[Len(t) + 1].cmd
        BY <2>7, <4>1
      <4>3. u[Len(t) + 1].cmd = c /\ b[Len(t) + 1] = c
        <5>1. x.cmd = c
          BY <2>1
        <5>2. u[Len(t) + 1] = x
          BY <2>2, Zenon
        <5>3. b[Len(t) + 1] = c
          BY <2>4
        <5> QED BY <5>1, <5>2, <5>3
      <4>4. a[Len(t) + 1] = b[Len(t) + 1]
        BY <4>2, <4>3
      <4> QED BY <3>1, <4>4
    <3>2. CASE n # Len(t) + 1
      <4>1. n \in 1 .. Len(t) /\ n \in 1 .. Len(t) + 1
        BY <1>2, <2>7, <3>2
      <4>2. a[n] = u[n].cmd /\ u[n] = t[n]
        BY <2>2, <2>7, <4>1
      <4>3. b[n] = Names(t)[n] /\ Names(t)[n] = t[n].cmd
        BY <2>4, <2>5, <4>1
      <4> QED BY <4>2, <4>3
    <3> QED BY <3>1, <3>2
  <2>9. a = b
    BY <2>4, <2>7, <2>8, SeqEqual
  <2> QED BY <2>9 DEF a, b, u, x
<1> QED BY <1>3, <1>4

LEMMA InitLines == ASSUME Init PROVE LinesInv
<1>1. CommandInv
  BY InitCommand
<1>2. \A f \in FdSet : /\ pipe[f] = <<>> /\ buf[f] = <<>> /\ unsent[f] = Script[f] /\ drop[f] = FALSE
                       /\ Script[f] \in Seq(STRING)
  BY CommandAssumption DEF Init, CommandAssumption
<1>3. cmd_queue = <<>> /\ taken = <<>>
  BY DEF Init
<1>4. Sources
  <2> SUFFICES ASSUME NEW f \in FdSet
               PROVE  /\ pipe[f] \in Seq(ToSet(Script[f])) /\ buf[f] \in Seq(ToSet(Script[f]))
                      /\ unsent[f] \in Seq(ToSet(Script[f]))
    BY DEF Sources
  <2>1. <<>> \in Seq(ToSet(Script[f]))
    OBVIOUS
  <2>2. Script[f] \in Seq(ToSet(Script[f]))
    BY <1>2 DEF ToSet
  <2> QED BY <1>2, <2>1, <2>2
<1>5. QueueKept
  BY <1>3 DEF QueueKept
<1>6. LinesKept
  <2> SUFFICES ASSUME NEW f \in FdSet
               PROVE  Cmds[Script[f]] = (Of(f, Names(taken)) \o Of(f, cmd_queue)) \o ToCome(f)
    BY LinesKeptIs
  <2>1. Names(taken) = <<>>
    BY <1>3 DEF Names
  <2>2. Of(f, Names(taken)) = <<>> /\ Of(f, cmd_queue) = <<>>
    BY <1>3, <2>1, OfIs
  <2>3. (buf[f] \o pipe[f]) \o unsent[f] = Script[f]
    <3>1. <<>> \in Seq(STRING) /\ \A t \in Seq(STRING) : <<>> \o t = t
      BY ConcatEmptySeq
    <3> QED BY <1>2, <3>1
  <2>4. ToCome(f) = Cmds[Script[f]]
    BY <1>2, <2>3 DEF ToCome, Accepted
  <2>5. <<>> \in Seq(Commands) /\ \A t \in Seq(Commands) : <<>> \o t = t
    BY ConcatEmptySeq
  <2>6. Cmds[Script[f]] \in Seq(Commands)
    BY <1>2, CmdsIs DEF Texts
  <2> QED BY <2>2, <2>4, <2>5, <2>6
<1> QED BY <1>1, <1>4, <1>5, <1>6 DEF LinesInv

LEMMA WriteLines == ASSUME LinesInv, NEW g \in FdSet, Write(g) PROVE LinesInv'
<1>1. CommandInv' /\ CommandInv
  BY WriteKeeps DEF LinesInv
<1>2. /\ buf' = buf /\ drop' = drop /\ cmd_queue' = cmd_queue /\ taken' = taken /\ unsent[g] # <<>>
      /\ pipe' = [pipe EXCEPT ![g] = Append(@, Head(unsent[g]))]
      /\ unsent' = [unsent EXCEPT ![g] = Tail(@)]
      /\ pipe \in [FdSet -> Texts] /\ unsent \in [FdSet -> Texts] /\ buf \in [FdSet -> Texts]
  BY <1>1 DEF Write, fdState, CommandInv, Values
<1>4. Sources'
  <2> SUFFICES ASSUME NEW f \in FdSet
               PROVE  /\ pipe'[f] \in Seq(ToSet(Script[f])) /\ buf'[f] \in Seq(ToSet(Script[f]))
                      /\ unsent'[f] \in Seq(ToSet(Script[f]))
    BY DEF Sources
  <2>1. pipe[f] \in Seq(ToSet(Script[f])) /\ buf[f] \in Seq(ToSet(Script[f])) /\ unsent[f] \in Seq(ToSet(Script[f]))
    BY DEF LinesInv, Sources
  <2>2. CASE f = g
    BY <1>2, <2>1, <2>2, MoveHead
  <2>3. CASE f # g
    BY <1>2, <2>1, <2>3
  <2> QED BY <2>2, <2>3
<1>7. \A f \in FdSet : ToCome(f)' = ToCome(f)
  <2> SUFFICES ASSUME NEW f \in FdSet PROVE ToCome(f)' = ToCome(f)
    OBVIOUS
  <2>1. CASE f # g
    BY <1>2, <2>1 DEF ToCome
  <2>2. CASE f = g
    <3>1. buf[g] \in Texts /\ pipe[g] \in Texts /\ unsent[g] \in Texts
      BY <1>2
    <3>2. Join(Join(buf[g], Append(pipe[g], Head(unsent[g]))), Tail(unsent[g]))
            = Join(Join(buf[g], pipe[g]), unsent[g])
      BY <1>2, <3>1, HeadMoved DEF Texts
    <3>3. pipe'[g] = Append(pipe[g], Head(unsent[g])) /\ unsent'[g] = Tail(unsent[g]) /\ buf'[g] = buf[g]
      BY <1>2
    <3> QED BY <1>2, <2>2, <3>2, <3>3 DEF ToCome, Join
  <2> QED BY <2>1, <2>2
<1>8. QueueKept'
  BY <1>2 DEF LinesInv, QueueKept
<1>9. LinesKept'
  <2>1. \A f \in FdSet :
          Cmds[Script[f]] = (Of(f, Names(taken')) \o Of(f, cmd_queue')) \o ToCome(f)'
    BY <1>2, <1>7, LinesKeptIs DEF LinesInv
  <2> QED BY <2>1 DEF LinesKept, ToCome, Accepted
<1> QED BY <1>1, <1>4, <1>8, <1>9 DEF LinesInv

LEMMA PostLines == ASSUME LinesInv, NEW c \in KeyCmds, Post(c) PROVE LinesInv'
<1>1. CommandInv'
  BY PostKeeps DEF LinesInv
<1>2. /\ pipe' = pipe /\ unsent' = unsent /\ buf' = buf /\ drop' = drop /\ taken' = taken
      /\ cmd_queue' = queue_cmd(cmd_queue, c)
  BY DEF Post, fdState, writers
<1>3. Sources'
  BY <1>2 DEF LinesInv, Sources
<1>4. QueueKept'
  BY <1>2, KeptIs, QueueCmdKept DEF LinesInv, QueueKept
<1>5. \A f \in FdSet : Of(f, cmd_queue') = Of(f, cmd_queue)
  BY <1>2, KeptIs, NotOwn, QueueCmdOf DEF LinesInv, QueueKept
<1>6. LinesKept'
  BY <1>2, <1>5 DEF LinesInv, LinesKept
<1> QED BY <1>1, <1>3, <1>4, <1>6 DEF LinesInv

LEMMA SignalLines == ASSUME LinesInv, Signal PROVE LinesInv'
<1>1. CommandInv'
  BY SignalKeeps DEF LinesInv
<1>2. UNCHANGED <<pipe, unsent, buf, drop, cmd_queue, taken>>
  BY DEF Signal, fdState, writers
<1>3. Sources' /\ QueueKept'
  BY <1>2 DEF LinesInv, Sources, QueueKept
<1>4. LinesKept'
  BY <1>2 DEF LinesInv, LinesKept
<1> QED BY <1>1, <1>3, <1>4 DEF LinesInv

\* What the input code makes of the pipes and the queue.
LEMMA BecomeLines ==
  ASSUME LinesInv, NEW peek \in BOOLEAN, NEW i \in get_cmd(peek), Become(i), unsent' = unsent
  PROVE  /\ Sources' /\ QueueKept'
         /\ \A f \in FdSet :
              /\ Of(f, cmd_queue) \o ToCome(f) = Handed(peek, f, i) \o (Of(f, cmd_queue') \o ToCome(f)')
              /\ Of(f, cmd_queue') \in Seq(Commands) /\ ToCome(f)' \in Seq(Commands)
<1>1. \A f \in FdSet :
        /\ i.buf[f] \in Seq(ToSet(Script[f])) /\ i.pipe[f] \in Seq(ToSet(Script[f]))
        /\ Of(f, cmd_queue) \o ToCome(f) = Handed(peek, f, i) \o (Of(f, i.queue) \o ToComeOf(i, f))
  BY GetCmdYields DEF LinesInv
<1>2. buf' = i.buf /\ pipe' = i.pipe /\ drop' = i.drop /\ cmd_queue' = i.queue
  BY DEF Become
<1>3. Sources'
  BY <1>1, <1>2 DEF LinesInv, Sources
<1>4. QueueKept'
  BY <1>2, GetCmdKept DEF LinesInv, QueueKept
<1>5. \A f \in FdSet : ToCome(f)' = ToComeOf(i, f)
  BY <1>2 DEF ToCome, ToComeOf
<1>6. Sound(i) /\ unsent \in [FdSet -> Texts]
  BY GetCmdIs DEF LinesInv, CommandInv, Values
<1>7. \A f \in FdSet : Of(f, i.queue) \in Seq(Commands) /\ ToComeOf(i, f) \in Seq(Commands)
  <2> SUFFICES ASSUME NEW f \in FdSet PROVE Of(f, i.queue) \in Seq(Commands) /\ ToComeOf(i, f) \in Seq(Commands)
    OBVIOUS
  <2>1. i.buf[f] \in Texts /\ i.pipe[f] \in Texts /\ unsent[f] \in Texts /\ i.queue \in Seq(Queued)
    BY <1>6 DEF Sound, Outcomes
  <2>2. (i.buf[f] \o i.pipe[f]) \o unsent[f] \in Texts
    BY <2>1, ConcatProperties DEF Texts
  <2> QED BY <2>1, <2>2, OfIs, AcceptedIs DEF ToComeOf
<1> QED BY <1>1, <1>2, <1>3, <1>4, <1>5, <1>7

\* A command that is taken goes to the end of what was taken from its pipe.
LEMMA TakeLines ==
  ASSUME LinesInv, NEW i \in get_cmd(FALSE), Become(i), unsent' = unsent,
         NEW use \in {"run", "free"}, Take(i, use)
  PROVE  Sources' /\ QueueKept' /\ LinesKept'
<1>1. /\ Sources' /\ QueueKept'
      /\ \A f \in FdSet :
           /\ Of(f, cmd_queue) \o ToCome(f) = Handed(FALSE, f, i) \o (Of(f, cmd_queue') \o ToCome(f)')
           /\ Of(f, cmd_queue') \in Seq(Commands) /\ ToCome(f)' \in Seq(Commands)
  BY BecomeLines
<1>2. taken \in Seq([cmd : Commands, use : {"run", "free"}]) /\ cmd_queue \in Seq(Queued)
  BY DEF LinesInv, CommandInv, Kinds, Values
<1>3. i.ret \in Answers
  BY GetCmdIs DEF LinesInv, CommandInv, Sound, Outcomes
<1>4. ASSUME NEW f \in FdSet
      PROVE  Of(f, Names(taken')) = Of(f, Names(taken)) \o Own(f, i.ret)
             /\ Of(f, Names(taken)) \in Seq(Commands)
  <2>1. Names(taken) \in Seq(Queued) /\ Of(f, Names(taken)) \in Seq(Commands)
    BY <1>2, NamesAre, OfIs
  <2>2. CASE i.ret \in KeyCmds \union {NoCmd, AsyncQuit}
    <3>1. taken' = taken /\ Own(f, i.ret) = <<>>
      BY <2>2, NotOwn DEF Take
    <3> QED BY <2>1, <3>1, ConcatEmptySeq
  <2>3. CASE i.ret \notin KeyCmds \union {NoCmd, AsyncQuit}
    <3>1. taken' = Append(taken, [cmd |-> i.ret, use |-> use]) /\ i.ret \in Commands /\ i.ret \in Queued
      BY <1>3, <2>3 DEF Take, Answers, Queued
    <3>2. Names(taken') = Append(Names(taken), i.ret)
      BY <1>2, <3>1, NamesAre
    <3> QED BY <2>1, <3>1, <3>2, OfAppend
  <2> QED BY <2>2, <2>3
<1>5. ASSUME NEW f \in FdSet
      PROVE  Cmds[Script[f]] = (Of(f, Names(taken')) \o Of(f, cmd_queue')) \o ToCome(f)'
  <2>1. Cmds[Script[f]] = (Of(f, Names(taken)) \o Of(f, cmd_queue)) \o ToCome(f)
    BY LinesKeptIs DEF LinesInv
  <2>2. Of(f, cmd_queue) \in Seq(Commands) /\ ToCome(f) \in Seq(Commands)
        /\ Of(f, Names(taken)) \in Seq(Commands) /\ Own(f, i.ret) \in Seq(Commands)
    BY <1>2, <1>4, OfIs, OwnIs, ToComeIs DEF LinesInv
  <2>3. Of(f, cmd_queue) \o ToCome(f) = Own(f, i.ret) \o (Of(f, cmd_queue') \o ToCome(f)')
    BY <1>1 DEF Handed
  <2>4. \A x, y, z \in Seq(Commands) : (x \o y) \o z = x \o (y \o z)
    BY Regroup
  <2>5. \A x, y \in Seq(Commands) : x \o y \in Seq(Commands)
    BY ConcatProperties
  <2>6. PICK n \in Seq(Commands), o \in Seq(Commands), q \in Seq(Commands), t \in Seq(Commands) :
          n = Of(f, Names(taken)) /\ o = Own(f, i.ret) /\ q = Of(f, cmd_queue') /\ t = ToCome(f)'
    BY <1>1, <2>2
  <2>7. Cmds[Script[f]] = n \o (o \o (q \o t))
    <3>1. Cmds[Script[f]] = Of(f, Names(taken)) \o (Of(f, cmd_queue) \o ToCome(f))
      BY <2>1, <2>2, <2>4, Zenon
    <3>2. Of(f, cmd_queue) \o ToCome(f) = o \o (q \o t)
      BY <2>3, <2>6, Zenon
    <3> QED BY <2>6, <3>1, <3>2, Zenon
  <2>8. q \o t \in Seq(Commands) /\ n \o o \in Seq(Commands)
    BY <2>5
  <2>9. n \o (o \o (q \o t)) = (n \o o) \o (q \o t)
    BY <2>4, <2>8, Zenon
  <2>10. (n \o o) \o (q \o t) = ((n \o o) \o q) \o t
    BY <2>4, <2>8, Zenon
  <2> QED BY <1>4, <2>6, <2>7, <2>9, <2>10
<1>6. LinesKept'
  BY <1>5 DEF LinesKept, ToCome, Accepted
<1> QED BY <1>1, <1>6

LEMMA GetLines == ASSUME LinesInv, Get PROVE LinesInv'
<1>1. PICK i \in get_cmd(FALSE) : Become(i) /\ Take(i, "run")
  BY DEF Get
<1>2. unsent' = unsent
  BY DEF Get
<1>3. Sources' /\ QueueKept' /\ LinesKept'
  BY <1>1, <1>2, TakeLines
<1>4. CommandInv'
  BY GetKeeps DEF LinesInv
<1> QED BY <1>3, <1>4 DEF LinesInv

LEMMA RemoveCmdLines == ASSUME LinesInv, RemoveCmd PROVE LinesInv'
<1>1. PICK i \in get_cmd(FALSE) : Become(i) /\ Take(i, "free")
  BY DEF RemoveCmd
<1>2. unsent' = unsent
  BY DEF RemoveCmd
<1>3. Sources' /\ QueueKept' /\ LinesKept'
  BY <1>1, <1>2, TakeLines
<1>4. CommandInv'
  BY RemoveCmdKeeps DEF LinesInv
<1> QED BY <1>3, <1>4 DEF LinesInv

LEMMA LookLines ==
  ASSUME LinesInv, NEW i \in get_cmd(TRUE), Become(i), UNCHANGED <<unsent, taken>>
  PROVE  Sources' /\ QueueKept' /\ LinesKept'
<1>1. /\ Sources' /\ QueueKept'
      /\ \A f \in FdSet :
           /\ Of(f, cmd_queue) \o ToCome(f) = Handed(TRUE, f, i) \o (Of(f, cmd_queue') \o ToCome(f)')
           /\ Of(f, cmd_queue') \in Seq(Commands) /\ ToCome(f)' \in Seq(Commands)
  BY BecomeLines
<1>2. ASSUME NEW f \in FdSet
      PROVE  Cmds[Script[f]] = (Of(f, Names(taken')) \o Of(f, cmd_queue')) \o ToCome(f)'
  <2>1. Cmds[Script[f]] = (Of(f, Names(taken)) \o Of(f, cmd_queue)) \o ToCome(f)
    BY LinesKeptIs DEF LinesInv
  <2>2. /\ taken \in Seq([cmd : Commands, use : {"run", "free"}]) /\ cmd_queue \in Seq(Queued)
    BY DEF LinesInv, CommandInv, Kinds, Values
  <2>3. Of(f, Names(taken)) \in Seq(Commands) /\ Of(f, cmd_queue) \in Seq(Commands) /\ ToCome(f) \in Seq(Commands)
    BY <2>2, NamesAre, OfIs, ToComeIs DEF LinesInv
  <2>4. \A x, y, z \in Seq(Commands) : (x \o y) \o z = x \o (y \o z)
    BY Regroup
  <2>5. \A x, y \in Seq(Commands) : x \o y \in Seq(Commands) /\ <<>> \o x = x
    BY ConcatProperties, ConcatEmptySeq
  <2>6. Of(f, cmd_queue) \o ToCome(f) = Of(f, cmd_queue') \o ToCome(f)'
    <3>1. Of(f, cmd_queue) \o ToCome(f) = <<>> \o (Of(f, cmd_queue') \o ToCome(f)')
      BY <1>1 DEF Handed
    <3>2. Of(f, cmd_queue') \o ToCome(f)' \in Seq(Commands)
      BY <1>1, <2>5
    <3> QED BY <2>5, <3>1, <3>2
  <2>7. (Of(f, Names(taken)) \o Of(f, cmd_queue)) \o ToCome(f)
          = Of(f, Names(taken)) \o (Of(f, cmd_queue) \o ToCome(f))
    BY <2>3, <2>4, Zenon
  <2>8. (Of(f, Names(taken)) \o Of(f, cmd_queue')) \o ToCome(f)'
          = Of(f, Names(taken)) \o (Of(f, cmd_queue') \o ToCome(f)')
    BY <1>1, <2>3, <2>4, Zenon
  <2> QED BY <2>1, <2>6, <2>7, <2>8
<1>3. LinesKept'
  BY <1>2 DEF LinesKept, ToCome, Accepted
<1> QED BY <1>1, <1>3

LEMMA PeekLines == ASSUME LinesInv, Peek PROVE LinesInv'
<1>1. PICK i \in get_cmd(TRUE) : Become(i)
  BY DEF Peek
<1>2. UNCHANGED <<unsent, taken>>
  BY DEF Peek
<1>3. CommandInv'
  BY PeekKeeps DEF LinesInv
<1> QED BY <1>1, <1>2, <1>3, LookLines DEF LinesInv

LEMMA CheckInterruptLines == ASSUME LinesInv, CheckInterrupt PROVE LinesInv'
<1>1. PICK i \in get_cmd(TRUE) : Become(i)
  BY DEF CheckInterrupt
<1>2. UNCHANGED <<unsent, taken>>
  BY DEF CheckInterrupt
<1>3. CommandInv'
  BY CheckInterruptKeeps DEF LinesInv
<1> QED BY <1>1, <1>2, <1>3, LookLines DEF LinesInv

LEMMA NextLines == ASSUME LinesInv, [Next]_vars PROVE LinesInv'
<1>1. CASE UNCHANGED vars
  <2>1. CommandInv'
    BY <1>1, NextCommand DEF LinesInv
  <2>2. UNCHANGED <<pipe, unsent, buf, drop, cmd_queue, taken>>
    BY <1>1 DEF vars, fdState, writers
  <2>3. Sources' /\ QueueKept'
    BY <2>2 DEF LinesInv, Sources, QueueKept
  <2>4. LinesKept'
    BY <2>2 DEF LinesInv, LinesKept
  <2> QED BY <2>1, <2>3, <2>4 DEF LinesInv
<1>2. CASE Next
  BY <1>2, WriteLines, PostLines, SignalLines, GetLines, PeekLines, CheckInterruptLines, RemoveCmdLines DEF Next
<1> QED BY <1>1, <1>2

\* Every command line that fits the buffer is taken once and in order, or still on
\* its way, whatever is written, pressed, signalled or looked at.
THEOREM NoLineIsLost == Spec => []LinesKept
<1>1. Spec => []LinesInv
  BY InitLines, NextLines, PTL DEF Spec
<1>2. LinesInv => LinesKept
  BY DEF LinesInv
<1> QED BY <1>1, <1>2, PTL
=============================================================================
