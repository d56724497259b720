---------------------------- MODULE StreamCache ----------------------------
(***************************************************************************)
(* The stream cache of stream/cache2.c: a filler (a thread, or a forked    *)
(* process) reads ahead from the stream into a ring buffer, the player's   *)
(* main thread (the reader) takes sectors out of it, seeks by moving       *)
(* read_filepos, and passes stream controls through one shared mailbox.    *)
(* The two share cache_vars_t and use no lock, so every load or store of a *)
(* shared field that the other side can observe is a step of its own; a    *)
(* step that only touches its owner's locals is merged with its neighbour. *)
(* Stores take effect in program order.                                    *)
(*                                                                         *)
(* A byte of the file is represented by its file position.                 *)
(***************************************************************************)
EXTENDS Integers, Sequences

CONSTANTS
  BufferSize,     \* s->buffer_size, bytes
  SectorSize,     \* s->sector_size
  FillLimit,      \* s->fill_limit, 8 sectors in the code
  BackSize,       \* s->back_size, half the buffer
  SeekLimitArg,   \* seek_limit as passed to stream_enable_cache
  PrefillArg,     \* min as passed to stream_enable_cache
  ReadChunk,      \* s->stream->read_chunk, 0 when the stream sets none
  FileSize,       \* length of the underlying file
  Targets,        \* positions the player seeks to
  Forked,         \* FORKED_CACHE: the filler is a process, not a thread
  HasControl,     \* s->stream->control # NULL
  Commands,       \* subset of {"seek_time", "query"} the player issues
  BackwardSeeks,  \* "never", "quiescent" (only while the filler is at the
                  \* top of its loop) or "any"
  Interrupts,     \* stream_check_interrupt may return 1
  ShortReads,     \* the stream may return fewer bytes than asked for
  ReadErrors,     \* the stream may return 0 before the end of the file
  SeekErrors,     \* stream_seek_internal may fail and leave the position
  MainDies        \* the player may be killed without calling cache_uninit

Nil == -1         \* content of a buffer cell that was never written

ASSUME SizesAssumption ==
  /\ {BufferSize, SectorSize, FillLimit, BackSize} \subseteq Nat \ {0}
  /\ {SeekLimitArg, PrefillArg, ReadChunk, FileSize} \subseteq Nat
  /\ SectorSize <= FillLimit /\ FillLimit + BackSize <= BufferSize
  /\ Targets \subseteq Nat

ASSUME EnvironmentAssumption ==
  /\ {Forked, HasControl, Interrupts, ShortReads, ReadErrors, SeekErrors,
      MainDies} \subseteq BOOLEAN
  /\ BackwardSeeks \in {"never", "quiescent", "any"}
  /\ Commands \subseteq {"seek_time", "query"}
  /\ MainDies => Forked     \* a thread dies with its process

FFMIN(a, b) == IF a < b THEN a ELSE b
FFMAX(a, b) == IF a > b THEN a ELSE b

\* stream_enable_cache clamps both so that the filler can satisfy them.
\* The mutated forms here and below are bugs the properties must catch.
PrefillUnclamped == FFMAX(1, PrefillArg)
SeekLimit == FFMIN(SeekLimitArg, BufferSize - FillLimit)
Prefill   == FFMAX(1, FFMIN(PrefillArg, BufferSize - FillLimit))

Cells == 0 .. BufferSize - 1

VARIABLES
  \* cache_vars_t, shared
  buffer, min_filepos, max_filepos, offset, eof, read_filepos,
  control, control_arg, control_res,
  freed,          \* cache_uninit has released cache_vars_t and its buffer
  \* the filler: its stream_t and the locals of the function it is in
  spos, seof, fpc, fRead, fFlush, fPos, fSpace, fLen, fCmd, fArg,
  \* the reader: its stream_t (pos, eof, buffer[0..buf_len-1]) and locals
  pos, ueof, sbuf, rpc, rNewb, rPos, rCmd

window  == <<min_filepos, max_filepos, offset>>
mailbox == <<control, control_arg, control_res>>
shared  == <<buffer, window, eof, read_filepos, mailbox, freed>>
fStream == <<spos, seof>>
fLocals == <<fRead, fFlush, fPos, fSpace, fLen, fCmd, fArg>>
filler  == <<fStream, fpc, fLocals>>
reader  == <<pos, ueof, sbuf, rpc, rNewb, rPos, rCmd>>
vars    == <<shared, filler, reader>>

None == "none"    \* control == -1
Quit == "quit"    \* control == -2
NoAnswer == [ok |-> FALSE, to |-> None]

\* cache_init, stream_enable_cache up to the prefill loop: every field is 0.
Init ==
  /\ buffer = [i \in Cells |-> Nil]
  /\ min_filepos = 0 /\ max_filepos = 0 /\ offset = 0 /\ read_filepos = 0
  /\ eof = FALSE /\ freed = FALSE
  /\ control = None /\ control_arg = 0 /\ control_res = NoAnswer
  /\ spos = 0 /\ seof = FALSE /\ fpc = "snapshot"
  /\ fRead = 0 /\ fFlush = 0 /\ fPos = 0 /\ fSpace = 0 /\ fLen = 0
  /\ fCmd = None /\ fArg = 0
  /\ pos = 0 /\ ueof = FALSE /\ sbuf = <<>> /\ rpc = "prefill"
  /\ rNewb = 0 /\ rPos = 0 /\ rCmd = None

----------------------------------------------------------------------------
(***************************************************************************)
(* The filler: cache_fill, cache_flush, cache_execute_control.             *)
(***************************************************************************)
fFill == <<fRead, fPos, fSpace, fLen>>
ToControl == fpc' = "control" /\ fRead' = 0 /\ fPos' = 0 /\ fSpace' = 0 /\ fLen' = 0

\* read_filepos is outside the window, behind it or too far ahead to wait.
OutOfReach(read) ==
  /\ read < min_filepos \/ read > max_filepos
  /\ read < min_filepos \/ read >= max_filepos + SeekLimit

Newb(read)  == FFMAX(0, max_filepos - read)
BackForgotten(read) == 0
Back(read)  == FFMIN(FFMAX(0, read - min_filepos), BackSize)
Space(read) == BufferSize - (Newb(read) + Back(read))

Unwrap(p) == IF p >= BufferSize THEN p - BufferSize ELSE p
WritePos  == Unwrap(max_filepos - offset)

\* One-time block: up to the end of the buffer, or one sector wrapped around it.
BlockSize(space, p) ==
  FFMIN(IF ReadChunk = 0 THEN 4 * SectorSize ELSE ReadChunk,
        IF space <= BufferSize - p THEN space
        ELSE FFMAX(BufferSize - p, SectorSize))

NewMinNoBlock(read, space)  == FFMAX(min_filepos, read - (BufferSize - Newb(read)))
\* The oldest byte kept so that back + newb + space fits the buffer.
NewMin(read, space) ==
  FFMAX(min_filepos, read - (BufferSize - (space + Newb(read))))

\* The cells [p, p+len) of the ring.
Region(p, len) == {Unwrap(p + i) : i \in 0 .. len - 1}

\* eof = !len; the block ended at, or past, the end of the buffer.
AtEnd(len)   == len = 0
Wrapped(end) == end >= BufferSize

Snapshot ==
  /\ fpc = "snapshot"
  /\ fRead' = read_filepos
  /\ fpc' = IF OutOfReach(read_filepos) THEN "flushLoad" ELSE "plan"
  /\ UNCHANGED <<shared, reader, fStream, fFlush, fPos, fSpace, fLen, fCmd, fArg>>

\* cache_flush reads read_filepos again, then drops the window in three stores.
FlushLoad ==
  /\ fpc = "flushLoad" /\ fpc' = "flushMax"
  /\ fFlush' = read_filepos
  /\ UNCHANGED <<shared, reader, fStream, fFill, fCmd, fArg>>

FlushMax ==
  /\ fpc = "flushMax" /\ fpc' = "flushMin"
  /\ max_filepos' = fFlush
  /\ UNCHANGED <<buffer, min_filepos, offset, eof, read_filepos, mailbox, freed,
                 reader, fStream, fLocals>>

FlushMinForgotten ==
  /\ fpc = "flushMin" /\ fpc' = "flushOffset"
  /\ UNCHANGED <<shared, reader, fStream, fLocals>>

FlushMin ==
  /\ fpc = "flushMin" /\ fpc' = "flushOffset"
  /\ min_filepos' = fFlush
  /\ UNCHANGED <<buffer, max_filepos, offset, eof, read_filepos, mailbox, freed,
                 reader, fStream, fLocals>>

\* Back to cache_fill, or to the control that asked for the flush.
FlushOffset ==
  /\ fpc = "flushOffset"
  /\ fpc' = IF fCmd = None THEN "reposition" ELSE "ctlDone"
  /\ offset' = fFlush /\ fFlush' = 0
  /\ UNCHANGED <<buffer, min_filepos, max_filepos, eof, read_filepos, mailbox,
                 freed, reader, fStream, fFill, fCmd, fArg>>

\* stream_reset and stream_seek_internal; the result of the seek is ignored.
Reposition ==
  /\ fpc = "reposition" /\ fpc' = "plan"
  /\ spos' \in IF SeekErrors THEN {spos, fRead} ELSE {fRead}
  /\ seof' = FALSE
  /\ UNCHANGED <<shared, reader, fLocals>>

PlanNone ==
  /\ fpc = "plan" /\ Space(fRead) < FillLimit
  /\ ToControl
  /\ UNCHANGED <<shared, reader, fStream, fFlush, fCmd, fArg>>

PlanBlock ==
  /\ fpc = "plan" /\ fpc' = "fetch" /\ Space(fRead) >= FillLimit
  /\ fPos' = WritePos
  /\ fSpace' = BlockSize(Space(fRead), WritePos)
  /\ min_filepos' = NewMin(fRead, BlockSize(Space(fRead), WritePos))
  /\ UNCHANGED <<buffer, max_filepos, offset, eof, read_filepos, mailbox, freed,
                 reader, fStream, fRead, fFlush, fLen, fCmd, fArg>>

\* stream_read_internal: what the stream may deliver when asked for n bytes.
FetchLens(n) ==
  LET avail == FFMAX(0, FFMIN(n, FileSize - spos))
  IN  (IF ShortReads /\ avail > 0 THEN 1 .. avail ELSE {avail})
        \union (IF ReadErrors THEN {0} ELSE {})

Filled(p, len) ==
  [c \in Cells |-> IF c \in Region(p, len)
                   THEN spos + (IF c >= p THEN c - p ELSE c + BufferSize - p)
                   ELSE buffer[c]]

\* Read into the buffer, wrapped around its end when the block does not fit.
Fetch ==
  /\ fpc = "fetch" /\ fpc' = "storeEof"
  /\ \E len \in FetchLens(fSpace) :
       /\ fLen' = len
       /\ buffer' = Filled(fPos, len)
       /\ spos' = spos + len
       /\ seof' = (len = 0)
  /\ UNCHANGED <<window, eof, read_filepos, mailbox, freed, reader,
                 fRead, fFlush, fPos, fSpace, fCmd, fArg>>

StoreEof ==
  /\ fpc = "storeEof"
  /\ eof' = AtEnd(fLen)
  /\ IF fLen = 0 THEN ToControl ELSE fpc' = "storeMax" /\ UNCHANGED fFill
  /\ UNCHANGED <<buffer, window, read_filepos, mailbox, freed, reader, fStream,
                 fFlush, fCmd, fArg>>

StoreMax ==
  /\ fpc = "storeMax"
  /\ max_filepos' = max_filepos + fLen
  /\ IF Wrapped(fPos + fLen)
     THEN fpc' = "storeOffset" /\ UNCHANGED fFill ELSE ToControl
  /\ UNCHANGED <<buffer, min_filepos, offset, eof, read_filepos, mailbox, freed,
                 reader, fStream, fFlush, fCmd, fArg>>

StoreOffset ==
  /\ fpc = "storeOffset"
  /\ offset' = offset + BufferSize
  /\ ToControl
  /\ UNCHANGED <<buffer, min_filepos, max_filepos, eof, read_filepos, mailbox,
                 freed, reader, fStream, fFlush, fCmd, fArg>>

----------------------------------------------------------------------------
\* cache_execute_control: the tests before the switch.
ControlRefuse ==
  /\ fpc = "control" /\ fpc' = "ctlRefuse"
  /\ control = Quit \/ ~HasControl
  /\ fCmd' = IF control = Quit THEN Quit ELSE None
  /\ UNCHANGED <<shared, reader, fStream, fFill, fFlush, fArg>>

ParentGoneLate ==
  /\ fpc = "control" /\ fpc' = "exited"
  /\ control \notin {None, Quit} /\ HasControl /\ Forked /\ rpc = "dead"
  /\ UNCHANGED <<shared, reader, fStream, fLocals>>

\* Every 100 ms a forked filler looks whether its parent still exists.
ParentGone ==
  /\ fpc = "control" /\ fpc' = "exited"
  /\ control # Quit /\ HasControl /\ Forked /\ rpc = "dead"
  /\ UNCHANGED <<shared, reader, fStream, fLocals>>

ControlEnter ==
  /\ fpc = "control" /\ fpc' = "ctlSwitch"
  /\ control # Quit /\ HasControl
  /\ UNCHANGED <<shared, reader, fStream, fLocals>>

RefusedSilently ==
  /\ fpc = "ctlRefuse"
  /\ fpc' = IF fCmd = Quit THEN "exited" ELSE "snapshot"
  /\ control_res' = [ok |-> FALSE, to |-> control]
  /\ fCmd' = None
  /\ UNCHANGED <<buffer, window, eof, read_filepos, control, control_arg, freed,
                 reader, fStream, fFill, fFlush, fArg>>

\* control_res and then control are stored; the thread ends on a quit it saw.
Refused ==
  /\ fpc = "ctlRefuse"
  /\ fpc' = IF fCmd = Quit THEN "exited" ELSE "snapshot"
  /\ control_res' = [ok |-> FALSE, to |-> control] /\ control' = None
  /\ fCmd' = None
  /\ UNCHANGED <<buffer, window, eof, read_filepos, control_arg, freed, reader,
                 fStream, fFill, fFlush, fArg>>

NothingAsked ==
  /\ fpc = "ctlSwitch" /\ fpc' = "snapshot"
  /\ control = None
  /\ UNCHANGED <<shared, reader, fStream, fLocals>>

SwitchAcksFirst ==
  /\ fpc = "ctlSwitch" /\ fpc' = "ctlCall"
  /\ control # None
  /\ fCmd' = control /\ fArg' = control_arg /\ control' = None
  /\ UNCHANGED <<buffer, window, eof, read_filepos, control_arg, control_res, freed,
                 reader, fStream, fFill, fFlush>>

\* switch (s->control): the argument is copied for the commands that take one.
Switch ==
  /\ fpc = "ctlSwitch" /\ fpc' = "ctlCall"
  /\ control # None
  /\ fCmd' = control /\ fArg' = control_arg
  /\ UNCHANGED <<shared, reader, fStream, fFill, fFlush>>

\* s->stream->control(s->stream, s->control, ...) loads s->control again, and
\* hands it the local of the case taken. The stream may refuse; it knows no
\* Quit, which the switch itself refuses by default.
Call ==
  /\ fpc = "ctlCall"
  /\ \E ok \in IF fCmd = Quit \/ control = Quit THEN {FALSE} ELSE BOOLEAN,
        to \in IF fCmd = "seek_time" THEN {fArg} ELSE Targets :
       LET moved == ok /\ control = "seek_time"
       IN  /\ control_res' = [ok |-> ok, to |-> control]
           /\ spos' = IF moved THEN to ELSE spos
           /\ seof' = (seof /\ ~moved)
           /\ fpc' = IF ok /\ fCmd = "seek_time" THEN "ctlApply" ELSE "ctlDone"
  /\ control_arg' = IF fCmd = "seek_time" THEN fArg ELSE control_arg
  /\ UNCHANGED <<buffer, window, eof, read_filepos, control, freed, reader, fLocals>>

\* needs_flush: the reader's position follows the stream.
ApplyPos ==
  /\ fpc = "ctlApply" /\ fpc' = "ctlEof"
  /\ read_filepos' = spos
  /\ UNCHANGED <<buffer, window, eof, mailbox, freed, reader, fStream, fLocals>>

ApplyEof ==
  /\ fpc = "ctlEof" /\ fpc' = "flushLoad"
  /\ eof' = seof
  /\ UNCHANGED <<buffer, window, read_filepos, mailbox, freed, reader, fStream, fLocals>>

ControlDoneOk ==
  /\ fpc = "ctlDone" /\ fpc' = "snapshot"
  /\ control' = "ok" /\ fCmd' = None /\ fArg' = 0
  /\ UNCHANGED <<buffer, window, eof, read_filepos, control_arg, control_res, freed,
                 reader, fStream, fFill, fFlush>>

ControlDone ==
  /\ fpc = "ctlDone" /\ fpc' = "snapshot"
  /\ control' = None /\ fCmd' = None /\ fArg' = 0
  /\ UNCHANGED <<buffer, window, eof, read_filepos, control_arg, control_res, freed,
                 reader, fStream, fFill, fFlush>>

----------------------------------------------------------------------------
(***************************************************************************)
(* The reader: stream_enable_cache, cache_stream_fill_buffer (cache_read), *)
(* cache_stream_seek_long, cache_do_control, cache_uninit. A read is under *)
(* way while rpc is in Reading; sbuf then grows from <<>> to buf_len bytes.*)
(***************************************************************************)
Reading == {"chkMax", "chkMin", "chkEof", "sleep", "newb", "pos", "copy"}
Left    == SectorSize - Len(sbuf)
rFixed  == <<pos, ueof, sbuf>>

DeliverWhole(bytes) ==
  /\ rpc' = "idle" /\ sbuf' = bytes /\ rNewb' = 0 /\ rPos' = 0
  /\ pos' = pos + SectorSize
  /\ ueof' = (bytes = <<>>)

\* The end of cache_stream_fill_buffer: what was read becomes stream->buffer.
Deliver(bytes) ==
  /\ rpc' = "idle" /\ sbuf' = bytes /\ rNewb' = 0 /\ rPos' = 0
  /\ pos' = pos + Len(bytes)
  /\ ueof' = (bytes = <<>>)

Goto(l) == rpc' = l /\ UNCHANGED <<rFixed, rNewb, rPos, rCmd>>

\* stream_enable_cache waits for the first bytes.
PrefillCheck ==
  /\ rpc = "prefill"
  /\ Goto(IF read_filepos < min_filepos \/ max_filepos - read_filepos < Prefill
          THEN "prefillEof" ELSE "idle")
  /\ UNCHANGED <<shared, filler>>

PrefillEof ==
  /\ rpc = "prefillEof"
  /\ Goto(IF eof THEN "idle" ELSE "prefillSleep")
  /\ UNCHANGED <<shared, filler>>

PrefillSleep ==
  /\ rpc = "prefillSleep"
  /\ \/ Goto("prefill")
     \/ Interrupts /\ Goto("uninit")
  /\ UNCHANGED <<shared, filler>>

\* stream->buffer is used up: cache_stream_fill_buffer.
StartFill ==
  /\ rpc = "idle" /\ rpc' = "chkMax"
  /\ sbuf' = <<>>
  /\ UNCHANGED <<shared, filler, pos, ueof, rNewb, rPos, rCmd>>

CheckMax ==
  /\ rpc = "chkMax"
  /\ Goto(IF read_filepos >= max_filepos THEN "chkEof" ELSE "chkMin")
  /\ UNCHANGED <<shared, filler>>

CheckMin ==
  /\ rpc = "chkMin"
  /\ Goto(IF read_filepos < min_filepos THEN "chkEof" ELSE "newb")
  /\ UNCHANGED <<shared, filler>>

CheckEofNever ==
  /\ rpc = "chkEof" /\ Goto("sleep")
  /\ UNCHANGED <<shared, filler>>

CheckEof ==
  /\ rpc = "chkEof"
  /\ IF eof THEN Deliver(sbuf) /\ UNCHANGED rCmd ELSE Goto("sleep")
  /\ UNCHANGED <<shared, filler>>

Sleep ==
  /\ rpc = "sleep" /\ Goto("chkMax")
  /\ UNCHANGED <<shared, filler>>

InterruptedDropsBytes ==
  /\ rpc = "sleep" /\ Interrupts
  /\ eof' = TRUE
  /\ Deliver(<<>>) /\ UNCHANGED rCmd
  /\ UNCHANGED <<buffer, window, read_filepos, mailbox, freed, filler>>

\* stream_check_interrupt returned 1.
Interrupted ==
  /\ rpc = "sleep" /\ Interrupts
  /\ eof' = TRUE
  /\ Deliver(sbuf) /\ UNCHANGED rCmd
  /\ UNCHANGED <<buffer, window, read_filepos, mailbox, freed, filler>>

LoadNewb ==
  /\ rpc = "newb" /\ rpc' = "pos"
  /\ rNewb' = max_filepos - read_filepos
  /\ UNCHANGED <<shared, filler, rFixed, rPos, rCmd>>

RingPosNoBorrow(p) == Unwrap(p)
\* The position in the ring, one buffer size too low or too high at most.
RingPos(p) == IF p < 0 THEN p + BufferSize ELSE Unwrap(p)

LoadPos ==
  /\ rpc = "pos" /\ rpc' = "copy"
  /\ rPos' = RingPos(read_filepos - offset)
  /\ rNewb' = FFMIN(FFMIN(rNewb, BufferSize - rPos'), Left)
  /\ UNCHANGED <<shared, filler, rFixed, rCmd>>

Cell(c) == IF c \in Cells THEN buffer[c] ELSE Nil

\* memcpy and the move of read_filepos past the bytes taken.
Copied ==
  /\ read_filepos' = read_filepos + rNewb
  /\ LET bytes == sbuf \o [i \in 1 .. rNewb |-> Cell(rPos + i - 1)]
     IN  IF Len(bytes) = SectorSize
         THEN Deliver(bytes)
         ELSE /\ rpc' = "chkMax" /\ sbuf' = bytes /\ rNewb' = 0 /\ rPos' = 0
              /\ UNCHANGED <<pos, ueof>>
  /\ UNCHANGED <<buffer, window, eof, mailbox, freed, filler, rCmd>>

\* A negative length is a huge size_t to memcpy: the player crashes.
CopyCrash ==
  /\ rpc' = "dead" /\ fpc' = IF Forked THEN fpc ELSE "exited"
  /\ UNCHANGED <<shared, fStream, fLocals, rFixed, rNewb, rPos, rCmd>>

Copy == rpc = "copy" /\ IF rNewb < 0 THEN CopyCrash ELSE Copied

Align(p) == (p \div SectorSize) * SectorSize

\* stream_seek needs no cache when the target lies in stream->buffer.
InSectorBuffer(p) ==
  \/ sbuf = <<>> /\ pos = p
  \/ pos - Len(sbuf) <= p /\ p < pos

\* cache_stream_seek_long: read_filepos is stored, then eof is cleared, then a
\* sector is read. The new cursor within that sector is not modelled.
SeekLong ==
  /\ rpc = "idle" /\ rpc' = "seekEof"
  /\ \E p \in Targets :
       /\ ~InSectorBuffer(p)
       /\ Align(p) < read_filepos => \/ BackwardSeeks = "any"
                                     \/ BackwardSeeks = "quiescent" /\ fpc = "snapshot"
       /\ read_filepos' = Align(p) /\ pos' = Align(p)
  /\ UNCHANGED <<buffer, window, eof, mailbox, freed, filler,
                 ueof, sbuf, rNewb, rPos, rCmd>>

SeekEof ==
  /\ rpc = "seekEof" /\ rpc' = "chkMax"
  /\ eof' = FALSE /\ sbuf' = <<>>
  /\ UNCHANGED <<buffer, window, read_filepos, mailbox, freed, filler,
                 pos, ueof, rNewb, rPos, rCmd>>

\* cache_do_control: the argument and then the command are stored. That is one
\* step, as are the loads of both in Switch: only a caller that gave up its wait
\* (Interrupts) and seeks by time again could tell them apart.
Ask(cmd, arg) ==
  /\ rpc' = "wait" /\ rCmd' = cmd
  /\ control' = cmd /\ control_arg' = arg
  /\ UNCHANGED <<buffer, window, eof, read_filepos, control_res, freed, filler,
                 rFixed, rNewb, rPos>>

\* stream_control refuses by itself when the stream has no control function.
DoControl ==
  /\ rpc = "idle" /\ HasControl
  /\ \E cmd \in Commands :
       \E arg \in IF cmd = "seek_time" THEN Targets ELSE {control_arg} : Ask(cmd, arg)

\* Back to the player, or in cache_uninit to the release of the memory.
Resume == IF rCmd = Quit THEN rpc' = "closed" /\ freed' = TRUE
                         ELSE rpc' = "idle" /\ UNCHANGED freed

AnsweredKeepsPos ==
  /\ rpc = "wait" /\ control = None
  /\ Resume /\ rCmd' = None
  /\ UNCHANGED <<buffer, window, eof, read_filepos, mailbox, filler, rFixed, rNewb, rPos>>

\* A position change is taken over only if the command succeeded.
Answered ==
  /\ rpc = "wait" /\ control = None
  /\ Resume /\ rCmd' = None
  /\ IF control_res.ok /\ rCmd = "seek_time"
     THEN pos' = read_filepos /\ ueof' = eof ELSE UNCHANGED <<pos, ueof>>
  /\ UNCHANGED <<buffer, window, eof, read_filepos, mailbox, filler, sbuf, rNewb, rPos>>

\* The wait is given up, the command stays in the mailbox.
WaitInterrupted ==
  /\ rpc = "wait" /\ control # None /\ Interrupts
  /\ eof' = TRUE
  /\ Resume /\ rCmd' = None
  /\ UNCHANGED <<buffer, window, read_filepos, mailbox, filler, rFixed, rNewb, rPos>>

\* cache_uninit: a thread is asked to quit, a process is killed.
StartUninit ==
  /\ rpc = "idle" /\ Goto("uninit")
  /\ UNCHANGED <<shared, filler>>

AskQuit ==
  /\ rpc = "uninit" /\ ~Forked
  /\ Ask(Quit, control_arg)

Kill ==
  /\ rpc = "uninit" /\ Forked /\ rpc' = "closed"
  /\ fpc' = "exited" /\ freed' = TRUE
  /\ UNCHANGED <<buffer, window, eof, read_filepos, mailbox, fStream, fLocals,
                 rFixed, rNewb, rPos, rCmd>>

\* The player process is killed from outside (SIGKILL).
Die ==
  /\ MainDies /\ rpc \notin {"closed", "dead"} /\ rpc' = "dead"
  /\ UNCHANGED <<shared, filler, rFixed, rNewb, rPos, rCmd>>

----------------------------------------------------------------------------
CacheFill == \/ Snapshot \/ FlushLoad \/ FlushMax \/ FlushMin \/ FlushOffset
             \/ Reposition \/ PlanNone \/ PlanBlock \/ Fetch
             \/ StoreEof \/ StoreMax \/ StoreOffset
CacheControl == \/ ControlRefuse \/ ParentGone \/ ControlEnter \/ Refused
                \/ NothingAsked \/ Switch \/ Call \/ ApplyPos \/ ApplyEof
                \/ ControlDone
FillerNext == CacheFill \/ CacheControl

\* Steps of a call the player has made; Requests are the calls it may make.
ReaderNext == \/ PrefillCheck \/ PrefillEof \/ PrefillSleep
              \/ CheckMax \/ CheckMin \/ CheckEof \/ Sleep \/ Interrupted
              \/ LoadNewb \/ LoadPos \/ Copy
              \/ SeekEof \/ Answered \/ WaitInterrupted \/ AskQuit \/ Kill
Requests == StartFill \/ SeekLong \/ DoControl \/ StartUninit

Finished == /\ rpc \in {"closed", "dead"} /\ fpc = "exited"
            /\ UNCHANGED vars

Next == FillerNext \/ ReaderNext \/ Requests \/ Die \/ Finished

Spec == Init /\ [][Next]_vars

\* Both sides run: the filler never blocks for ever, and the player finishes
\* what it called unless it is killed. A filler that keeps looping reaches the
\* 100 ms check of its parent again and again.
FairSpec == Spec /\ WF_vars(FillerNext) /\ WF_vars(ReaderNext) /\ SF_vars(ParentGone)

----------------------------------------------------------------------------
FillerPcs == {"snapshot", "flushLoad", "flushMax", "flushMin", "flushOffset",
              "reposition", "plan", "fetch", "storeEof", "storeMax", "storeOffset",
              "control", "ctlRefuse", "ctlSwitch", "ctlCall", "ctlApply", "ctlEof",
              "ctlDone", "exited"}
ReaderPcs == Reading \union {"prefill", "prefillEof", "prefillSleep", "idle",
              "seekEof", "wait", "uninit", "closed", "dead"}
AllCommands == {None, Quit, "seek_time", "query"}

SharedTypes ==
  /\ buffer \in [Cells -> Int]
  /\ min_filepos \in Int /\ max_filepos \in Int /\ offset \in Int
  /\ read_filepos \in Int /\ eof \in BOOLEAN /\ freed \in BOOLEAN
  /\ control \in AllCommands /\ control_arg \in Nat
  /\ control_res \in [ok : BOOLEAN, to : AllCommands]
FillerTypes ==
  /\ spos \in Int /\ seof \in BOOLEAN /\ fpc \in FillerPcs
  /\ fRead \in Int /\ fFlush \in Int /\ fPos \in Int /\ fSpace \in Int /\ fLen \in Int
  /\ fCmd \in AllCommands /\ fArg \in Nat
ReaderTypes ==
  /\ pos \in Int /\ ueof \in BOOLEAN /\ sbuf \in Seq(Int)
  /\ rpc \in ReaderPcs /\ rNewb \in Int /\ rPos \in Int
  /\ rCmd \in AllCommands

(* Every variable of the two threads has its type; positions are integers,  *)
(* whatever the interleaving.                                               *)
TypeOK == SharedTypes /\ FillerTypes /\ ReaderTypes

(* Whatever the reader does, cache_fill writes inside the buffer and, with  *)
(* the block it is about to read, never keeps more than buffer_size bytes:  *)
(* "back+newb+space <= buffer_size" (cache2.c:242).                         *)
FillInBounds ==
  fpc = "fetch" => /\ 0 <= fPos /\ fPos < BufferSize
                   /\ 0 < fSpace /\ fSpace <= BufferSize
                   /\ fPos + fSpace <= BufferSize + SectorSize - 1
                   /\ max_filepos + fSpace - min_filepos <= BufferSize

(* FillInBounds, strengthened to what every step of the filler preserves.   *)
FillerInv ==
  LET used == max_filepos - offset   \* the ring position of the next byte
  IN  /\ fpc \notin {"flushMin", "flushOffset", "storeOffset", "exited"}
            => 0 <= used /\ used < BufferSize
      /\ fpc \notin {"flushMin", "exited"} => max_filepos - min_filepos <= BufferSize
      /\ fpc = "flushMin"    => max_filepos = fFlush
      /\ fpc = "flushOffset" => max_filepos = fFlush /\ min_filepos = fFlush
      /\ fpc \in {"fetch", "storeEof", "storeMax"}
            => /\ fPos = used /\ 0 < fSpace /\ fSpace <= BufferSize
               /\ fPos + fSpace <= BufferSize + SectorSize - 1
               /\ max_filepos + fSpace - min_filepos <= BufferSize
      /\ fpc \in {"storeEof", "storeMax"} => 0 <= fLen /\ fLen <= fSpace
      /\ fpc = "storeOffset" => BufferSize <= used /\ used < 2 * BufferSize

(* The reader's memcpy stays inside the buffer and never overlaps the cells *)
(* the filler is reading the stream into.                                   *)
CopyRegion == rPos .. rPos + rNewb - 1
CopySafe ==
  rpc = "copy" => /\ rNewb >= 0 /\ CopyRegion \subseteq Cells
                  /\ fpc = "fetch" => CopyRegion \intersect Region(fPos, fSpace) = {}

(* Each byte handed to the player is the byte of the file at its position.  *)
DeliversFileBytes ==
  [][rpc = "copy" => \A i \in 1 .. Len(sbuf') : sbuf'[i] = pos + i - 1]_vars

(* cache_stream_fill_buffer finds pos and read_filepos equal, otherwise it  *)
(* prints "!!! read_filepos differs!!! report this bug" (cache2.c:568).     *)
ReadPosAgrees == rpc = "idle" => pos = read_filepos

(* cache_do_control returns the result of the command it was asked for.     *)
AnswersItsCommand ==
  [][rpc = "wait" /\ rCmd' = None /\ control = None => control_res.to = rCmd]_vars

(* The filler drops bytes behind the reader only beyond back_size, except   *)
(* when it flushes the cache for a far seek or a control.                   *)
KeepsBackBytes ==
  [][min_filepos' # min_filepos /\ fpc = "plan"
       => min_filepos' <= FFMAX(min_filepos, fRead - BackSize)]_vars

(* Whatever was read, skipped and flushed before, the window holds the      *)
(* bytes of the file: the back bytes that a later seek will find as well as *)
(* those still to be read. (Between two stores of a flush its ends belong to two  *)
(* windows, and nobody reads after cache_uninit or the player's death.)     *)
WindowIsFile ==
  rpc \notin {"closed", "dead"} /\ fpc # "flushMin" =>
    \A q \in min_filepos .. max_filepos - 1 : buffer[RingPos(q - offset)] = q

(* cache_uninit releases the memory only when the filler no longer runs.    *)
FreedAfterExit == freed => fpc = "exited"

(* The cache is a stream: reads deliver consecutive bytes of the file from  *)
(* the position the last seek or read left, whatever the filler is doing.   *)
Stream == INSTANCE SeekableStream
            WITH Positions <- Targets \union {Align(p) : p \in Targets},
                 eof <- ueof, data <- IF rpc \in Reading \union {"dead"} THEN <<>> ELSE sbuf
ReadsAsStream == Stream!Spec

(* The prefill ends early only when the file is smaller than the prefill    *)
(* (the comment at cache2.c:527).                                           *)
PrefillEofMeansSmall ==
  [][rpc = "prefillEof" /\ rpc' = "idle" => FileSize < Prefill]_vars

(* stream_enable_cache returns, every read ends, every control is answered. *)
PrefillEnds == rpc = "prefill" ~> rpc \notin {"prefill", "prefillEof", "prefillSleep"}
ReadsEnd    == rpc \in Reading ~> rpc \notin Reading
ControlEnds == rpc = "wait" ~> rpc # "wait"

(* "if parent PID changed, main process was killed -> exit" (cache2.c:296). *)
OrphanExits == rpc = "dead" ~> fpc = "exited"
============================================================================
