# A verification project for the FrostWire player

FrostWire's player is an audio-only build of MPlayer 1.5 (`src/MPlayer-1.5`,
scripts in `src/`).  A front end starts it with `-slave` (usually `-idle`) and
steers it by writing command lines to its standard input.  This directory holds
TLA+ models of its core logic, TLC configurations that check them on small
instances, and TLAPS proofs.  Paths below are relative to `src/MPlayer-1.5`.

## 1. Inventory

| component | code | state | operations | modelled |
|---|---|---|---|---|
| stream cache | `stream/cache2.c` | `cache_vars_t`: ring buffer, window, `read_filepos`, `eof`, control mailbox | fill, flush, read, seek, control, prefill, uninit | yes, `StreamCache` |
| streams | `stream/stream.c`, `.h` | `pos`, `eof`, sector buffer | read, seek, reconnect, control | what the cache uses |
| key input | `mp_fifo.c` | key fifo, last keys | put, get | yes, `KeyInput` |
| input and commands | `input/input.c` | keys down, repeat, pipes' buffers, command queue, filters | `read_events`, `mp_input_get_cmd`, `mp_input_check_interrupt` | keys: `KeyInput`, commands: `CommandInput` |
| player control | `mplayer.c`, `command.c` | `osd_function`, `was_paused`, `eof`, `play_tree_step`, `loop_times`, `filename` | idle, open, play, pause, run a command, next file | control part, `SlaveControl` |
| play tree | `playtree.c`, `playtreeparser.c` | tree, iterator with status stack and loop counts | step, up_step, down_step, get_file, insert, remove, replace | the iterator and who moves it, `PlayTree` |
| options | `m_config.c`, `m_option.c`, `m_property.c` | option values with save slots per level | set, push, pop, profiles | one option's slots, `Options` |
| demuxers | `libmpdemux/demuxer.c` | packet queues per stream, positions | fill, seek, chapters | packet queues planned |
| audio outputs | `libao2/ao_sdl.c`, `ao_coreaudio.c`, `ao_dsound.c` | ring buffer shared with a callback, a flag for the device | play, get_space, pause, resume, reset, render | SDL and CoreAudio, `AudioRing` |
| UDP synchronisation | `udp_sync.c` | socket, last position, time-out | master send, slave wait, seek, exit | yes, `UdpSync` |
| mixer, EDL | `mixer.c`, `edl.c` | volume, mute; list of cuts | | no: sequential, about values |
| audio filters, decoding | `libaf`, `libmpcodecs` | sample buffers | | no: numeric data flow, one thread |
| network streams | `stream/http.c`, `network.c` | sockets, headers | | no: protocol text |
| playlists, codec tables | `asxparser.c`, `codec-cfg.c` | | parse | no: text |
| terminal, timers, shared memory | `osdep/` | | | no: thin layers over the system |
| video, subtitles, GUI, menu, MEncoder, vendored and hardware code, build scripts | `libvo`, `sub`, `libass`, `gui`, `libmenu`, `mencoder.c`, `ffmpeg`, `vidix`, `loader`, ... | | | no: not part of the audio player, or third-party |

### How they interact

* The front end writes lines to a pipe.  `read_events` (input) cuts them into
  commands; keys and window events give commands too.  `mp_input_get_cmd` hands
  them to the main loop, or only shows the next one (the pause loop peeks).
* The main loop runs commands.  They change shared flags (`eof`,
  `osd_function`, `was_paused`, `play_tree_step`) that the loop reads later in
  the round, and the play tree.
* Reading a file may block: opening it, the cache's prefill, an empty cache, a
  stream control.  Blocked code calls `mp_input_check_interrupt`, which reads
  input in the middle of the operation.
* Demuxers read from the stream; with a cache, a second thread or a forked
  process fills a ring buffer that the player's thread reads, without locks.
* The audio output's callback runs on a thread of the system and shares a ring
  buffer with `play`.
* The main loop moves the play tree's iterator between files and at commands;
  the iterator pushes and pops the options of the entries it enters and leaves.
* Two players on one network stay in step by datagrams (`-udp-master`,
  `-udp-slave`); the slave's position follows the master's by waiting and seeking.

### Behaviours that are hard, and what makes each part correct

* **Stream cache.**  Two threads share seven fields and a ring without locks;
  loads and stores interleave everywhere.  The bytes that are delivered must be
  the file's; the filler and the reader must never touch the same cells; back
  bytes are kept; a control gets its own answer; reads, prefill and controls
  end; the memory should outlive the filler (section 5); an orphaned filler exits.
* **Key input.**  The fifo drops events when it is full: no key may count as
  down for ever, a click must give its command, the repeat must belong to the
  keys that are down.
* **Commands.**  Lines arrive in arbitrary pieces from several pipes, are
  peeked at, queued, filtered, and read by nested callers: none may be lost,
  doubled or reordered, and no pipe may be locked out.
* **Player control.**  Commands arrive while a file opens, ends, is paused or
  fails: the player must do what `DOCS/tech/slave.txt` says, and quit when told.
* **Play tree.**  Groups, loop counts, shuffling, sources and playlists that turn
  into lists while they are played: every entry is played as the list asks, with
  its own options and with none left over; the iterator never stands on a node
  that was removed; a step that was accepted does not end the list.
* **Audio ring.**  A callback runs between any two stores of `play`, `reset`,
  `audio_pause` and `audio_resume`: no byte lost, doubled or heard after a reset,
  the device runs when there is something to play, the last bytes are taken.
* **UDP synchronisation.**  Datagrams are lost, repeated and overtaken, either
  player may be gone: the slave must not run ahead, must find the master again,
  and must not wait for one that is no more.

Every hazard is listed in `PROJECT.json` under `hazards`, at its line.

## 2. Plan

| step | modules | composes | properties, theorems | state |
|---|---|---|---|---|
| 1 | `StreamCache`, `SeekableStream`, `StreamCacheProofs` | `StreamCache` implements `SeekableStream` | section 4; every safety property and the refinement proved | done |
| 2 | `KeyInput`, `KeyInputProofs` | | stuck keys, resets, repeat, clicks: all theorems | done |
| 3 | `CommandInput`, `CommandInputProofs` | uses that keys give whole commands | interrupts, peeks and lines kept proved; liveness checked | done |
| 4 | `SlaveControl`, `Playback`, `SlaveControlProofs` | `SlaveControl` implements `Playback`; uses `CommandInput`'s order | section 4; loops, old audio and the refinement proved | done |
| 5 | `PlayTree`, `Options`, `PlayTreeProofs` | the iterator, the options and the player that moves it | section 4; theorems on levels, save slots and where the iterator stands | done |
| 6 | `AudioRing`, `SoundQueue`, `AudioRingProofs` | `AudioRing` implements `SoundQueue` | section 4; everything but liveness proved | done |
| 7 | `UdpSync`, `UdpSyncProofs` | master, network, slave | section 4; theorems on types, `InStep`, byes | done |
| 8 | `PlayTreeProofs`, `DataLemmas` | | `IteratorInTree`, `OptionsAsListed`, `AcceptedStepPlays`, `PlaysAsAsked` for the trees the findings leave | done |
| 9 | `PacketQueues` | `libmpdemux/demuxer.c` | bounds, packets in order per stream, no false end of file | open |

Theorems are worth having where the bound matters: all sizes of the ring and the
fifo, all scripts, all trees, all interleavings of two threads.  No module uses a RECURSIVE operator.

## 3. The modules

### StreamCache

The filler and the reader each have a program counter.  Every load or store of
a field of `cache_vars_t` that the other side may see is a step of its own;
what only touches locals is merged with its neighbour.  Stores become visible
in program order (as on x86; weaker orders are not modelled).  A byte is
represented by its position in the file, so wrong data is a wrong number.

| code | actions |
|---|---|
| `cache_fill` | `Snapshot`, `Reposition`, `PlanNone`, `PlanBlock`, `Fetch`, `StoreEof`, `StoreMax`, `StoreOffset` |
| `cache_flush` | `FlushLoad`, `FlushMax`, `FlushMin`, `FlushOffset` |
| `cache_execute_control` | `ControlRefuse`, `ParentGone`, `ControlEnter`, `Refused`, `NothingAsked`, `Switch`, `Call`, `ApplyPos`, `ApplyEof`, `ControlDone` |
| `stream_enable_cache` | `Init`, `PrefillCheck`, `PrefillEof`, `PrefillSleep` |
| `cache_read`, `cache_stream_fill_buffer` | `StartFill`, `CheckMax`, `CheckMin`, `CheckEof`, `Sleep`, `Interrupted`, `LoadNewb`, `LoadPos`, `Copy` (`Copied`, `CopyCrash`) |
| `cache_stream_seek_long` | `SeekLong`, `SeekEof` |
| `cache_do_control` | `DoControl`, `Answered`, `WaitInterrupted` |
| `cache_uninit` | `StartUninit`, `AskQuit`, `Kill` |

`CopyCrash` is the `memcpy` with a negative length: it is a state of its own,
not an error of the model.  The stream below may return fewer bytes, nothing, or
fail to seek, as the constants allow.  `SeekableStream` is the abstract
specification: one sector buffer over a file; to it the buffer is empty while a
read is under way and once the player was killed.  Seeks of the stream below that
fail (`SeekErrors`) and reads that fail (`ReadErrors`) are in the module, but in
no run: with either the cache delivers wrong bytes (section 5), and section 6
says which properties hold even then.  The filler's loads and the reader's stores of
`control` and `control_arg` (`cache2.c:305`, `634`) are one step in `Switch` and `Ask`;
that could only matter to a control asked for while one that was interrupted is
still in the mailbox, which is in no run.

### KeyInput

`put_key` is `mplayer_put_key` with `mplayer_put_key_internal`'s drops, reserve
and reset; `read_keys` is the key half of `read_events` with `interpret_key` and
`check_autorepeat`.  A key code is a record of the key and its two flags; the
fifo is a sequence, its two counters appear as its length only (they are
unsigned and wrap at 2^32).  Whether a delay has elapsed is a choice.
`mp_input_key_cb` (the menu's; there is none in this player) is not modelled:
a release that it takes would leave its key down (`input.c:1143`).
`ClickGivesCommand` shows that a fifo of size 2 keeps both codes of a click, as
the comment at `mp_fifo.c:45` means it to for the wheel; `mplayer.1:1159` says that a
fifo of size n buffers n - 1 events.

### CommandInput

`get_cmd` is `mp_input_get_cmd`, as the set of its outcomes; `read_events`,
`read_cmd`, `parse_cmd`, `queue_cmd` and `Filtered` are the functions it calls.
`read_events` looks at the open pipes (`Open`), takes for each what a read may
give (`Reads`) and goes through them in the order of their slots up to the first
that gives a command (`ReadPipes`).
`Get` is the main loop's call, `Peek` the pause loop's, `CheckInterrupt` and
`RemoveCmd` are the two calls of `mp_input_check_interrupt`, between which
events and signals may come.  A line is a sequence of tokens, each as long as
one byte of the buffer; `\r`, prefix matching of names, arguments, and errors of
a pipe other than its end are left out.

### SlaveControl

| code | actions |
|---|---|
| the idle loop (`mplayer.c:3130`) | `Idle` |
| opening: stream, cache, demuxer | `Opened`, `OpenFails`, `DemuxFails` |
| `mp_input_check_interrupt` in a blocked read | `Interrupt` |
| `libmpdemux_was_interrupted` | `WasInterrupted` |
| the main loop | `Frame`, `RunCommand`, `NoCommand`, `Round` |
| `pause_loop` | `PauseLoop` |
| `goto_next_file` | `NextFile` |
| `run_command` and the prefixes | `run_command`, `Effect`, `Pausing` |

The history variables `moved`, `expect`, `times`, `plays` and `starts` are read
by properties only.  The play tree is a flat list of entries with one file each;
there is no video, no GUI, and no position inside a file, so a seek only sets
`osd_function`, and that only if it is relative.  The `loop` command is left out.  `get` stands for the commands that change none of this state.
`stop` with `pausing_keep_force` is not modelled; `pt_up_step`, `alt_src_step` and
`loadlist` are in `PlayTree`.  `Playback` is what `slave.txt` promises; `View` maps the player to
it: the current entry is the one the player is about to be on, and paused mode
is being in the pause loop or about to enter it.

### PlayTree and Options

The three step functions of the iterator call each other in tail position, so
`call` holds the activation that runs and each action is one activation.

| code | actions |
|---|---|
| `play_tree_iter_step` | `StepEnter`, `StepRoundOver`, `StepAround`, `StepUp`, `StepList`, `StepInvalid`, `StepEntry` |
| `play_tree_iter_up_step`, `_down_step` | `UpEnd`, `UpStep`, `DownStep` |
| `main`: start, idle loop, open, play, `goto_next_file` | `Started`, `IdleLoad`, `IdleSet`, `Opens`, `OpenFails`, `FileEnds`, `NextFile`, `Stepped`, `GetFile`, `NextAgain` |
| `playtree_add_playlist` | `OpenList`, `ListRead` |
| `run_command` | `PtStep`, `PtUpStep`, `Tried`, `AltSrcStep`, `LoadAppend`, `Load`, `Rewound`, `Headed`, `Stop`, `Stopping`, `SetOption` |

Trees are the set `Trees` of command lines and grow by what playlists parse to
(`ListOf`, `Content`).  `OpenList` leaves out the test of
`allow_playlist_parsing` (`mplayer.c:3268`): a playlist that is refused is left as
a file is that cannot be demuxed.  `Options` is one option of `m_config.c` with its save
slots.  A command is obeyed at once: pausing and timing are `SlaveControl`'s.
The histories `asked` (the orders the command line asks for) and `hist` are kept
until the first command, `own` and `base` say what the option should be.

### AudioRing and SoundQueue

One model of three outputs, told apart by `driver`: `coreaudio` and `digital` are
the two callbacks of `ao_coreaudio.c`, `sdl` is `ao_sdl.c`.  Every store of
`AVFifoBuffer`'s indexes and pointers and of `ao->paused` that the other thread
can see is a step of its own; as `wptr` and `wndx` are only read by their own
side or together, `Publish` and `Drain` store both at once.

| code | actions |
|---|---|
| `fill_audio_out_buffers`, `mp_decode_audio` | `Fill`, `Decode`, `FillDone`, `Played` |
| `play`, `write_buffer`, `av_fifo_generic_write` | `Restore`, `Play`, `CopyIn`, `Publish` |
| `audio_pause`, `audio_resume`, `reset` and their callers | `Pause`, `Unpause`, `Seek`, `Stop`, `Reset`, `Resume`, `ResumeDone` |
| `theRenderProc`, `RenderCallbackSPDIF`, `outputaudio`, `read_buffer` | `Render`, `ReadBuffer`, `CopyOut`, `Drain`, `SelfStop`, `SelfFlag` |

A byte is its number since the last reset, so a lost, doubled or stale byte is a
wrong number.  `SoundQueue` is what `DOCS/tech/libao2.txt` promises: a bounded
queue that is heard in order.  Assumed: the stores of one thread are seen in
program order, and the calls that stop a device wait for a callback that runs
(`StopWaits`; section 5 has SDL 1.2, which does not).  `Unpause` resets or resumes
without looking at `mpctx->eof`, which a command may have set: either may happen
at the end of any pause.  A change of the audio format in the middle of a file
(`mplayer.c:2163`, `2206`: play what is left, then open the output anew) is left out.

### UdpSync

A master (`MasterFrame` ... `MasterDies`) and a slave (`SlaveSkips`, `SlaveSyncs`,
`SlaveWakes`, `SlaveTimesOut`) joined by `chan`, the slave's socket.  `Network`
loses a datagram, delivers it, delivers it twice, or lets it overtake the one
before.  Positions are frame numbers; the 30 seconds are a choice.
The code is called for files with video only (`sh_video`; `mplayer.c:2234`, `2301`,
`2612`): it is built into this player, but a file without video does not reach it.
A datagram that is not a number, which `get_udp` reports as an error after storing what it
could read of it (`udp_sync.c:138`), is left out: nothing sends one.

## 4. The runs

| run | instance | shows |
|---|---|---|
| `cache_seeks` | ring of 8, file of 17, sectors of 2; forward seeks at any time, backward seeks when the filler is at the top of its loop; forked, short reads | `FillInBounds`, `KeepsBackBytes`, `WindowIsFile`; the cache implements `SeekableStream` (`ReadsAsStream`) |
| `cache_thread` | a thread, two controls, fairness | `TypeOK`, `ReadPosAgrees`, `AnswersItsCommand`, and that the prefill, reads and controls end |
| `cache_forked` | ring of 6, file of 13; interrupts, and the player may be killed, fairness | `CopySafe`, `DeliversFileBytes`, `OrphanExits` |
| `cache_race` | backward seeks at any moment | violation: finding 1 |
| `key_fifo` | fifos of 2 and 4, four keys, room for 2 keys down | `TypeOK`, `NoStuckKeys`, `RepeatsHeldKeys`, `ClickGivesCommand` |
| `commands` | two pipes, buffers of 4, keys, window events, a filter, a signal, a queue of 2, two interrupt checks, fairness | `LinesKept`, `StopsAreRun`, `ShownIsNext`, `AllTaken` |
| `control_waiting` | all scripts of four out of thirteen commands, sent one by one | `ImplementsPlayback` |
| `control_piped` | all scripts of three out of ten commands, sent at any time; three lists, loop option -1, 0 and 3, blocking reads, fairness | `LoopsCounted`, `NoOldAudio`, `QuitExits`, `AllConsumed` |
| `tree` | five command lines, up to three commands at any moment, fairness | `LevelsBalanced`, `IteratorInTree`, `OptionsAsListed`, `PlaysAsAsked`, `AcceptedStepPlays`, `PlayerGoesOn` |
| `audio` | three outputs, ring of 4, callbacks of 1 and 3 bytes, indexes modulo 10, fairness | `TypeOK`, `RingIntact`, `SpaceIsThere`, `AllHeard`; the outputs implement `SoundQueue` |
| `audio_stuck` | CoreAudio | violation: finding 2 |
| `udp` | a file of six frames, two key frames, a threshold of two frames, room for two datagrams, fairness | `InStep`, `FollowsMaster`, `EndsWithMaster` |

### The bounds and why they are enough

* The ring has two to four sectors and the file is more than twice as long, so
  that the window moves, wraps, ends in the middle of a sector and is flushed.
  `FillInBounds` and `KeepsBackBytes` are proved for all sizes and environments, the other safety properties of the cache
  for all sizes and the environments section 6 names.  `cache_forked` has one target that
  leaves the window; section 5 says what two do.
* A fifo of 4 has a reserved half, a last slot and room before them, 2 has only
  a reserved slot and the last one.  Two keys report pushes, so that `key_down`
  is exactly full at most (section 5 has the instance with one more).
* `MaxSize` 4 makes lines that are short, fit exactly, and are one too
  long.  A queue of 2 is full after two peeks.  `Checks` bounds the calls of
  `mp_input_check_interrupt`, and `MaxKeys` the commands of keys, because each may
  queue one; with keys for ever pipes need not be read (`input.c:1313`).
* Scripts of three or four commands hold every pair and triple of commands in
  every state of the player.  `starts` stops counting one above the loop
  count.  `control_waiting` leaves out what section 5 says goes wrong:
  `pausing_keep` or `pausing_keep_force` before `loadfile`, and back steps that are
  not forced.
* The trees have nested groups, loop counts on the root, on a group and on both,
  a shuffled root, an entry with three sources, files that cannot be opened or
  demuxed, a playlist that becomes a list and one that is empty, at the start,
  in the middle and as the only entry of a group.  Two commands meet in every
  state of the iterator, a third follows.  Section 5 has the trees left out.
* The audio ring is full, empty, wraps in the middle of a piece; `MaxOutburst` is
  less than the ring, so that filling takes two turns; ten is not a multiple of
  four, as 2^32 is none of CoreAudio's buffer length.
* In `udp` a seek lands up to three frames back, one more than the threshold:
  the slave can just reach its master.  Two datagrams in the socket are enough
  for one to overtake another and for a bye behind a position and before one.

### Fairness

* `StreamCache`: weak fairness of each side: the filler's loop never blocks for
  ever and the player finishes the call it made (`ReaderNext`, not `Requests`:
  nothing forces it to make one).  Strong fairness of `ParentGone`: a filler
  that goes round its loop does the check every 100 ms.
* `CommandInput`: the front end writes what it has to and closes; the main loop
  keeps calling `mp_input_get_cmd`.  Nothing is assumed of peeks.
* `SlaveControl`: the front end goes on writing, the player's loops have no
  step that waits for ever except for a command.  Nothing is assumed of how
  long a file lasts or of whether a read is interrupted.
* `PlayTree`: a step that was begun goes on.  No command and no end of a file is
  assumed.
* `AudioRing`: the player's thread finishes what it began (`PlayerStep`, not
  `PlayerChoice`), and the system calls the callback of a running device.
* `UdpSync`: the slave runs (its blocking read has a time-out).  Strong fairness
  of an arrival while the master is paused: it repeats its position every 20 ms,
  and a network that loses all of them would be no network.

## 5. Findings

1. `cache_race`: a backward seek inside the window, after `cache_fill` has
   loaded `read_filepos`, lets the filler overwrite bytes that are being
   delivered (`cache2.c:22`, "doesn't require locking").
2. `audio_stuck`: `audio_resume` starts the unit, the callback finds the buffer
   empty and pauses the unit, then `audio_resume` stores that it is not paused
   (`ao_coreaudio.c:1248`).  The unit is stopped, and the next `play` believes it
   runs: no sound until a pause or a seek.  A pause after a seek, ended before
   anything was decoded, leads there.

Other disagreements, each stated by a property of the modules that holds in the
runs or is in none; with the constants given, TLC finds it violated:

| property | constants | what happens |
|---|---|---|
| `DeliversFileBytes` | `cache_forked` with `BufferSize`, `SeekLimitArg`, `PrefillArg` 4, `BackSize` 2, `Targets {6, 12}` | a second seek leaves the window while the filler follows the first, whose read was interrupted: `cache_flush` loads the new position (`cache2.c:118`), the stream is seeked to the one loaded before (`cache2.c:197`), and the window labels bytes of the first place with the second |
| `ReadsAsStream` | `cache_seeks` with `ReadErrors = TRUE` | a read that fails lets the reader seek again while the filler follows the first seek: the same wrong labels |
| `DeliversFileBytes` | `cache_seeks` with `SeekErrors = TRUE` | a seek of the stream that fails leaves it where it was, its result is ignored (`cache2.c:197`): the window labels bytes of the old place with the new |
| `FreedAfterExit` | `cache_thread` | a thread acknowledges the quit it has not tested for (`cache2.c:275`); `cache_uninit` frees the memory while it runs on |
| `ReadPosAgrees` | `cache_thread` with `Interrupts = TRUE` | an interrupted control stays in the mailbox, is executed later and moves `read_filepos` (message of `cache2.c:568`) |
| `PrefillEofMeansSmall` | `cache_thread` with `FileSize = 2`, `Targets {}` | the fill level is loaded before `eof`; the prefill gives up on a file that is not smaller (`cache2.c:527`) |
| `OrphanExits` | `cache_forked` with `HasControl = FALSE` and no commands | `cache2.c:283` returns before the check of the parent (`cache2.c:296`) |
| `KeysFit` | `key_fifo` with three keys that report pushes | `input.c:1152` tests `>` where `input.c:1178` tests `>=`: one key too many is stored |
| `CommandsAreRun` | `commands` | `mp_input_check_interrupt` frees a command that does not interrupt, `input.h:294` says commands are put back |
| `QuitInterrupts` | `commands` with five checks | the quit of a signal is queued by every check until the queue is full; then the check answers no |
| `PausedAsAsked` | `control_waiting` with `Waits = FALSE` | `was_paused` outlives the pause until the end of the round (`mplayer.c:4004`) |
| `PausedAsAsked` | idle player, `pausing_keep loadfile` | the idle loop takes any prefix for `pausing` (`mplayer.c:3160`) |
| `ImplementsPlayback` | `control_waiting` with `Scripts <- MCForward`, `LoopTimes <- MCForever`, `IdleMode = FALSE` | with a loop count `pt_step 1` restarts the current file, since `PT_NEXT_ENTRY` is also the value that means "at the end" (`mplayer.c:4007`; `slave.txt:254`: "next/previous entry") |
| `ImplementsPlayback` | `control_waiting` with the script `pt_step -1` | in the round in which the first file ends, `command.c:2801` overwrites `play_tree_step` and the list is left (`slave.txt:255`: "do nothing") |
| `ImplementsPlayback` | a first file that cannot be opened, `loadfile` sent without waiting | `libmpdemux_was_interrupted` takes the `loadfile` and frees it (`mplayer.c:1007`) |
| `EntryHasFiles` | `tree` with `Trees <- MCEmptyFirst` | a group whose only entry was an empty playlist comes first: the rewind of `loadfile` or `stop` takes the root for an entry, because a list is known by its first child and an entry by any (`playtree.c:622`, `660`), and reads the files of a node (`playtree.c:640` asserts there are some) |
| `OptionsAsListed` | `tree` with `Trees <- MCSecondName` | an option given under its second name is saved in the slot that was the newest when the option was added, so it is not restored after its entry and stays for the next ones (`mplayer.1:46`: options belong to the file they follow) |
| `OptionsAsListed` | `tree` with `Trees <- MCShuffledOptions` | a shuffled list with options, all of it played: the step ends the list at once (`playtree.c:597`) instead of going up, so nothing pops the list's options, and the idle player keeps them |
| `PlaysAsAsked` | `tree` with `Trees <- MCShuffledGroups` | a shuffled group in a list, or a group in a shuffled list, is not played in full (`mplayer.1:1325`) |
| `PlaysAsAsked` | `tree` with `Trees <- MCShuffledLoop` | a shuffled list with a loop count is played one time more than it says (`mplayer.1:1178`) |
| `AcceptedStepPlays` | `tree` with `Trees <- MCShuffledTried` | a shuffled group in a list with a loop count, all of the group played: the step that is tried starts the whole list again and counts its loop down in the tree itself (`playtree.c:599`), so the copy finds an entry and the real step, for which the loop is used up, ends the list (`command.c:2790`) |
| `PlayerGoesOn` | `tree` with `Trees <- MCBackToEmpty` | a step back onto a group that became empty is repeated for ever (`playtree.c:636`) |
| `IteratorInTree` | `tree` with `Trees <- MCOnlyEmpty` | an endless list of nothing but an empty playlist: the step comes back to the entry that is then freed, and the iterator keeps it (`mplayer.c:1044`) |
| `IteratorInTree` | `tree` with `Trees <- MCShuffledLoad` | a `loadfile` in a shuffled group of a shuffled list, all of both played: the rewind's step answers "end" inside the group and the rewind stops there; `pt_iter_goto_head` (`playtree.c:951`) puts the iterator at the root with the group's status still on its stack |
| `RingIntact`, `ImplementsSoundQueue` | `audio` with `Drivers {"sdl"}`, `StopWaits {}` | SDL 1.2's `SDL_PauseAudio` does not wait for the callback: `reset` (`ao_sdl.c:267`) stores the indexes under it, `av_fifo_drain` moves `rndx` past `wndx`, and the next callback copies a negative size.  SDL 2 and its compatibility library wait |
| `FollowsMaster` | `udp` with `KeyFrames {0}` | a seek lands further back than `udp_seek_threshold` from the master's frame: the slave seeks to the same key frame again and again and never shows it (`mplayer.1:1389`: 1 second "should almost always be left") |

## 6. What is proved

`StreamCacheProofs`, for every value of the constants that satisfies
`SizesAssumption` (the sector fits the fill limit, fill limit and back size fit
the ring) and `EnvironmentAssumption` (the flags are Booleans, only a forked
filler survives its player), hence in every environment the constants describe:

* `TypeCorrect`: `[]TypeOK`.  The lemmas go by owner: a step of the reader
  leaves the filler's variables alone and the other way round (`SharedFrame`,
  `FillerFrame`, `ReaderFrame`), so each action is shown to keep only the types
  it touches.
* `FillStaysInBounds`: `[]FillInBounds`.  `FillInBounds` speaks of the moment of
  the read and is not inductive.  `FillerInv` adds what holds between: where in
  the ring the next byte goes (`max_filepos - offset`) at each step of a flush
  and of the three stores, and that the window never exceeds the ring.
  `ReaderLeavesFiller` shows that no step of the reader touches any of it, which
  is why it holds under every interleaving; `BlockFits` and `WindowFits` are the
  arithmetic of `cache_fill`.
* `BackBytesKept`: the action property `KeepsBackBytes`, from the same
  invariant and `NewMinKeepsBack`.
* `AnswersBelong`: the action property `AnswersItsCommand`, for a stream with
  controls and a player that waits.  `MailInv` follows a command through the
  mailbox: `Asked` says that the player waits exactly while its command lies
  there or is being served, `Taken` that what the filler copied is still what
  lies there, and that the answer left behind names it.  An interrupted player
  leaves its command behind and asks again; without controls a filler that
  refuses twice may overwrite the answer to a quit.
* `PositionsAgree`: `[]ReadPosAgrees`, unless a seek by time that was interrupted
  is carried out later.  `PosInv` says by how much the two positions differ in
  the middle of a call.
* `CopiesAreSafe`: `[]CopySafe` in the environments `Careful`: the player waits
  and its backward seeks find the filler at the top of its loop, or it moves
  forward only and may give up waiting.  Finding 1 is what happens otherwise.
  `CopySafe` speaks of the moment of the copy; what carries it there is
  `ReachInv`.  `Behind`: the position the filler works for is never ahead of the
  player, and while the old window is being dropped the player is outside it and
  cannot get in: it is `Lagging`, stuck in a read that starts before the window,
  or past its end.  `Inside`: once it is past its two tests, the player's next
  bytes are in the window, none of the filler's three stores of a flush is still
  to come, and the ring position it computes from a stale `offset` is wrong by
  one buffer length at most, which it corrects.  The filler's side is
  `FillerInv`; that the two regions are disjoint is then arithmetic modulo the
  ring.  `cache_forked` is an instance of the second kind of environment.
* `FileBytesDelivered`: the action property `DeliversFileBytes`, in the
  environments `Tidy`: the player waits, backward seeks are as above, the stream
  neither ends early nor fails to seek.  TLC finds wrong bytes without any one of
  them, on `cache_seeks` with that constant changed.  `Contents` says that the
  window's cells, and those just read, hold the bytes of their positions;
  `StreamPos` that the stream stands where the window ends, except while the
  window is being moved, and then the player is stuck or waits; `Handed` that
  what a read has collected starts at its position.  Seeks past the end of the
  file need `SamePlace`: a read there ends at once, so the player may be off to
  another place before the filler has followed, but past the end as well.
  (`cache_forked` checks the property with interrupts, which the theorem
  excludes: it holds there because no second seek leaves the window.)
* `WindowKeepsFile`: `[]WindowIsFile`, in the environments `Tidy`, which is
  `Contents` at every step but the one between two stores of a flush: also the
  back bytes that nobody has asked for are right.
* `CacheIsStream`: `ReadsAsStream`, the refinement, in the same environments.  It
  combines all of these: a read is what `CopiedBytes` says, a seek by control
  lands where it was asked to (`TakenOver`, from `TargetInv` on the mailbox), and
  every other step of reader or filler changes nothing the player sees or drops
  the sector buffer.

`KeyInputProofs`, for every fifo size the option allows, every
`MP_MAX_KEY_DOWN` and all keys and bindings (`KeyAssumption`): every invariant
of the run `key_fifo` is a theorem, and that resets are never next to each other.

* `KeyTypesKept`, `NoKeySticks`, `ResetsStayApart`: from `Inv`, which adds to
  `TypeOK` and `NoStuckKeys` what the argument needs.  `FifoInv`: a full fifo
  ends in a reset, and `previous_down_key` knows whether the last code is one;
  so a release that is dropped finds a reset behind every push.  `Distinct`: a
  key is in `key_down` once, so that closing one gap releases it.  `NoDoubles`:
  the push of a double-click code that is ignored was never stored.
  `PutSticksNone`, `ReleaseFrees` and `PopSticksNone` are the three ways the fifo
  changes.
* `RepeatIsOfHeldKeys`: inductive given the types.
* `ClicksCount`: two puts and two takes, computed for every fifo size; the
  smallest, 2, is where the release goes into the last slot.

`PlayTreeProofs`, for all trees, playlists and commands (`TreeAssumption`):

* `SlotsInOrder`: `[]InOrder(cfg)`, one slot for the defaults and one per level,
  never without a level.  It rests on `LevelsAreBalanced`: a level that is popped
  is above `floor`, which is at least 1.
* `PopUndoesPush`: of an option in order, hence in every state: after a push, an
  entry's setting under the option's first name and anything a command stores in
  the variable, `m_config_pop` restores the variable, the slots and the level.
* `LevelsAreBalanced`: `[]LevelsBalanced`.  Its invariant `LevelsInv` adds only
  the shapes (the level is a number, an iterator has its fields, its stack is a
  sequence, an entry has pushed no level or one): each activation of a step pops
  and pushes as its own stack changes, so nothing is owed between actions.
  `CopyStep` shows that trying a step never touches the configuration,
  `LeavingPreserves` that every way out of an entry pops once.
* `IteratorStaysInTree`: `[]IteratorInTree`, for what `WellGrown` says of trees
  and playlists: some rank falls from every node to its children and the root
  stands above all others; what `play_tree_cleanup` leaves of a command line is a
  tree; a shuffled list holds only media files and is given only such by commands;
  no playlist is empty.  `MCGrown` evaluates it on the trees of the run, which
  have the empty playlist `e` besides.  Section 5 has what happens without
  the last two.  The invariant, `TreeInv`, says that the tree stays a tree
  (`Grows`: one parent and one place for every node, nothing left over outside)
  and shuffled lists stay calm under every insertion and removal; that the
  iterator stands as deep as its stack (`Stands`), on an entry wherever one is opened
  (`Opening`); what a call may still do, so that a rewind ends at the root
  and nowhere else (`Calls`, `Rewinds`); and that the node a playlist replaces is
  still there, left by the iterator, when it is unlinked (`Replaces`).  Nodes at a
  depth, subtrees and validity are recursive functions; `DataLemmas` unfolds them
  and gives the inductions by least depth and least rank.
* `OptionsStayListed`: `[]OptionsAsListed`, for what `FitOptions` and `Filling` say of
  command lines and playlists: no list but the whole one is empty, a parser makes
  a flat list of entries, the lists above a shuffled one have no options, and options
  are given by their first names.  `MCFitting` evaluates it on the trees of the run.
  Section 5 has what the second name and the options of a shuffled list do
  (`MCSecondName`, `MCShuffledOptions`).  The invariant, `OptInv`, says of each level the iterator has
  pushed which value its slot holds: the option's value on the way down to that node (`Holding`);
  that only an iterator on an entry has the entry's level (`Settled`); that a list
  which ended has none left (`Answered`); and that a playlist's list is not the
  last to be stepped over when its entry is unlinked (`Filing`).
* `AcceptedStepsPlay`: `[]AcceptedStepPlays`, for trees in which nothing is shuffled
  or the whole list is gone through once (`FitTries`); section 5 has what happens
  otherwise (`MCShuffledTried`).  Where an activation of a step
  goes depends on its spot only: the function, the direction, the node, the loop
  counter and the stack (`Onward`, `StepOutcome`).  `Leads` says of a spot that some number
  of activations on there is an entry.  What the copy finds leads back to where it
  set out (`LeadsBack`), and the iterator, which sets out from there, follows it forward
  (`LeadsOn`).  `TryInv` adds that the tree is `Steady` meanwhile: what a step marks
  or counts down does not change where spots lead.
* `ListsPlayAsAsked`: `[]PlaysAsAsked`, for what `FitOrders` says of command lines:
  no list but the whole one is empty, and only the whole list may be shuffled, when it has
  no loop count.  `MCFitting` evaluates it on the trees of the run; section 5 has what
  other shuffled lists do (`MCShuffledGroups`, `MCShuffledLoop`).  Groups may be nested
  and gone through again at will.  Until the first command the player only opens, plays and
  steps on (`Steered`, `GoesOn`).  For an unshuffled list the two recursions of `Orders` ask for
  one order (`OrderedIs`), kept with what is left of it after every child and every pass
  (`Remainders`).  `Due` adds up along the iterator's stack what is left of every list
  it is in, `Owes` says the same of each spot of a walk, and `Followed` is the
  invariant: what was played, and what is owed, make the order that is asked for.  An activation
  of a step that goes on owes what was owed (`OwesOnward`), one that finds an entry owes
  what comes after it (`OwesEntry`), one that ends the list owes nothing (`OwesEnd`).
  For a shuffled list the invariant is `Drawn`: the entries that are marked as played are those
  that were, each once, and the player is idle only when all are.  `ShuffledAsks` shows that every order of the
  entries is asked for, `DrawnGoesOn`, from the library's facts on cardinalities, that
  what has been drawn begins one of them.

`UdpSyncProofs`, for every file, set of key frames, threshold and socket
(`UdpAssumption`), under every loss, repetition and overtaking of `Network`:

* `UdpTypes`: `[]TypeOK`.
* `SlaveStaysInStep`: the action property `InStep`.  The invariant `Announced` is
  why it holds: nothing in the socket and nothing the slave believes is ahead of
  the furthest announced position, and a slave that synchronises is past frame 0.
  `NetworkDelivers` says what a send can do to the socket, `GetUdp` what a read
  takes from it, `LandingIsFrame` that a seek has where to land.
* `ByesEndSlaves`: `ByeIsObeyed`, the safety part of `EndsWithMaster`.

`CommandInputProofs`, for all pipes, scripts, keys, filters and bindings
(`CommandAssumption`), from one invariant, `CommandInv`:

* `CommandTypes`: `[]TypeOK`, with it that no pipe's buffer and not the queue
  ever hold more than they have room for.  `Values` and `BuffersFit` follow a
  pipe's bytes through `read_cmd`, whatever the sizes of the pieces they come in.
* `LookIsPromise`: `[]ShownIsNext`.  It needs that a look puts what it found at
  the head of the queue, and that everything else that arrives is appended.
* `StopsReachMainLoop`: `[]StopsAreRun`.  `Removing` is why: between the two
  looks of `mp_input_check_interrupt` the command at the head is the one that was
  seen, and it is one that stops nothing.
* `NoLineIsLost`: `[]LinesKept`.  Each part of the input code is shown to give
  what it takes away (`Yield`): `GetData` moves bytes, `Find` takes one line off
  the text or starts or ends a drop, a round over the pipes hands on one command
  of one pipe, the queue hands on its head, and a command a filter grabs belongs to
  none.  The invariant, `LinesInv`, adds where bytes come from (`Sources`: a pipe
  holds only its own text, so that its commands can be told from another's) and
  that only commands no filter grabs are queued (`QueueKept`).

`DataLemmas` holds what these proofs need of numbers and sequences.  The library's
induction theorems cannot be cited here, so induction is the least element of a
set (`LeastNatural`, `LeastRanked`), and `Recursion` says that a function
defined by a step from a smaller argument exists; `CmdsIs` and `OfIs` unfold
the two recursive functions of `LinesKept` by it, `OrdersAre` and `JoinedIs`
those of `Orders`.

`SlaveControlProofs`, for all scripts, lists and loop counts (`ControlAssumption`):

* `ControlTypes`: `[]TypeOK`.
* `LoopsAreCounted`: `[]LoopsCounted`, from `ControlInv`, whose part `Counting`
  relates the plays begun, the plays asked for and `loop_times`: 0 stays 0, so a
  file that is to be played for ever is not left at its end.
* `OldAudioIsGone`: the action property `NoOldAudio`.  `AtStart`: nothing has moved
  on from a file that is only being opened, so only the pause loop could start the
  device again, and it is left as soon as a command moves on.
* `PlayerObeys`: `ImplementsPlayback`, the refinement, for a front end `InTurn`:
  it sends one `Plain` command at a time and waits, there is no loop count and
  no read that can be interrupted.  Each kind of command that `Plain` leaves out
  breaks the refinement, by TLC on `control_waiting` with that command in
  its scripts: a prefixed `pause`, `pausing_toggle get`, `pausing_keep_force` before
  `pt_step` and a back step that is not forced, `pausing_keep` or
  `pausing_keep_force` before `loadfile`.  `Follow` is the invariant: the command
  is done with before the file is left, and between two commands no flag is
  left over (`was_paused`, `play_tree_step`, `eof`).

`AudioRingProofs`, for all buffer lengths, outbursts, requests of the callback and
ranges of the indexes (`AudioAssumption`), for outputs whose calls that stop the
device wait for a callback that runs (`AllStopsWait`; section 5 shows what SDL 1.2,
which does not wait, does to the ring):

* `AudioTypes`, `RingStaysIntact`, `PlayTakesWhatFits`: from `AudioInv`.  `Returns`
  says where each call of the player's thread came from, and that the device is
  stopped and the callback idle while the ring is reset.  `Reads`: what the
  callback has looked up stays there, since only it takes bytes out.  `Room`: what
  `get_space` returned is still free, since only the player puts bytes in.
  `Numbers`: each byte in the ring, published or not, is the one its index says.
* `OutputsKeepThePromise`: `ImplementsSoundQueue`, the refinement of the queue
  that `libao2.txt` promises, step by step from the same invariant.

Every safety property the runs check is stated by one of these theorems, under the
conditions told.  Only model-checked: all liveness, which is beyond the prover.

## 7. What is not modelled

Besides the components marked "no" above: `cache_fill_status` (reports the fill
level), `mp_input_parse_cmd`'s arguments, the key bindings file, the drivers'
tables, read errors of pipes, properties and OSD commands, seeking inside a
file, chapters, EDL, the parsers of playlists and the building of the tree from
the command line, `uninit` of the audio outputs, volume, the pushed outputs
(`ao_dsound`, ALSA, OSS: the system buffers), the packet queues of the demuxers,
weak memory ordering, and the counters of the key fifo beyond their difference.
A filler that is killed alone, the sector buffer after a control that moved the
position (`cache2.c:690`), and pipes in error state (`input.c:1343`) are hazards
the models do not reach.  Most of the repository is third-party code (FFmpeg,
libass, codecs, drivers) that the player calls and this project takes as given.
