------------------------------ MODULE AudioRing ------------------------------
(***************************************************************************)
(* An audio output that is pulled: libao2/ao_coreaudio.c (analogue and     *)
(* digital) and libao2/ao_sdl.c.  The player's thread decodes, and play()  *)
(* puts bytes into an AVFifoBuffer; a callback on the system's audio       *)
(* thread takes them out.  There is no lock: one side stores wndx and      *)
(* wptr, the other rndx and rptr, and reset() stores all four.  CoreAudio  *)
(* also keeps a flag "paused" that both sides store.                       *)
(*                                                                         *)
(* The stores of one thread are seen in the order of the source.           *)
(***************************************************************************)
EXTENDS Integers, Sequences

CONSTANTS
  Drivers,      \* subset of {"coreaudio", "digital", "sdl"}
  StopWaits,    \* the drivers whose stop call waits for a running callback
  BufferLen,    \* BUFFSIZE, or num_chunks * chunk_size
  Outburst,     \* CHUNK_SIZE, to whose multiples SDL's play() rounds
  MaxOutburst,  \* MAX_OUTBURST, 65536
  ShortDelay,   \* the bytes that are heard in .04 seconds
  Requests,     \* how much a callback may ask for
  IndexMod      \* 2^32, the range of wndx and rndx

ASSUME AudioAssumption ==
  /\ Drivers \subseteq {"coreaudio", "digital", "sdl"} /\ StopWaits \subseteq Drivers
  /\ {BufferLen, Outburst, MaxOutburst} \subseteq Nat \ {0} /\ ShortDelay \in Nat
  /\ Requests \subseteq Nat \ {0}
  /\ IndexMod \in Nat /\ IndexMod >= 2 * BufferLen + 2

VARIABLES
  driver,
  buffer, wptr, rptr, wndx, rndx,     \* AVFifoBuffer
  running,                            \* the system calls the callback
  paused,                             \* ao->paused
  upc, back,                          \* the player, and where a call returns to
  a_out_buffer_len, next,             \* decoded bytes, number of the first one
  ended,                              \* d_audio->eof
  bytes_to_write, playsize, final,    \* fill_audio_out_buffers
  cpc, amt, chunk                     \* the callback

fifo     == <<buffer, wptr, rptr, wndx, rndx>>
unit     == <<driver, running, paused>>
filling  == <<a_out_buffer_len, next, ended, bytes_to_write, playsize, final>>
player   == <<upc, back, filling>>
callback == <<cpc, amt, chunk>>
vars == <<fifo, unit, player, callback>>

\* av_fifo_size, an int made of a uint32_t difference; av_fifo_space.
Size ==
  LET d == (wndx - rndx) % IndexMod IN IF d < IndexMod \div 2 THEN d ELSE d - IndexMod
get_space == BufferLen - Size
Cell(i)   == i % BufferLen
Content   == [i \in 1 .. Size |-> buffer[Cell(rptr + i - 1)]]

Least(a, b) == IF a < b THEN a ELSE b

\* After init: CoreAudio calls reset(), SDL starts with an empty buffer.
Init ==
  /\ driver \in Drivers
  /\ buffer = [c \in 0 .. BufferLen - 1 |-> 0]
  /\ wptr = 0 /\ rptr = 0 /\ wndx = 0 /\ rndx = 0
  /\ running = (driver = "sdl") /\ paused = (driver # "sdl")
  /\ upc = "main" /\ back = "main"
  /\ a_out_buffer_len = 0 /\ next = 0 /\ ended = FALSE
  /\ bytes_to_write = 0 /\ playsize = 0 /\ final = FALSE
  /\ cpc = "idle" /\ amt = 0 /\ chunk = <<>>

----------------------------------------------------------------------------
\* fill_audio_out_buffers: how much fits, then piece by piece.
Fill ==
  /\ upc = "main" /\ upc' = "fill"
  /\ bytes_to_write' = get_space /\ final' = FALSE
  /\ UNCHANGED <<fifo, unit, back, a_out_buffer_len, next, ended, playsize, callback>>

FillDone ==
  /\ upc = "fill" /\ bytes_to_write = 0 /\ upc' = "main"
  /\ UNCHANGED <<fifo, unit, back, filling, callback>>

\* mp_decode_audio: what there is afterwards, and whether the end was noticed.
Decoded(len) ==
  IF a_out_buffer_len >= len THEN {[have |-> a_out_buffer_len, eof |-> FALSE]}
  ELSE IF ended THEN {[have |-> a_out_buffer_len, eof |-> TRUE]}
  ELSE [have : a_out_buffer_len .. len + 1, eof : BOOLEAN]

Decode ==
  /\ upc = "fill" /\ bytes_to_write # 0
  /\ LET len == Least(bytes_to_write, MaxOutburst)
     IN \E d \in Decoded(len) :
          /\ bytes_to_write' = bytes_to_write - len
          /\ a_out_buffer_len' = d.have
          /\ ended' = (ended \/ d.eof)
          /\ playsize' = Least(len, d.have)
          /\ final' = (final \/ (d.eof /\ d.have < len))
          /\ upc' = IF d.have = 0 THEN "main" ELSE "play"
  /\ UNCHANGED <<fifo, unit, back, next, callback>>

\* StreamListener reported another format: play() resets first.
Restore ==
  /\ upc = "play" /\ driver = "digital"
  /\ upc' = "stop" /\ back' = "play"
  /\ UNCHANGED <<fifo, unit, filling, callback>>

\* play() and write_buffer: how much is taken.
RoundedAlways(len) == IF driver = "sdl" THEN (len \div Outburst) * Outburst ELSE len
Rounded(len) ==
  IF driver = "sdl" /\ ~final THEN (len \div Outburst) * Outburst ELSE len

Play ==
  /\ upc = "play" /\ upc' = "copy"
  /\ playsize' = Least(Rounded(playsize), get_space)
  /\ UNCHANGED <<fifo, unit, back, a_out_buffer_len, next, ended, bytes_to_write, final,
                 callback>>

\* av_fifo_generic_write copies the bytes, then shows them.
Numbered(i) == (next + i) % IndexMod
CopyIn ==
  /\ upc = "copy" /\ upc' = "publish"
  /\ buffer' = [c \in DOMAIN buffer |->
                  LET i == (c - wptr) % BufferLen
                  IN IF i < playsize THEN Numbered(i) ELSE buffer[c]]
  /\ UNCHANGED <<wptr, rptr, wndx, rndx, unit, back, filling, callback>>

Publish ==
  /\ upc = "publish"
  /\ wndx' = (wndx + playsize) % IndexMod /\ wptr' = Cell(wptr + playsize)
  /\ upc' = IF driver = "sdl" THEN "played" ELSE "resume"
  /\ back' = "played"
  /\ UNCHANGED <<buffer, rptr, rndx, unit, filling, callback>>

\* The rest stays in a_out_buffer; at the end what is never taken is given up.
Left ==
  IF playsize > 0 THEN {a_out_buffer_len - playsize}
  ELSE IF ended /\ Size <= ShortDelay THEN {0, a_out_buffer_len} ELSE {a_out_buffer_len}

Played ==
  /\ upc = "played" /\ upc' = "fill"
  /\ a_out_buffer_len' \in Left
  /\ next' = (next + playsize) % IndexMod
  /\ playsize' = 0 /\ back' = "main"
  /\ UNCHANGED <<fifo, unit, ended, bytes_to_write, final, callback>>

----------------------------------------------------------------------------
\* pause_loop and seek call audio_pause, audio_resume and reset.
Pause ==
  /\ upc = "main" /\ upc' = "stop" /\ back' = "paused"
  /\ UNCHANGED <<fifo, unit, filling, callback>>

\* It goes on; or the file is over, or a command has moved on from it while it
\* was paused (mpctx->eof): then the rest is thrown away, and what was decoded
\* goes with the file or with the seek to its start.
Unpause ==
  /\ upc = "paused" /\ back' = "main"
  /\ \/ upc' = "resume" /\ UNCHANGED filling
     \/ /\ upc' = "stop" /\ a_out_buffer_len' = 0 /\ ended' = FALSE
        /\ UNCHANGED <<next, bytes_to_write, playsize, final>>
  /\ UNCHANGED <<fifo, unit, callback>>

Seek ==
  /\ upc = "main" /\ upc' = "stop" /\ back' = "main"
  /\ a_out_buffer_len' = 0 /\ ended' = FALSE
  /\ UNCHANGED <<fifo, unit, next, bytes_to_write, playsize, final, callback>>

\* AudioOutputUnitStop, AudioDeviceStop, SDL_PauseAudio(1)
MayStopAlways == TRUE
MayStop == driver \in StopWaits => cpc = "idle"

Stop ==
  /\ upc = "stop" /\ MayStop
  /\ running' = FALSE /\ paused' = (driver # "sdl")
  /\ upc' = IF back = "paused" THEN "paused" ELSE "reset"
  /\ UNCHANGED <<fifo, driver, back, filling, callback>>

\* av_fifo_reset; SDL starts again at once.
Reset ==
  /\ upc = "reset" /\ upc' = back /\ back' = "main"
  /\ wptr' = 0 /\ rptr' = 0 /\ wndx' = 0 /\ rndx' = 0 /\ next' = 0
  /\ running' = (driver = "sdl")
  /\ UNCHANGED <<buffer, driver, paused, a_out_buffer_len, ended, bytes_to_write, playsize,
                 final, callback>>

\* audio_resume, from play() and from the pause loop.
Resume ==
  /\ upc = "resume"
  /\ IF driver = "sdl" \/ paused
     THEN running' = TRUE /\ upc' = IF driver = "sdl" THEN back ELSE "unflag"
     ELSE upc' = back /\ UNCHANGED running
  /\ UNCHANGED <<fifo, driver, paused, back, filling, callback>>

ResumeDone ==
  /\ upc = "unflag" /\ paused' = FALSE /\ upc' = back
  /\ UNCHANGED <<fifo, driver, running, back, filling, callback>>

----------------------------------------------------------------------------
\* The callback.  CoreAudio looks at the size before read_buffer does, and
\* pauses the unit when there is nothing; the others play silence.
AskedStops(req) ==
  LET n == Least(Size, req)
  IN IF driver = "sdl" THEN [pc |-> "read", amt |-> req]
     ELSE [amt |-> n, pc |-> IF n # 0 THEN "read" ELSE "stop"]
Asked(req) ==
  IF driver = "sdl" THEN [pc |-> "read", amt |-> req]
  ELSE LET n == Least(Size, req)
       IN [amt |-> n, pc |-> IF n # 0 THEN "read"
                             ELSE IF driver = "coreaudio" THEN "stop" ELSE "idle"]

Render(req) ==
  /\ cpc = "idle" /\ running
  /\ cpc' = Asked(req).pc /\ amt' = Asked(req).amt
  /\ UNCHANGED <<fifo, unit, player, chunk>>

ReadBufferUnchecked ==
  /\ cpc = "read" /\ cpc' = "copy"
  /\ UNCHANGED <<fifo, unit, player, amt, chunk>>

\* read_buffer
ReadBuffer ==
  /\ cpc = "read"
  /\ amt' = Least(amt, Size)
  /\ cpc' = IF amt' = 0 THEN "idle" ELSE "copy"
  /\ UNCHANGED <<fifo, unit, player, chunk>>

\* av_fifo_generic_read, up to the end of the buffer, and av_fifo_drain.
Segment == Least(BufferLen - rptr, amt)

CopyOut ==
  /\ cpc = "copy" /\ cpc' = "drain"
  /\ chunk' = [i \in 1 .. Segment |-> buffer[Cell(rptr + i - 1)]]
  /\ UNCHANGED <<fifo, unit, player, amt>>

DrainKeepsPtr ==
  /\ cpc = "drain"
  /\ rptr' = rptr + Len(chunk) /\ rndx' = (rndx + Len(chunk)) % IndexMod
  /\ amt' = amt - Len(chunk) /\ chunk' = <<>>
  /\ cpc' = IF amt' = 0 THEN "idle" ELSE "copy"
  /\ UNCHANGED <<buffer, wptr, wndx, unit, player>>
Drain ==
  /\ cpc = "drain"
  /\ rptr' = Cell(rptr + Len(chunk)) /\ rndx' = (rndx + Len(chunk)) % IndexMod
  /\ amt' = amt - Len(chunk) /\ chunk' = <<>>
  /\ cpc' = IF amt' = 0 THEN "idle" ELSE "copy"
  /\ UNCHANGED <<buffer, wptr, wndx, unit, player>>

\* audio_pause, on the audio thread
SelfStop ==
  /\ cpc = "stop" /\ cpc' = "flag" /\ running' = FALSE
  /\ UNCHANGED <<fifo, driver, paused, player, amt, chunk>>

SelfFlag ==
  /\ cpc = "flag" /\ cpc' = "idle" /\ paused' = TRUE
  /\ UNCHANGED <<fifo, driver, running, player, amt, chunk>>

Callback ==
  \/ \E req \in Requests : Render(req)
  \/ ReadBuffer \/ CopyOut \/ Drain \/ SelfStop \/ SelfFlag

\* What the player does once it has begun, and what it chooses to begin.
PlayerStep ==
  \/ FillDone \/ Decode \/ Restore \/ Play \/ CopyIn \/ Publish \/ Played
  \/ Stop \/ Reset \/ Resume \/ ResumeDone
PlayerChoice == Fill \/ Pause \/ Unpause \/ Seek

Next == Callback \/ PlayerStep \/ PlayerChoice

Spec == Init /\ [][Next]_vars

\* Both threads run, and a running device asks for more.
FairSpec == Spec /\ WF_vars(Callback) /\ WF_vars(PlayerStep)

----------------------------------------------------------------------------
TypeOK ==
  /\ driver \in Drivers /\ running \in BOOLEAN /\ paused \in BOOLEAN
  /\ buffer \in [0 .. BufferLen - 1 -> 0 .. IndexMod - 1]
  /\ {wptr, rptr} \subseteq 0 .. BufferLen - 1
  /\ {wndx, rndx, next} \subseteq 0 .. IndexMod - 1
  /\ upc \in {"main", "fill", "play", "copy", "publish", "resume", "unflag", "played",
              "stop", "reset", "paused"}
  /\ back \in {"main", "play", "played", "paused"}
  /\ a_out_buffer_len \in Nat /\ ended \in BOOLEAN /\ final \in BOOLEAN
  /\ {bytes_to_write, playsize} \subseteq 0 .. BufferLen
  /\ cpc \in {"idle", "read", "copy", "drain", "stop", "flag"}
  /\ amt \in 0 .. BufferLen \union Requests

\* Whatever the two sides store and whenever the indexes wrap, the buffer never
\* holds less than nothing or more than it has room for, and its two pointers
\* are as far apart as its two indexes.
RingIntact == Size \in 0 .. BufferLen /\ wptr = Cell(rptr + Size)

\* libao2.txt, get_space: "how many bytes can be written into the audio buffer":
\* play() takes every piece of it whole, but for SDL's rounding, which leaves
\* the last audio of a file alone.
SpaceIsThere ==
  [][upc = "play" /\ upc' = "copy" =>
       /\ playsize' >= playsize - (playsize % Outburst)
       /\ final => playsize' = playsize]_vars

\* What play() has taken, in the eyes of someone who sees Publish as the moment.
Taken == IF back = "played" THEN (next + playsize) % IndexMod ELSE next

Promise == INSTANCE SoundQueue WITH
  Capacity <- BufferLen, Ids <- IndexMod,
  queue <- Content, next <- Taken, sound <- chunk, quiet <- upc = "paused"

\* The bytes play() took are heard once, in order, never after a reset or in a
\* pause, and none is lost in any interleaving of the two threads.
ImplementsSoundQueue == Promise!Spec

\* Whenever something is in the buffer a piece of it will be heard, or all of it
\* is thrown away, unless the player stays paused: with the queue's order, every
\* byte is heard.  (CoreAudio's callback may stop with bytes in the buffer.)
AllHeard ==
  (driver # "coreaudio" /\ Size > 0) ~> (cpc = "drain" \/ upc \in {"reset", "paused"})

\* ao_coreaudio.c:1227, "resume playing, after audio_pause()": when audio_resume
\* has returned and no callback is under way, the unit runs if there is anything
\* to play.
ResumeStarts ==
  [][(upc \in {"resume", "unflag"} /\ upc' \notin {"resume", "unflag"} /\ cpc' = "idle")
       => (running' \/ Size' = 0)]_vars
=============================================================================
