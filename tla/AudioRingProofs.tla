--------------------------- MODULE AudioRingProofs ---------------------------
(***************************************************************************)
(* Proofs about AudioRing, for every driver, buffer and index range, and   *)
(* every interleaving of the two threads: what the buffer holds, and that  *)
(* the outputs implement SoundQueue.                                       *)
(*                                                                         *)
(* A driver whose stop call does not wait for a running callback is the    *)
(* README's affair: av_fifo_reset then runs into a read.                   *)
(***************************************************************************)
EXTENDS AudioRing, SequenceTheorems, TLAPS

AllStopsWait == Drivers \subseteq StopWaits

\* Where a call of the player's returns to, and what a stopped device means.
Returns ==
  /\ upc \in {"main", "fill", "play", "copy", "publish"} => back = "main"
  /\ upc = "played" => back = "played"
  /\ upc \in {"resume", "unflag"} => back \in {"main", "played"}
  /\ upc = "stop" => back \in {"main", "play", "paused"}
  /\ upc = "reset" => back \in {"main", "play"}
  /\ upc = "paused" => back = "paused"
  /\ upc \in {"reset", "paused"} => ~running /\ cpc = "idle"

\* What the callback has looked up stays there: only it takes bytes out.
Reads ==
  /\ cpc = "read" => amt > 0
  /\ cpc \in {"copy", "drain"} => 0 < amt /\ amt <= Size
  /\ cpc # "drain" => chunk = <<>>
  /\ cpc = "drain" => chunk = [i \in 1 .. Segment |-> (rndx + i - 1) % IndexMod]

\* A piece is being played, or will be after a reset.
InPlay == upc \in {"play", "copy", "publish"} \/ back = "play"

\* What get_space returned is still there: only the player puts bytes in.
Room ==
  /\ upc = "fill" \/ back = "played" => bytes_to_write <= get_space
  /\ InPlay => bytes_to_write + playsize <= get_space
  /\ InPlay \/ back = "played" => playsize <= a_out_buffer_len

\* The bytes copied in and not yet shown.
Pending == IF upc = "publish" THEN playsize ELSE 0

\* Each byte is numbered by its index, shown or not.
Numbers ==
  /\ Taken = wndx
  /\ \A i \in 0 .. Size + Pending - 1 : buffer[Cell(rptr + i)] = (rndx + i) % IndexMod

AudioInv == TypeOK /\ RingIntact /\ Returns /\ Reads /\ Room /\ Numbers
----------------------------------------------------------------------------
\* Arithmetic of the ring and of its indexes.
LEMMA Lengths ==
  /\ BufferLen \in Nat \ {0} /\ Outburst \in Nat \ {0} /\ MaxOutburst \in Nat \ {0}
  /\ ShortDelay \in Nat /\ Requests \subseteq Nat \ {0}
  /\ IndexMod \in Nat \ {0} /\ IndexMod >= 2 * BufferLen + 2
  /\ IndexMod \div 2 \in Nat /\ IndexMod \div 2 > BufferLen
  BY AudioAssumption DEF AudioAssumption

\* Two steps along a circle are one.
LEMMA Twice ==
  ASSUME NEW m \in Nat \ {0}, NEW x \in 0 .. m - 1, NEW s \in Nat, NEW n \in Nat, s + n <= m
  PROVE  (((x + s) % m) + n) % m = (x + s + n) % m
<1>1. (x + s) % m \in 0 .. m - 1 /\ (x + s) % m = IF x + s < m THEN x + s ELSE x + s - m
  OBVIOUS
<1>2. (x + s + n) % m = IF x + s + n < m THEN x + s + n ELSE x + s + n - m
  OBVIOUS
<1> DEFINE y == (x + s) % m
<1>3. y \in 0 .. m - 1 /\ y = IF x + s < m THEN x + s ELSE x + s - m
  BY <1>1
<1> HIDE DEF y
<1>4. (y + n) % m = IF y + n < m THEN y + n ELSE y + n - m
  BY <1>3
<1>5. (y + n) % m = (x + s + n) % m
  BY <1>2, <1>3, <1>4
<1> QED BY <1>5 DEF y

\* The int that av_fifo_size makes of the two indexes.
Distance(w, r) ==
  LET d == (w - r) % IndexMod IN IF d < IndexMod \div 2 THEN d ELSE d - IndexMod

LEMMA DistanceAhead ==
  ASSUME NEW r \in 0 .. IndexMod - 1, NEW s \in 0 .. BufferLen
  PROVE  (r + s) % IndexMod \in 0 .. IndexMod - 1 /\ Distance((r + s) % IndexMod, r) = s
<1> DEFINE w == (r + s) % IndexMod
           d == (w - r) % IndexMod
<1>1. w \in 0 .. IndexMod - 1 /\ w = IF r + s < IndexMod THEN r + s ELSE r + s - IndexMod
  BY Lengths
<1> HIDE DEF w
<1>2. d = IF w - r < 0 THEN w - r + IndexMod ELSE w - r
  <2>1. w - r \in Int /\ -IndexMod < w - r /\ w - r < IndexMod
    BY <1>1, Lengths
  <2> QED BY <2>1, Lengths
<1>3. d = s
  BY <1>1, <1>2, Lengths
<1> HIDE DEF d
<1>4. (IF d < IndexMod \div 2 THEN d ELSE d - IndexMod) = s
  BY <1>3, Lengths
<1> QED BY <1>1, <1>4 DEF Distance, d, w

LEMMA AheadByDistance ==
  ASSUME NEW w \in 0 .. IndexMod - 1, NEW r \in 0 .. IndexMod - 1, Distance(w, r) \in 0 .. BufferLen
  PROVE  w = (r + Distance(w, r)) % IndexMod
<1> DEFINE d == (w - r) % IndexMod
<1>1. d \in 0 .. IndexMod - 1 /\ d = IF w - r < 0 THEN w - r + IndexMod ELSE w - r
  BY Lengths
<1>2. Distance(w, r) = IF d < IndexMod \div 2 THEN d ELSE d - IndexMod
  BY DEF Distance
<1> HIDE DEF d
<1>3. Distance(w, r) = d
  BY <1>1, <1>2, Lengths
<1>4. (r + d) % IndexMod = IF r + d < IndexMod THEN r + d ELSE r + d - IndexMod
  BY <1>1, Lengths
<1>5. w = (r + d) % IndexMod
  BY <1>1, <1>4, Lengths
<1> QED BY <1>3, <1>5, Zenon

LEMMA SizeIsDistance == Size = Distance(wndx, rndx) /\ Size' = Distance(wndx', rndx')
  BY DEF Size, Distance

\* Rounding down.
LEMMA RoundDown ==
  ASSUME NEW n \in Nat
  PROVE  (n \div Outburst) * Outburst \in Nat /\ (n \div Outburst) * Outburst = n - (n % Outburst)
         /\ n % Outburst \in Nat
<1> DEFINE q == n \div Outburst
           r == n % Outburst
<1>1. q \in Nat /\ r \in 0 .. Outburst - 1 /\ n = Outburst * q + r
  BY Lengths
<1> HIDE DEF q, r
<1>2. q * Outburst \in Nat /\ q * Outburst = Outburst * q
  BY <1>1, Lengths
<1>3. q * Outburst = n - r
  BY <1>1, <1>2, Lengths
<1> QED BY <1>1, <1>2, <1>3 DEF q, r

\* Cells of the ring: two cells that are less than its length apart differ.
LEMMA CellType == ASSUME NEW p \in Int PROVE Cell(p) \in 0 .. BufferLen - 1
  BY Lengths DEF Cell

LEMMA CellAdd ==
  ASSUME NEW p \in 0 .. BufferLen - 1, NEW s \in Nat, NEW n \in Nat, s + n <= BufferLen
  PROVE  Cell(Cell(p + s) + n) = Cell(p + s + n)
  BY Twice, Lengths DEF Cell

----------------------------------------------------------------------------
\* Steps of the player that leave the ring and the callback alone.
LEMMA InvTypes ==
  ASSUME AudioInv
  PROVE  /\ Size \in 0 .. BufferLen /\ get_space = BufferLen - Size
         /\ driver \in Drivers /\ driver \in {"coreaudio", "digital", "sdl"}
         /\ a_out_buffer_len \in Nat /\ bytes_to_write \in 0 .. BufferLen /\ playsize \in 0 .. BufferLen
         /\ ended \in BOOLEAN /\ final \in BOOLEAN /\ running \in BOOLEAN /\ paused \in BOOLEAN
         /\ wndx \in 0 .. IndexMod - 1 /\ rndx \in 0 .. IndexMod - 1 /\ next \in 0 .. IndexMod - 1
         /\ wptr \in 0 .. BufferLen - 1 /\ rptr \in 0 .. BufferLen - 1
         /\ back \in {"main", "play", "played", "paused"}
         /\ get_space \in 0 .. BufferLen
<1>1. Size \in 0 .. BufferLen /\ get_space = BufferLen - Size
  BY DEF AudioInv, RingIntact, get_space
<1>2. get_space \in 0 .. BufferLen
  BY <1>1, Lengths
<1> QED BY <1>1, <1>2, AudioAssumption DEF AudioInv, TypeOK, AudioAssumption

RingKept == UNCHANGED <<fifo, callback>>

LEMMA KeptRing ==
  ASSUME AudioInv, RingKept
  PROVE  /\ Size' = Size /\ get_space' = get_space /\ RingIntact' /\ Reads'
         /\ (Taken' = Taken /\ Pending' = Pending => Numbers')
<1>1. Size' = Size
  BY DEF RingKept, fifo, Size
<1>2. get_space' = get_space
  BY <1>1 DEF get_space
<1>3. RingIntact'
  BY <1>1 DEF AudioInv, RingIntact, RingKept, fifo, Cell
<1>4. Reads'
  BY <1>1 DEF AudioInv, Reads, RingKept, fifo, callback, Segment
<1>5. Taken' = Taken /\ Pending' = Pending => Numbers'
  BY <1>1 DEF AudioInv, Numbers, RingKept, fifo
<1> QED BY <1>1, <1>2, <1>3, <1>4, <1>5

\* What such a step has to show of itself.
PlayerTypes ==
  /\ driver \in Drivers /\ running \in BOOLEAN /\ paused \in BOOLEAN
  /\ next \in 0 .. IndexMod - 1
  /\ upc \in {"main", "fill", "play", "copy", "publish", "resume", "unflag", "played",
              "stop", "reset", "paused"}
  /\ back \in {"main", "play", "played", "paused"}
  /\ a_out_buffer_len \in Nat /\ ended \in BOOLEAN /\ final \in BOOLEAN
  /\ bytes_to_write \in 0 .. BufferLen /\ playsize \in 0 .. BufferLen

LEMMA PlayerKeeps ==
  ASSUME AudioInv, RingKept, PlayerTypes', Returns', Room', Taken' = Taken, Pending' = Pending
  PROVE  AudioInv'
<1>1. TypeOK'
  BY DEF AudioInv, TypeOK, PlayerTypes, RingKept, fifo, callback
<1> QED BY <1>1, KeptRing DEF AudioInv

LEMMA FillKeeps ==
  ASSUME AudioInv, Fill \/ FillDone \/ Restore \/ Pause \/ Unpause \/ Seek
  PROVE  AudioInv' /\ Taken' = Taken /\ RingKept
<1>1. RingKept /\ driver' = driver /\ running' = running /\ paused' = paused
  BY DEF Fill, FillDone, Restore, Pause, Unpause, Seek, RingKept, unit, callback
<1>2. PlayerTypes'
  <2>1. ended' \in BOOLEAN /\ final' \in BOOLEAN
    BY InvTypes, Zenon DEF Fill, FillDone, Restore, Pause, Unpause, Seek, filling
  <2>2. upc' \in {"main", "fill", "stop", "resume"} /\ back' \in {"main", "play", "played", "paused"}
    BY InvTypes DEF Fill, FillDone, Restore, Pause, Unpause, Seek
  <2>3. next' = next /\ playsize' = playsize /\ a_out_buffer_len' \in {0, a_out_buffer_len}
        /\ bytes_to_write' \in {bytes_to_write, get_space}
    BY DEF Fill, FillDone, Restore, Pause, Unpause, Seek, filling
  <2> QED BY <1>1, <2>1, <2>2, <2>3, InvTypes DEF PlayerTypes
<1>3. Returns'
  BY <1>1 DEF AudioInv, Returns, Fill, FillDone, Restore, Pause, Unpause, Seek, RingKept, callback
<1>4. Room'
  BY <1>1, KeptRing, InvTypes, Lengths DEF AudioInv, Room, Returns, InPlay, Fill, FillDone, Restore, Pause, Unpause, Seek, filling
<1>5. Taken' = Taken /\ Pending' = Pending
  BY DEF AudioInv, Returns, Taken, Pending, Fill, FillDone, Restore, Pause, Unpause, Seek, filling
<1> QED BY <1>1, <1>2, <1>3, <1>4, <1>5, PlayerKeeps

LEMMA DeviceKeeps ==
  ASSUME AudioInv, AllStopsWait, Stop \/ Resume \/ ResumeDone
  PROVE  AudioInv' /\ Taken' = Taken /\ RingKept
<1>1. RingKept /\ driver' = driver /\ UNCHANGED <<back, filling>>
  BY DEF Stop, Resume, ResumeDone, RingKept, unit, fifo
<1>2. PlayerTypes'
  <2>1. running' \in BOOLEAN /\ paused' \in BOOLEAN
    BY InvTypes, Zenon DEF Stop, Resume, ResumeDone
  <2>2. upc' \in {"main", "play", "played", "paused", "reset", "unflag"}
    BY DEF AudioInv, Returns, Stop, Resume, ResumeDone
  <2>3. UNCHANGED <<next, a_out_buffer_len, ended, final, bytes_to_write, playsize>>
    BY <1>1 DEF filling
  <2> QED BY <1>1, <2>1, <2>2, <2>3, InvTypes DEF PlayerTypes
<1>3. Returns'
  <2>1. Stop => cpc = "idle" /\ ~running'
    BY InvTypes DEF Stop, MayStop, AllStopsWait
  <2> QED BY <1>1, <2>1 DEF AudioInv, Returns, Stop, Resume, ResumeDone, RingKept, callback
<1>4. Room'
  BY <1>1, KeptRing DEF AudioInv, Room, Returns, InPlay, Stop, Resume, ResumeDone, filling
<1>5. Taken' = Taken /\ Pending' = Pending
  BY <1>1 DEF AudioInv, Taken, Pending, Stop, Resume, ResumeDone, Returns, filling
<1> QED BY <1>1, <1>2, <1>3, <1>4, <1>5, PlayerKeeps

LEMMA DecodeKeeps ==
  ASSUME AudioInv, Decode
  PROVE  AudioInv' /\ Taken' = Taken /\ RingKept
<1> DEFINE len == Least(bytes_to_write, MaxOutburst)
<1>0. len \in 1 .. bytes_to_write /\ bytes_to_write \in 1 .. BufferLen
  BY InvTypes, Lengths DEF Decode, Least
<1> HIDE DEF len
<1>1. PICK d \in Decoded(len) :
        /\ bytes_to_write' = bytes_to_write - len
        /\ a_out_buffer_len' = d.have
        /\ ended' = (ended \/ d.eof)
        /\ playsize' = Least(len, d.have)
        /\ final' = (final \/ (d.eof /\ d.have < len))
        /\ upc' = IF d.have = 0 THEN "main" ELSE "play"
  BY DEF Decode, len
<1>2. d.have \in Nat /\ d.eof \in BOOLEAN
  <2>1. CASE a_out_buffer_len >= len
    <3>1. d = [have |-> a_out_buffer_len, eof |-> FALSE]
      BY <2>1 DEF Decoded
    <3> QED BY <3>1, InvTypes
  <2>2. CASE ~(a_out_buffer_len >= len) /\ ended
    <3>1. d = [have |-> a_out_buffer_len, eof |-> TRUE]
      BY <2>2 DEF Decoded
    <3> QED BY <3>1, InvTypes
  <2>3. CASE ~(a_out_buffer_len >= len) /\ ~ended
    <3>1. d \in [have : a_out_buffer_len .. len + 1, eof : BOOLEAN]
      BY <2>3 DEF Decoded
    <3>2. d.have \in a_out_buffer_len .. len + 1 /\ d.eof \in BOOLEAN
      BY <3>1
    <3> QED BY <1>0, <3>2, InvTypes
  <2> QED BY <2>1, <2>2, <2>3
<1>3. RingKept /\ UNCHANGED <<unit, back, next>> /\ upc = "fill" /\ back = "main"
  BY DEF Decode, RingKept, AudioInv, Returns
<1>4. playsize' \in 0 .. len /\ playsize' <= a_out_buffer_len'
  BY <1>0, <1>1, <1>2 DEF Least
<1>5. PlayerTypes'
  <2>1. ended' \in BOOLEAN /\ final' \in BOOLEAN
    BY <1>1, Zenon
  <2>2. bytes_to_write' \in 0 .. BufferLen /\ playsize' \in 0 .. BufferLen
    BY <1>0, <1>1, <1>4, InvTypes, Lengths
  <2>3. a_out_buffer_len' \in Nat /\ upc' \in {"main", "play"}
    BY <1>1, <1>2
  <2>4. UNCHANGED <<driver, running, paused, next>> /\ back' = "main"
    BY <1>3 DEF unit
  <2> QED BY <2>1, <2>2, <2>3, <2>4, InvTypes DEF PlayerTypes
<1>6. Returns'
  BY <1>1, <1>3 DEF Returns, RingKept, callback, unit
<1>7. Room'
  <2>1. bytes_to_write' + playsize' <= bytes_to_write /\ bytes_to_write <= get_space /\ get_space' = get_space
    BY <1>0, <1>1, <1>3, <1>4, KeptRing, InvTypes, Lengths DEF AudioInv, Room
  <2>2. bytes_to_write' + playsize' <= get_space'
    BY <1>0, <1>1, <1>4, <2>1, InvTypes, Lengths
  <2> QED BY <1>1, <1>3, <1>4, <2>2 DEF Room, InPlay
<1>8. Taken' = Taken /\ Pending' = Pending
  BY <1>1, <1>3 DEF Taken, Pending
<1> QED BY <1>3, <1>5, <1>6, <1>7, <1>8, PlayerKeeps

LEMMA PlaySizes ==
  ASSUME AudioInv, Play
  PROVE  /\ playsize' \in 0 .. playsize
         /\ playsize' = Rounded(playsize)
         /\ playsize' >= playsize - (playsize % Outburst)
         /\ final => playsize' = playsize
<1>1. playsize + bytes_to_write <= get_space /\ playsize \in Nat /\ bytes_to_write \in Nat /\ get_space \in Nat
  BY InvTypes, Lengths DEF AudioInv, Room, InPlay, Play
<1>2. /\ Rounded(playsize) \in 0 .. playsize
      /\ Rounded(playsize) >= playsize - (playsize % Outburst)
      /\ final => Rounded(playsize) = playsize
  <2>1. CASE driver = "sdl" /\ ~final
    <3>1. Rounded(playsize) = (playsize \div Outburst) * Outburst
      BY <2>1 DEF Rounded
    <3> DEFINE r == (playsize \div Outburst) * Outburst
    <3>2. r \in Nat /\ r = playsize - (playsize % Outburst) /\ playsize % Outburst \in Nat
      BY <1>1, RoundDown
    <3> HIDE DEF r
    <3>3. r \in 0 .. playsize /\ r >= playsize - (playsize % Outburst)
      BY <1>1, <3>2
    <3> QED BY <2>1, <3>1, <3>3 DEF r
  <2>2. CASE ~(driver = "sdl" /\ ~final)
    <3>1. Rounded(playsize) = playsize
      BY <2>2 DEF Rounded
    <3>2. playsize % Outburst \in Nat
      BY <1>1, RoundDown
    <3> QED BY <1>1, <3>1, <3>2
  <2> QED BY <2>1, <2>2
<1>3. playsize' = Rounded(playsize)
  BY <1>1, <1>2 DEF Play, Least
<1> QED BY <1>2, <1>3

LEMMA PlayKeeps ==
  ASSUME AudioInv, Play
  PROVE  AudioInv' /\ Taken' = Taken /\ RingKept
<1>1. RingKept /\ upc = "play" /\ upc' = "copy" /\ back = "main"
      /\ UNCHANGED <<unit, back, a_out_buffer_len, next, ended, bytes_to_write, final>>
  BY DEF Play, RingKept, AudioInv, Returns
<1>2. playsize' \in 0 .. playsize
  BY PlaySizes
<1>3. PlayerTypes'
  <2>1. playsize' \in 0 .. BufferLen
    BY <1>2, InvTypes, Lengths
  <2> QED BY <1>1, <2>1, InvTypes DEF PlayerTypes, unit
<1>4. Returns'
  BY <1>1 DEF Returns, RingKept, callback, unit
<1>5. Room'
  BY <1>1, <1>2, KeptRing, InvTypes DEF AudioInv, Room, InPlay
<1>6. Taken' = Taken /\ Pending' = Pending
  BY <1>1 DEF Taken, Pending
<1> QED BY <1>1, <1>3, <1>4, <1>5, <1>6, PlayerKeeps

LEMMA PlayedKeeps ==
  ASSUME AudioInv, Played
  PROVE  AudioInv' /\ Taken' = Taken /\ RingKept
<1>1. RingKept /\ upc = "played" /\ upc' = "fill" /\ back = "played" /\ back' = "main" /\ playsize' = 0
      /\ next' = (next + playsize) % IndexMod
      /\ UNCHANGED <<unit, ended, bytes_to_write, final>>
  BY DEF Played, RingKept, AudioInv, Returns
<1>2. playsize <= a_out_buffer_len /\ playsize \in Nat /\ a_out_buffer_len \in Nat
  BY <1>1, InvTypes DEF AudioInv, Room
<1>3. a_out_buffer_len' \in Nat
  BY <1>2 DEF Played, Left
<1>4. next' \in 0 .. IndexMod - 1
  BY <1>1, <1>2, InvTypes, Lengths
<1>5. PlayerTypes'
  <2>1. playsize' \in 0 .. BufferLen
    BY <1>1, Lengths
  <2> QED BY <1>1, <1>3, <1>4, <2>1, InvTypes DEF PlayerTypes, unit
<1>6. Returns'
  BY <1>1 DEF Returns, RingKept, callback, unit
<1>7. Room'
  BY <1>1, <1>2, <1>3, KeptRing, InvTypes, Lengths DEF AudioInv, Room, InPlay
<1>8. Taken' = Taken /\ Pending' = Pending
  BY <1>1 DEF Taken, Pending
<1> QED BY <1>1, <1>5, <1>6, <1>7, <1>8, PlayerKeeps

----------------------------------------------------------------------------
\* Steps of the callback.
LEMMA CallbackKeeps ==
  ASSUME AudioInv,
         (\E req \in Requests : Render(req)) \/ ReadBuffer \/ CopyOut \/ SelfStop \/ SelfFlag
  PROVE  AudioInv' /\ Taken' = Taken /\ UNCHANGED <<fifo, player>>
<1>1. UNCHANGED <<fifo, player, driver>>
  BY DEF Render, ReadBuffer, CopyOut, SelfStop, SelfFlag, unit
<1>2. /\ UNCHANGED <<buffer, wptr, rptr, wndx, rndx, driver, upc, back>>
      /\ UNCHANGED <<a_out_buffer_len, next, ended, bytes_to_write, playsize, final>>
  BY <1>1 DEF fifo, player, filling
<1>3. Size' = Size
  BY <1>2 DEF Size
<1>4. get_space' = get_space /\ Taken' = Taken /\ Pending' = Pending
  BY <1>2, <1>3 DEF get_space, Taken, Pending
<1>5. RingIntact' /\ Numbers'
  BY <1>2, <1>3, <1>4 DEF AudioInv, RingIntact, Numbers, Cell
<1>6. Room'
  BY <1>2, <1>4 DEF AudioInv, Room, InPlay
<1>7. Requests \subseteq Nat \ {0} /\ amt \in Nat /\ amt \in 0 .. BufferLen \union Requests
  BY Lengths DEF AudioInv, TypeOK
<1>8. /\ amt' \in 0 .. BufferLen \union Requests
      /\ cpc' \in {"idle", "read", "copy", "drain", "stop", "flag"}
      /\ Reads'
  <2>1. CASE \E req \in Requests : Render(req)
    <3>0. PICK req \in Requests : Render(req)
      BY <2>1
    <3>1. Least(Size, req) \in 0 .. Size
      BY <1>7, InvTypes, Lengths DEF Least
    <3> DEFINE n == Least(Size, req)
    <3>2. \/ cpc' = "read" /\ amt' = req
          \/ cpc' = "read" /\ amt' = n /\ n # 0
          \/ cpc' \in {"stop", "idle"} /\ amt' = n
      BY <3>0 DEF Render, Asked
    <3>3. chunk' = <<>>
      BY <2>1 DEF Render, AudioInv, Reads
    <3> HIDE DEF n
    <3>4. n \in 0 .. BufferLen
      BY <3>1, InvTypes, Lengths DEF n
    <3> QED BY <1>7, <3>2, <3>3, <3>4 DEF Reads
  <2>2. CASE ReadBuffer
    <3>1. amt > 0 /\ chunk' = <<>>
      BY <2>2 DEF ReadBuffer, AudioInv, Reads
    <3>2. amt' = Least(amt, Size) /\ cpc' = IF amt' = 0 THEN "idle" ELSE "copy"
      BY <2>2 DEF ReadBuffer
    <3>3. amt' \in 0 .. Size /\ amt' \in 0 .. BufferLen
      BY <1>7, <3>2, InvTypes, Lengths DEF Least
    <3> QED BY <1>3, <3>1, <3>2, <3>3, InvTypes DEF Reads
  <2>3. CASE CopyOut
    <3>1. 0 < amt /\ amt <= Size /\ amt' = amt /\ cpc' = "drain"
      BY <2>3 DEF CopyOut, AudioInv, Reads
    <3>2. Segment \in 0 .. amt /\ Segment' = Segment
      BY <1>2, <1>7, <3>1, InvTypes, Lengths DEF Segment, Least
    <3> DEFINE n == Segment
    <3>3. chunk' = [i \in 1 .. n |-> buffer[Cell(rptr + i - 1)]]
      BY <2>3 DEF CopyOut
    <3> HIDE DEF n
    <3>4. Pending \in Nat /\ n \in 0 .. Size
      BY <3>1, <3>2, <1>7, InvTypes, Lengths DEF Pending, n
    <3>5. ASSUME NEW i \in 1 .. n
          PROVE  buffer[Cell(rptr + i - 1)] = (rndx + i - 1) % IndexMod
      <4>1. i - 1 \in 0 .. Size + Pending - 1
        BY <3>4, InvTypes, Lengths
      <4>2. buffer[Cell(rptr + (i - 1))] = (rndx + (i - 1)) % IndexMod
        BY <4>1 DEF AudioInv, Numbers
      <4>3. rptr + (i - 1) = rptr + i - 1 /\ rndx + (i - 1) = rndx + i - 1
        BY <3>4, InvTypes, Lengths
      <4> QED BY <4>2, <4>3
    <3>6. chunk' = [i \in 1 .. n |-> (rndx + i - 1) % IndexMod]
      BY <3>3, <3>5
    <3> QED BY <1>2, <1>3, <1>7, <3>1, <3>2, <3>6 DEF Reads, n
  <2>4. CASE SelfStop
    BY <1>7, <2>4 DEF SelfStop, AudioInv, Reads
  <2>5. CASE SelfFlag
    BY <1>7, <2>5 DEF SelfFlag, AudioInv, Reads
  <2> QED BY <2>1, <2>2, <2>3, <2>4, <2>5
<1>9. running' \in BOOLEAN /\ paused' \in BOOLEAN
  BY InvTypes DEF Render, ReadBuffer, CopyOut, SelfStop, SelfFlag, unit
<1>10. TypeOK'
  BY <1>2, <1>8, <1>9 DEF AudioInv, TypeOK
<1>11. Returns'
  <2>1. upc \notin {"reset", "paused"}
    BY DEF AudioInv, Returns, Render, ReadBuffer, CopyOut, SelfStop, SelfFlag
  <2> QED BY <1>2, <2>1 DEF AudioInv, Returns
<1> QED BY <1>1, <1>4, <1>5, <1>6, <1>8, <1>10, <1>11 DEF AudioInv

\* Where the reader's and the writer's places are: Size bytes apart.
LEMMA Apart ==
  ASSUME AudioInv
  PROVE  /\ wndx = (rndx + Size) % IndexMod /\ wptr = Cell(rptr + Size)
         /\ Pending \in Nat /\ Size + Pending <= BufferLen
<1>1. wndx = (rndx + Size) % IndexMod
  <2>1. Distance(wndx, rndx) \in 0 .. BufferLen
    BY SizeIsDistance, InvTypes
  <2> QED BY <2>1, SizeIsDistance, AheadByDistance, InvTypes
<1>2. wptr = Cell(rptr + Size)
  BY DEF AudioInv, RingIntact
<1>3. Pending \in Nat /\ Size + Pending <= BufferLen
  <2>1. CASE upc = "publish"
    <3>1. bytes_to_write + playsize <= get_space
      BY <2>1 DEF AudioInv, Room, InPlay
    <3> QED BY <2>1, <3>1, InvTypes, Lengths DEF Pending
  <2>2. CASE upc # "publish"
    BY <2>2, InvTypes, Lengths DEF Pending
  <2> QED BY <2>1, <2>2
<1> QED BY <1>1, <1>2, <1>3

\* What Drain does to the two places.
LEMMA DrainMoves ==
  ASSUME AudioInv, Drain
  PROVE  /\ Len(chunk) = Segment /\ Segment \in 1 .. Size /\ Segment <= amt
         /\ Size' = Size - Segment
         /\ rndx' = (rndx + Segment) % IndexMod /\ rndx' \in 0 .. IndexMod - 1
         /\ rptr' = Cell(rptr + Segment) /\ rptr' \in 0 .. BufferLen - 1
<1>1. 0 < amt /\ amt <= Size /\ amt \in Nat
  BY Lengths DEF AudioInv, Reads, Drain, TypeOK
<1>2. Segment \in 1 .. Size /\ Segment <= amt
  BY <1>1, InvTypes, Lengths DEF Segment, Least
<1> DEFINE n == Segment
<1> HIDE DEF n
<1>3. n \in 1 .. Size /\ n \in Nat
  BY <1>2, InvTypes DEF n
<1>4. Len(chunk) = n
  <2>1. chunk = [i \in 1 .. n |-> (rndx + i - 1) % IndexMod]
    BY DEF AudioInv, Reads, Drain, n
  <2> QED BY <1>3, <2>1
<1>5. rndx' = (rndx + n) % IndexMod /\ rptr' = Cell(rptr + n) /\ wndx' = wndx
  BY <1>4 DEF Drain
<1>6. rndx' \in 0 .. IndexMod - 1 /\ rptr' \in 0 .. BufferLen - 1
  <2>1. rndx' \in 0 .. IndexMod - 1
    BY <1>3, <1>5, InvTypes, Lengths
  <2>2. rptr + n \in Int
    BY <1>3, InvTypes, Lengths
  <2> QED BY <1>5, <2>1, <2>2, CellType
<1>7. wndx = (rndx' + (Size - n)) % IndexMod
  <2> DEFINE s == Size - n
  <2>1. s \in Nat /\ n + s <= IndexMod /\ rndx + Size = rndx + n + s
    BY <1>3, InvTypes, Lengths
  <2> HIDE DEF s
  <2>2. (((rndx + n) % IndexMod) + s) % IndexMod = (rndx + n + s) % IndexMod
    BY <1>3, <2>1, InvTypes, Lengths, Twice
  <2>3. (rndx' + s) % IndexMod = (rndx + Size) % IndexMod
    BY <1>5, <2>1, <2>2
  <2>4. wndx = (rndx + Size) % IndexMod
    BY Apart
  <2> QED BY <2>3, <2>4 DEF s
<1>8. Size' = Size - n
  <2> DEFINE s == Size - n
  <2>1. s \in 0 .. BufferLen
    BY <1>3, InvTypes, Lengths
  <2> HIDE DEF s
  <2>2. Distance((rndx' + s) % IndexMod, rndx') = s
    BY <1>6, <2>1, DistanceAhead
  <2>3. wndx' = (rndx' + s) % IndexMod
    BY <1>5, <1>7 DEF s
  <2>4. Distance(wndx', rndx') = s
    BY <2>2, <2>3
  <2> QED BY <2>4, SizeIsDistance DEF s
<1> QED BY <1>2, <1>4, <1>5, <1>6, <1>8 DEF n

LEMMA DrainKeeps ==
  ASSUME AudioInv, Drain
  PROVE  AudioInv' /\ Taken' = Taken
<1> DEFINE n == Segment
<1> HIDE DEF n
<1>1. /\ n \in 1 .. Size /\ n <= amt /\ Size' = Size - n /\ Len(chunk) = n
      /\ rndx' = (rndx + n) % IndexMod /\ rndx' \in 0 .. IndexMod - 1
      /\ rptr' = Cell(rptr + n) /\ rptr' \in 0 .. BufferLen - 1
  BY DrainMoves DEF n
<1>0. /\ n \in Nat /\ 1 <= n /\ n <= Size /\ n <= amt /\ Size' = Size - n /\ Len(chunk) = n
      /\ Size \in Nat /\ Size <= BufferLen
  BY <1>1, InvTypes, Lengths
<1>2. /\ UNCHANGED <<buffer, wptr, wndx, driver, running, paused, upc, back>>
      /\ UNCHANGED <<a_out_buffer_len, next, ended, bytes_to_write, playsize, final>>
  BY DEF Drain, unit, player, filling
<1>3. Taken' = Taken /\ Pending' = Pending
  BY <1>2 DEF Taken, Pending
<1>4. Size' \in 0 .. BufferLen /\ get_space' \in 0 .. BufferLen /\ get_space <= get_space'
  BY <1>0, Lengths DEF get_space
<1>5. RingIntact'
  <2> DEFINE s == Size - n
  <2>1. s \in Nat /\ n \in Nat /\ n + s <= BufferLen /\ rptr + n + s = rptr + Size
    BY <1>0, InvTypes, Lengths
  <2> HIDE DEF s
  <2>2. Cell(Cell(rptr + n) + s) = Cell(rptr + n + s)
    BY <2>1, InvTypes, CellAdd
  <2>3. Cell(rptr' + s) = wptr
    BY <1>1, <2>1, <2>2, Apart
  <2> QED BY <1>1, <1>2, <1>4, <2>3 DEF RingIntact, s, Cell
<1>6. Numbers'
  <2>1. ASSUME NEW i \in 0 .. Size' + Pending' - 1
        PROVE  buffer[Cell(rptr' + i)] = (rndx' + i) % IndexMod
    <3>1. n \in Nat /\ i \in Nat /\ n + i <= BufferLen /\ n + i <= IndexMod
          /\ n + i \in 0 .. Size + Pending - 1
          /\ rptr + (n + i) = rptr + n + i /\ rndx + (n + i) = rndx + n + i
      <4>1. Pending \in Nat /\ Size + Pending <= BufferLen
        BY Apart
      <4>2. Size' + Pending' - 1 = Size - n + Pending - 1
        BY <1>0, <1>3
      <4>3. i \in Nat /\ i <= Size - n + Pending - 1
        BY <1>0, <4>1, <4>2
      <4>4. n + i <= Size + Pending - 1 /\ n + i \in Nat
        BY <1>0, <4>1, <4>3
      <4> QED BY <1>0, <4>1, <4>3, <4>4, InvTypes, Lengths
    <3>2. buffer[Cell(rptr + (n + i))] = (rndx + (n + i)) % IndexMod
      BY <3>1 DEF AudioInv, Numbers
    <3>3. Cell(rptr' + i) = Cell(rptr + n + i)
      BY <1>1, <3>1, InvTypes, CellAdd
    <3>4. (rndx' + i) % IndexMod = (rndx + n + i) % IndexMod
      <4>1. (((rndx + n) % IndexMod) + i) % IndexMod = (rndx + n + i) % IndexMod
        BY <3>1, InvTypes, Lengths, Twice
      <4> QED BY <1>1, <4>1
    <3> QED BY <3>1, <3>2, <3>3, <3>4
  <2>2. Taken' = wndx'
    BY <1>2, <1>3 DEF AudioInv, Numbers
  <2> QED BY <1>2, <2>1, <2>2 DEF Numbers, Cell
<1>7. amt' = amt - n /\ chunk' = <<>> /\ cpc' = (IF amt' = 0 THEN "idle" ELSE "copy") /\ cpc = "drain"
  BY <1>1 DEF Drain
<1>8. amt \in 1 .. BufferLen /\ amt <= Size
  <2>1. 0 < amt /\ amt <= Size /\ amt \in Nat
    BY Lengths DEF AudioInv, Reads, Drain, TypeOK
  <2> QED BY <2>1, InvTypes, Lengths
<1>9. amt' \in 0 .. BufferLen /\ amt' <= Size'
  BY <1>0, <1>7, <1>8, InvTypes, Lengths
<1>10. Reads'
  BY <1>7, <1>9, <1>4 DEF Reads
<1>11. TypeOK'
  BY <1>1, <1>2, <1>7, <1>9 DEF AudioInv, TypeOK
<1>12. Returns'
  BY <1>2, <1>7 DEF AudioInv, Returns
<1>13. Room'
  BY <1>2, <1>4, InvTypes, Lengths DEF AudioInv, Room, InPlay
<1> QED BY <1>3, <1>5, <1>6, <1>10, <1>11, <1>12, <1>13 DEF AudioInv

----------------------------------------------------------------------------
\* Steps of the player that store into the ring.
\* How far behind the writer's place a cell is that was counted from the reader's.
LEMMA Offset ==
  ASSUME NEW p \in 0 .. BufferLen - 1, NEW s \in 0 .. BufferLen, NEW j \in 0 .. BufferLen - 1
  PROVE  (Cell(p + j) - Cell(p + s)) % BufferLen = IF j >= s THEN j - s ELSE j - s + BufferLen
<1> DEFINE a == Cell(p + j)
           b == Cell(p + s)
<1>1. a \in 0 .. BufferLen - 1 /\ a = IF p + j < BufferLen THEN p + j ELSE p + j - BufferLen
  BY Lengths DEF Cell
<1>2. b \in 0 .. BufferLen - 1 /\ (b = p + s \/ b = p + s - BufferLen \/ b = p + s - 2 * BufferLen)
  <2>1. CASE p + s < BufferLen
    BY <2>1, Lengths DEF Cell
  <2>2. CASE p + s >= BufferLen
    <3>1. p + s - BufferLen \in 0 .. BufferLen - 1
      BY <2>2, Lengths
    <3> QED BY <2>2, <3>1, Lengths DEF Cell
  <2> QED BY <2>1, <2>2, Lengths
<1> HIDE DEF a, b
<1>3. (a - b) % BufferLen = IF a - b < 0 THEN a - b + BufferLen ELSE a - b
  <2>1. a - b \in Int /\ -BufferLen < a - b /\ a - b < BufferLen
    BY <1>1, <1>2, Lengths
  <2> QED BY <2>1, Lengths
<1>4. (IF a - b < 0 THEN a - b + BufferLen ELSE a - b) = (IF j >= s THEN j - s ELSE j - s + BufferLen)
  BY <1>1, <1>2, Lengths
<1> QED BY <1>3, <1>4 DEF a, b

LEMMA CopyInKeeps ==
  ASSUME AudioInv, CopyIn
  PROVE  AudioInv' /\ Taken' = Taken /\ Content' = Content
<1>1. /\ upc = "copy" /\ upc' = "publish" /\ back = "main"
      /\ UNCHANGED <<wptr, rptr, wndx, rndx, driver, running, paused, back, cpc, amt, chunk>>
      /\ UNCHANGED <<a_out_buffer_len, next, ended, bytes_to_write, playsize, final>>
  BY DEF CopyIn, AudioInv, Returns, unit, filling, callback
<1>2. Size' = Size
  BY <1>1 DEF Size
<1>3. get_space' = get_space /\ Taken' = Taken /\ Taken = next /\ Pending' = playsize /\ Pending = 0
  BY <1>1, <1>2 DEF get_space, Taken, Pending
<1>4. RingIntact' /\ Reads' /\ Returns' /\ Room'
  BY <1>1, <1>2, <1>3 DEF AudioInv, RingIntact, Cell, Reads, Segment, Returns, Room, InPlay
<1>5. buffer \in [0 .. BufferLen - 1 -> 0 .. IndexMod - 1]
  BY DEF AudioInv, TypeOK
<1>6. ASSUME NEW c \in 0 .. BufferLen - 1
      PROVE  buffer'[c] = IF (c - wptr) % BufferLen < playsize THEN Numbered((c - wptr) % BufferLen)
                          ELSE buffer[c]
  BY <1>5 DEF CopyIn
<1>7. ASSUME NEW i \in Int PROVE Numbered(i) \in 0 .. IndexMod - 1
  BY InvTypes, Lengths DEF Numbered
<1>8. TypeOK'
  <2>1. buffer' \in [0 .. BufferLen - 1 -> 0 .. IndexMod - 1]
    <3>1. ASSUME NEW c \in 0 .. BufferLen - 1 PROVE buffer'[c] \in 0 .. IndexMod - 1
      <4>1. (c - wptr) % BufferLen \in Int
        BY InvTypes, Lengths
      <4>2. Numbered((c - wptr) % BufferLen) \in 0 .. IndexMod - 1
        BY <4>1, <1>7
      <4> QED BY <1>5, <1>6, <4>2
    <3>2. DOMAIN buffer' = 0 .. BufferLen - 1 /\ buffer' = [c \in DOMAIN buffer' |-> buffer'[c]]
      BY <1>5 DEF CopyIn
    <3> QED BY <3>1, <3>2
  <2> QED BY <1>1, <2>1 DEF AudioInv, TypeOK
<1>9. playsize \in Nat /\ Size \in Nat /\ Size + playsize <= BufferLen
  <2>1. bytes_to_write + playsize <= get_space
    BY <1>1 DEF AudioInv, Room, InPlay
  <2> QED BY <2>1, InvTypes, Lengths
<1>10. ASSUME NEW j \in 0 .. Size + playsize - 1
       PROVE  /\ Cell(rptr + j) \in 0 .. BufferLen - 1
              /\ (Cell(rptr + j) - wptr) % BufferLen = IF j >= Size THEN j - Size ELSE j - Size + BufferLen
  <2>1. j \in 0 .. BufferLen - 1 /\ rptr + j \in Int
    BY <1>9, InvTypes, Lengths
  <2>2. (Cell(rptr + j) - Cell(rptr + Size)) % BufferLen = IF j >= Size THEN j - Size ELSE j - Size + BufferLen
    BY <2>1, InvTypes, Offset
  <2>3. wptr = Cell(rptr + Size)
    BY Apart
  <2> QED BY <2>1, <2>2, <2>3, CellType
<1>11. ASSUME NEW j \in 0 .. Size - 1 PROVE buffer'[Cell(rptr + j)] = buffer[Cell(rptr + j)]
  <2> DEFINE o == (Cell(rptr + j) - wptr) % BufferLen
  <2>1. j \in 0 .. Size + playsize - 1 /\ ~(j >= Size)
    BY <1>9
  <2>2. o = j - Size + BufferLen
    BY <1>10, <2>1
  <2> HIDE DEF o
  <2>3. ~(o < playsize)
    BY <1>9, <2>1, <2>2, Lengths
  <2> QED BY <1>6, <1>10, <2>1, <2>3 DEF o
<1>12. ASSUME NEW j \in 0 .. Size + playsize - 1, j >= Size
       PROVE  buffer'[Cell(rptr + j)] = (rndx + j) % IndexMod
  <2> DEFINE o == (Cell(rptr + j) - wptr) % BufferLen
  <2>1. o = j - Size
    BY <1>10, <1>12
  <2> HIDE DEF o
  <2>2. o < playsize /\ o \in Nat /\ Size + o = j /\ Size + o <= IndexMod
    BY <1>9, <1>12, <2>1, Lengths
  <2>3. buffer'[Cell(rptr + j)] = Numbered(o)
    BY <1>6, <1>10, <2>2 DEF o
  <2>4. next = (rndx + Size) % IndexMod
    BY <1>3, Apart DEF AudioInv, Numbers
  <2>5. (((rndx + Size) % IndexMod) + o) % IndexMod = (rndx + Size + o) % IndexMod
    <3>1. IndexMod \in Nat \ {0} /\ rndx \in 0 .. IndexMod - 1
      BY InvTypes, Lengths
    <3> QED BY <1>9, <2>2, <3>1, Twice
  <2>6. rndx + Size + o = rndx + j
    BY <1>9, <2>2, InvTypes
  <2> QED BY <2>3, <2>4, <2>5, <2>6 DEF Numbered
<1>13. Numbers'
  <2>1. ASSUME NEW j \in 0 .. Size + playsize - 1
        PROVE  buffer'[Cell(rptr + j)] = (rndx + j) % IndexMod
    <3>1. CASE j >= Size
      BY <1>12, <3>1
    <3>2. CASE ~(j >= Size)
      <4>1. j \in 0 .. Size - 1
        BY <1>9, <3>2
      <4>2. Size + Pending - 1 = Size - 1
        BY <1>3, <1>9
      <4>3. buffer[Cell(rptr + j)] = (rndx + j) % IndexMod
        <5>1. j \in 0 .. Size + Pending - 1
          BY <4>1, <4>2
        <5> QED BY <5>1 DEF AudioInv, Numbers
      <4> QED BY <1>11, <4>1, <4>3
    <3> QED BY <3>1, <3>2
  <2>2. Taken' = wndx'
    BY <1>1, <1>3 DEF AudioInv, Numbers
  <2> QED BY <1>1, <1>2, <1>3, <2>1, <2>2 DEF Numbers, Cell
<1>14. Content' = Content
  <2>1. ASSUME NEW i \in 1 .. Size
        PROVE  buffer'[Cell(rptr + i - 1)] = buffer[Cell(rptr + i - 1)]
    <3>1. i - 1 \in 0 .. Size - 1 /\ rptr + (i - 1) = rptr + i - 1
      BY <1>9, InvTypes
    <3> QED BY <1>11, <3>1
  <2> QED BY <1>1, <1>2, <2>1 DEF Content, Cell
<1> QED BY <1>3, <1>4, <1>8, <1>13, <1>14 DEF AudioInv

LEMMA PublishMoves ==
  ASSUME AudioInv, Publish
  PROVE  /\ Size' = Size + playsize /\ playsize \in Nat /\ Size + playsize <= BufferLen
         /\ wndx' = (wndx + playsize) % IndexMod /\ wndx' \in 0 .. IndexMod - 1
         /\ wptr' = Cell(rptr + Size + playsize)
<1>1. playsize \in Nat /\ Size \in Nat /\ Size + playsize <= BufferLen
  <2>1. bytes_to_write + playsize <= get_space
    BY DEF AudioInv, Room, InPlay, Publish
  <2> QED BY <2>1, InvTypes, Lengths
<1>2. wndx' = (wndx + playsize) % IndexMod /\ wptr' = Cell(wptr + playsize) /\ rndx' = rndx
  BY DEF Publish
<1>3. wndx' \in 0 .. IndexMod - 1
  BY <1>1, <1>2, InvTypes, Lengths
<1>4. (((rndx + Size) % IndexMod) + playsize) % IndexMod = (rndx + Size + playsize) % IndexMod
  BY <1>1, InvTypes, Lengths, Twice
<1>5. wndx' = (rndx + (Size + playsize)) % IndexMod
  <2>1. rndx + Size + playsize = rndx + (Size + playsize)
    BY <1>1, InvTypes
  <2> QED BY <1>2, <1>4, <2>1, Apart
<1>6. Size' = Size + playsize
  <2> DEFINE s == Size + playsize
  <2>1. s \in 0 .. BufferLen
    BY <1>1, Lengths
  <2> HIDE DEF s
  <2>2. Distance((rndx + s) % IndexMod, rndx) = s
    BY <2>1, InvTypes, DistanceAhead
  <2>3. Distance(wndx', rndx') = s
    BY <1>2, <1>5, <2>2 DEF s
  <2> QED BY <2>3, SizeIsDistance DEF s
<1>7. wptr' = Cell(rptr + Size + playsize)
  BY <1>1, <1>2, Apart, InvTypes, CellAdd
<1> QED BY <1>1, <1>2, <1>3, <1>6, <1>7

LEMMA PublishKeeps ==
  ASSUME AudioInv, Publish
  PROVE  AudioInv' /\ Taken' = (Taken + playsize) % IndexMod
<1>1. /\ upc = "publish" /\ upc' \in {"played", "resume"} /\ back = "main" /\ back' = "played"
      /\ UNCHANGED <<buffer, rptr, rndx, driver, running, paused, cpc, amt, chunk>>
      /\ UNCHANGED <<a_out_buffer_len, next, ended, bytes_to_write, playsize, final>>
  BY DEF Publish, AudioInv, Returns, unit, filling, callback
<1>2. /\ Size' = Size + playsize /\ playsize \in Nat /\ Size \in Nat /\ Size + playsize <= BufferLen
      /\ wndx' = (wndx + playsize) % IndexMod /\ wndx' \in 0 .. IndexMod - 1
      /\ wptr' = Cell(rptr + Size + playsize)
  BY PublishMoves, InvTypes
<1>3. Taken = next /\ Taken' = (next + playsize) % IndexMod /\ next = wndx
  BY <1>1 DEF Taken, AudioInv, Numbers
<1>4. Pending = playsize /\ Pending' = 0
  BY <1>1 DEF Pending
<1>5. RingIntact'
  <2>1. Size' \in 0 .. BufferLen
    BY <1>2, Lengths
  <2>2. rptr + Size + playsize = rptr + (Size + playsize)
    BY <1>2, InvTypes
  <2> QED BY <1>1, <1>2, <2>1, <2>2 DEF RingIntact, Cell
<1>6. Numbers'
  <2>1. Size' + Pending' - 1 = Size + Pending - 1
    BY <1>2, <1>4
  <2> QED BY <1>1, <1>2, <1>3, <2>1 DEF AudioInv, Numbers, Cell
<1>7. Room'
  <2>1. bytes_to_write + playsize <= get_space /\ playsize <= a_out_buffer_len
    BY <1>1 DEF AudioInv, Room, InPlay
  <2>2. bytes_to_write <= get_space' /\ get_space = BufferLen - Size
    BY <1>2, <2>1, InvTypes, Lengths DEF get_space
  <2> QED BY <1>1, <2>1, <2>2 DEF Room, InPlay
<1>8. Returns'
  BY <1>1 DEF AudioInv, Returns
<1>9. Reads'
  <2>1. cpc \in {"copy", "drain"} => amt <= Size'
    <3>1. ASSUME cpc \in {"copy", "drain"} PROVE amt <= Size'
      <4>1. 0 < amt /\ amt <= Size /\ amt \in Nat
        BY <3>1, Lengths DEF AudioInv, Reads, TypeOK
      <4> QED BY <4>1, <1>2
    <3> QED BY <3>1
  <2> QED BY <1>1, <2>1 DEF AudioInv, Reads, Segment
<1>10. TypeOK'
  <2>1. wptr' \in 0 .. BufferLen - 1
    BY <1>2, InvTypes, CellType
  <2> QED BY <1>1, <1>2, <2>1 DEF AudioInv, TypeOK
<1> QED BY <1>3, <1>5, <1>6, <1>7, <1>8, <1>9, <1>10 DEF AudioInv

LEMMA ResetKeeps ==
  ASSUME AudioInv, Reset
  PROVE  AudioInv' /\ Taken' = 0 /\ Size' = 0
<1>1. /\ upc = "reset" /\ back \in {"main", "play"} /\ upc' = back /\ back' = "main" /\ cpc = "idle"
      /\ wptr' = 0 /\ rptr' = 0 /\ wndx' = 0 /\ rndx' = 0 /\ next' = 0
      /\ running' = (driver = "sdl")
      /\ UNCHANGED <<buffer, driver, paused, a_out_buffer_len, ended, bytes_to_write, playsize, final>>
      /\ UNCHANGED <<cpc, amt, chunk>>
  BY DEF Reset, AudioInv, Returns, callback
<1>2. Size' = 0 /\ 0 \in 0 .. IndexMod - 1 /\ 0 \in 0 .. BufferLen - 1 /\ 0 \in 0 .. BufferLen
  <2>1. (0 - 0) % IndexMod = 0 /\ 0 < IndexMod \div 2
    BY Lengths
  <2> QED BY <1>1, <2>1, Lengths DEF Size
<1>3. get_space' = BufferLen /\ Pending' = 0 /\ Taken' = 0
  BY <1>1, <1>2, Lengths DEF get_space, Pending, Taken
<1>4. RingIntact'
  <2>1. 0 = Cell(0 + 0)
    BY Lengths DEF Cell
  <2> QED BY <1>1, <1>2, <2>1 DEF RingIntact, Cell
<1>5. Numbers'
  <2>1. 0 .. Size' + Pending' - 1 = {}
    BY <1>2, <1>3
  <2> QED BY <1>1, <1>3, <2>1 DEF Numbers
<1>6. Room'
  <2>1. CASE back = "main"
    BY <1>1, <2>1 DEF Room, InPlay
  <2>2. CASE back = "play"
    <3>1. bytes_to_write + playsize <= get_space /\ playsize <= a_out_buffer_len
      BY <1>1, <2>2 DEF AudioInv, Room, InPlay
    <3>2. bytes_to_write + playsize <= BufferLen
      BY <3>1, InvTypes, Lengths
    <3> QED BY <1>1, <1>3, <2>2, <3>1, <3>2 DEF Room, InPlay
  <2> QED BY <1>1, <2>1, <2>2
<1>7. Returns' /\ Reads'
  BY <1>1 DEF AudioInv, Returns, Reads
<1>8. TypeOK'
  <2>1. running' \in BOOLEAN
    BY <1>1, Zenon
  <2> QED BY <1>1, <1>2, <2>1 DEF AudioInv, TypeOK
<1> QED BY <1>2, <1>3, <1>4, <1>5, <1>6, <1>7, <1>8 DEF AudioInv

----------------------------------------------------------------------------
\* The inductive invariant.
LEMMA InitInv == Init => AudioInv
<1> SUFFICES ASSUME Init PROVE AudioInv
  OBVIOUS
<1>1. 0 \in 0 .. IndexMod - 1 /\ 0 \in 0 .. BufferLen - 1 /\ 0 \in 0 .. BufferLen
  BY Lengths
<1>2. Size = 0
  <2>1. (0 - 0) % IndexMod = 0 /\ 0 < IndexMod \div 2
    BY Lengths
  <2> QED BY <2>1 DEF Init, Size
<1>3. TypeOK
  <2>1. running \in BOOLEAN /\ paused \in BOOLEAN
    BY Zenon DEF Init
  <2> QED BY <1>1, <2>1 DEF Init, TypeOK
<1>4. RingIntact
  <2>1. 0 = Cell(0 + 0)
    BY Lengths DEF Cell
  <2> QED BY <1>1, <1>2, <2>1 DEF RingIntact, Init
<1>5. Numbers
  <2>1. Pending = 0 /\ 0 .. Size + Pending - 1 = {}
    BY <1>2 DEF Pending, Init
  <2> QED BY <2>1 DEF Numbers, Taken, Init
<1> QED BY <1>3, <1>4, <1>5 DEF AudioInv, Returns, Reads, Room, InPlay, Init

LEMMA StutterInv == ASSUME AudioInv, UNCHANGED vars PROVE AudioInv'
<1>1. /\ UNCHANGED <<buffer, wptr, rptr, wndx, rndx, driver, running, paused, upc, back>>
      /\ UNCHANGED <<a_out_buffer_len, next, ended, bytes_to_write, playsize, final, cpc, amt, chunk>>
  BY DEF vars, fifo, unit, player, filling, callback
<1>2. Size' = Size
  BY <1>1 DEF Size
<1>3. get_space' = get_space /\ Taken' = Taken /\ Pending' = Pending
  BY <1>1, <1>2 DEF get_space, Taken, Pending
<1>4. TypeOK' /\ RingIntact' /\ Returns' /\ Reads'
  BY <1>1, <1>2 DEF AudioInv, TypeOK, RingIntact, Cell, Returns, Reads, Segment
<1>5. Room' /\ Numbers'
  BY <1>1, <1>2, <1>3 DEF AudioInv, Room, InPlay, Numbers, Cell
<1> QED BY <1>4, <1>5 DEF AudioInv

LEMMA NextInv == ASSUME AllStopsWait, AudioInv, [Next]_vars PROVE AudioInv'
<1>1. CASE Callback
  BY <1>1, CallbackKeeps, DrainKeeps, AudioAssumption DEF Callback
<1>2. CASE PlayerStep
  BY <1>2, FillKeeps, DecodeKeeps, PlayKeeps, CopyInKeeps, PublishKeeps, PlayedKeeps, DeviceKeeps, ResetKeeps DEF PlayerStep
<1>3. CASE PlayerChoice
  BY <1>3, FillKeeps DEF PlayerChoice
<1>4. CASE UNCHANGED vars
  BY <1>4, StutterInv
<1> QED BY <1>1, <1>2, <1>3, <1>4 DEF Next

THEOREM AudioInvariant == AllStopsWait => (Spec => []AudioInv)
<1>1. ASSUME AllStopsWait PROVE Spec => []AudioInv
  <2>1. AllStopsWait
    BY <1>1
  <2>2. Init => AudioInv
    BY InitInv
  <2>3. AudioInv /\ [Next]_vars => AudioInv'
    BY <2>1, NextInv
  <2> QED BY <2>2, <2>3, PTL DEF Spec
<1> QED BY <1>1

\* Every variable stays in its range.
THEOREM AudioTypes == AllStopsWait => (Spec => []TypeOK)
<1>1. AudioInv => TypeOK
  BY DEF AudioInv
<1> QED BY <1>1, AudioInvariant, PTL

\* The buffer never holds less than nothing or more than it has room for, and
\* its pointers are as far apart as its indexes.
THEOREM RingStaysIntact == AllStopsWait => (Spec => []RingIntact)
<1>1. AudioInv => RingIntact
  BY DEF AudioInv
<1> QED BY <1>1, AudioInvariant, PTL

\* What get_space promised, play() takes.
THEOREM PlayTakesWhatFits == AllStopsWait => (Spec => SpaceIsThere)
<1> DEFINE Fits == /\ playsize' >= playsize - (playsize % Outburst)
                   /\ final => playsize' = playsize
<1>1. AudioInv /\ [Next]_vars => [upc = "play" /\ upc' = "copy" => Fits]_vars
  <2> SUFFICES ASSUME AudioInv, Next, upc = "play", upc' = "copy" PROVE Fits
    OBVIOUS
  <2>1. Play
    BY DEF Next, Callback, PlayerStep, PlayerChoice, Render, ReadBuffer, CopyOut, Drain, SelfStop, SelfFlag,
           FillDone, Decode, Restore, Play, CopyIn, Publish, Played, Stop, Reset, Resume, ResumeDone,
           Fill, Pause, Unpause, Seek, player
  <2> QED BY <2>1, PlaySizes
<1> QED BY <1>1, AudioInvariant, PTL DEF Spec, SpaceIsThere, Fits

----------------------------------------------------------------------------
\* Consecutive bytes, by their numbers.
Run(r, n) == [i \in 1 .. n |-> (r + i - 1) % IndexMod]

LEMMA RunIs ==
  ASSUME NEW r \in Int, NEW n \in Nat
  PROVE  /\ Run(r, n) \in Seq(0 .. IndexMod - 1) /\ Len(Run(r, n)) = n
         /\ Run(r, n) \in [1 .. n -> 0 .. IndexMod - 1]
         /\ \A i \in 1 .. n : Run(r, n)[i] = (r + i - 1) % IndexMod
<1>1. ASSUME NEW i \in 1 .. n PROVE (r + i - 1) % IndexMod \in 0 .. IndexMod - 1
  BY Lengths
<1>2. Run(r, n) \in [1 .. n -> 0 .. IndexMod - 1]
  BY <1>1 DEF Run
<1>3. ASSUME NEW S, NEW f \in [1 .. n -> S] PROVE f \in Seq(S) /\ Len(f) = n
  OBVIOUS
<1>4. Run(r, n) \in Seq(0 .. IndexMod - 1) /\ Len(Run(r, n)) = n
  BY <1>2, <1>3, Zenon
<1> QED BY <1>2, <1>4 DEF Run

LEMMA RunJoin ==
  ASSUME NEW r \in 0 .. IndexMod - 1, NEW s \in Nat, NEW n \in Nat, s + n <= IndexMod
  PROVE  Run(r, s) \o Run((r + s) % IndexMod, n) = Run(r, s + n)
<1> DEFINE w == (r + s) % IndexMod
           a == Run(r, s)
           b == Run(w, n)
           c == Run(r, s + n)
<1>1. w \in Int /\ s + n \in Nat
  BY Lengths
<1> HIDE DEF w
<1>2. a \in Seq(0 .. IndexMod - 1) /\ Len(a) = s /\ \A i \in 1 .. s : a[i] = (r + i - 1) % IndexMod
  BY RunIs, Lengths
<1>3. b \in Seq(0 .. IndexMod - 1) /\ Len(b) = n /\ \A i \in 1 .. n : b[i] = (w + i - 1) % IndexMod
  BY <1>1, RunIs
<1>4. c \in Seq(0 .. IndexMod - 1) /\ Len(c) = s + n /\ \A i \in 1 .. s + n : c[i] = (r + i - 1) % IndexMod
  BY <1>1, RunIs
<1> HIDE DEF a, b, c
<1>5. /\ a \o b \in Seq(0 .. IndexMod - 1) /\ Len(a \o b) = s + n
      /\ \A i \in 1 .. s + n : (a \o b)[i] = IF i <= s THEN a[i] ELSE b[i - s]
  BY <1>2, <1>3, ConcatProperties
<1>6. ASSUME NEW i \in 1 .. s + n PROVE (a \o b)[i] = c[i]
  <2>1. CASE i <= s
    BY <1>2, <1>4, <1>5, <2>1
  <2>2. CASE ~(i <= s)
    <3>1. i - s \in 1 .. n /\ i - s - 1 \in Nat /\ s + (i - s - 1) <= IndexMod
      BY <2>2, Lengths
    <3>2. b[i - s] = (w + (i - s) - 1) % IndexMod
      BY <1>3, <3>1
    <3> DEFINE j == i - s - 1
    <3>3. j \in Nat /\ s + j <= IndexMod /\ r + s + j = r + i - 1 /\ w + (i - s) - 1 = w + j
      BY <1>1, <3>1
    <3> HIDE DEF j
    <3>4. (((r + s) % IndexMod) + j) % IndexMod = (r + s + j) % IndexMod
      BY <3>3, Lengths, Twice
    <3> QED BY <1>4, <1>5, <2>2, <3>2, <3>3, <3>4 DEF w
  <2> QED BY <2>1, <2>2
<1>7. a \o b = c
  BY <1>4, <1>5, <1>6, SeqEqual
<1> QED BY <1>7 DEF a, b, c, w

LEMMA RunParts ==
  ASSUME NEW r \in 0 .. IndexMod - 1, NEW s \in Nat, NEW n \in 0 .. s, s <= IndexMod
  PROVE  /\ SubSeq(Run(r, s), 1, n) = Run(r, n)
         /\ SubSeq(Run(r, s), n + 1, s) = Run((r + n) % IndexMod, s - n)
<1> DEFINE w == (r + n) % IndexMod
           a == Run(r, s)
           b == Run(r, n)
           c == Run(w, s - n)
<1>1. w \in Int /\ s - n \in Nat /\ n \in Nat
  BY Lengths
<1> HIDE DEF w
<1>2. a \in Seq(0 .. IndexMod - 1) /\ Len(a) = s /\ \A i \in 1 .. s : a[i] = (r + i - 1) % IndexMod
  BY RunIs, Lengths
<1>3. b \in Seq(0 .. IndexMod - 1) /\ Len(b) = n /\ \A i \in 1 .. n : b[i] = (r + i - 1) % IndexMod
  BY <1>1, RunIs, Lengths
<1>4. c \in Seq(0 .. IndexMod - 1) /\ Len(c) = s - n /\ \A i \in 1 .. s - n : c[i] = (w + i - 1) % IndexMod
  BY <1>1, RunIs
<1>5. \A i \in 1 .. s : a[i] \in 0 .. IndexMod - 1
  <2>1. a \in [1 .. s -> 0 .. IndexMod - 1]
    BY RunIs, Lengths
  <2> HIDE DEF a
  <2> QED BY <2>1
<1> HIDE DEF a, b, c
<1>6. SubSeq(a, 1, n) = b
  <2>1. \A i \in 1 .. n : a[i] \in 0 .. IndexMod - 1
    BY <1>1, <1>5
  <2>2. /\ SubSeq(a, 1, n) \in Seq(0 .. IndexMod - 1)
        /\ Len(SubSeq(a, 1, n)) = IF 1 <= n THEN n - 1 + 1 ELSE 0
        /\ \A i \in 1 .. n - 1 + 1 : SubSeq(a, 1, n)[i] = a[1 + i - 1]
    BY <1>1, <2>1, SubSeqProperties
  <2>3. Len(SubSeq(a, 1, n)) = n /\ \A i \in 1 .. n : SubSeq(a, 1, n)[i] = b[i]
    BY <1>1, <1>2, <1>3, <2>2
  <2> QED BY <1>3, <2>2, <2>3, SeqEqual
<1>7. SubSeq(a, n + 1, s) = c
  <2>1. \A i \in n + 1 .. s : a[i] \in 0 .. IndexMod - 1
    BY <1>1, <1>5
  <2>2. /\ SubSeq(a, n + 1, s) \in Seq(0 .. IndexMod - 1)
        /\ Len(SubSeq(a, n + 1, s)) = IF n + 1 <= s THEN s - (n + 1) + 1 ELSE 0
        /\ \A i \in 1 .. s - (n + 1) + 1 : SubSeq(a, n + 1, s)[i] = a[n + 1 + i - 1]
    BY <1>1, <2>1, SubSeqProperties
  <2>3. ASSUME NEW i \in 1 .. s - n PROVE a[n + 1 + i - 1] = c[i]
    <3> DEFINE j == i - 1
    <3>1. /\ j \in Nat /\ n + j <= IndexMod /\ r + n + j = r + (n + 1 + i - 1) - 1 /\ w + i - 1 = w + j
          /\ n + 1 + i - 1 \in 1 .. s
      BY <1>1, Lengths
    <3> HIDE DEF j
    <3>2. (((r + n) % IndexMod) + j) % IndexMod = (r + n + j) % IndexMod
      BY <1>1, <3>1, Lengths, Twice
    <3> QED BY <1>2, <1>4, <3>1, <3>2 DEF w
  <2>4. Len(SubSeq(a, n + 1, s)) = s - n /\ s - (n + 1) + 1 = s - n
    BY <1>1, <2>2
  <2> QED BY <1>4, <2>2, <2>3, <2>4, SeqEqual
<1> QED BY <1>6, <1>7 DEF a, b, c, w

\* What can be read from the reader's place on is the run of its numbers.
Holds(b, p, r, n) == \A i \in 0 .. n - 1 : b[Cell(p + i)] = (r + i) % IndexMod
Piece(b, p, n) == [i \in 1 .. n |-> b[Cell(p + i - 1)]]

LEMMA ReadOff ==
  ASSUME NEW b, NEW p \in Int, NEW r \in Int, NEW s \in Nat, NEW k \in Nat, Holds(b, p, r, s + k)
  PROVE  Piece(b, p, s) = Run(r, s)
<1>1. ASSUME NEW i \in 1 .. s PROVE b[Cell(p + i - 1)] = (r + i - 1) % IndexMod
  <2>1. i - 1 \in 0 .. s + k - 1 /\ p + (i - 1) = p + i - 1 /\ r + (i - 1) = r + i - 1
    OBVIOUS
  <2>2. b[Cell(p + (i - 1))] = (r + (i - 1)) % IndexMod
    BY <2>1 DEF Holds
  <2> QED BY <2>1, <2>2
<1> QED BY <1>1 DEF Run, Piece

LEMMA ContentIsRun == ASSUME AudioInv PROVE Content = Run(rndx, Size) /\ Size \in Nat /\ rndx \in Int
<1>1. /\ Pending \in Nat /\ Size \in Nat /\ rptr \in Int /\ rndx \in Int
      /\ Holds(buffer, rptr, rndx, Size + Pending)
  BY InvTypes, Lengths, Apart DEF AudioInv, Numbers, Holds
<1>2. Piece(buffer, rptr, Size) = Run(rndx, Size)
  BY <1>1, ReadOff
<1> QED BY <1>1, <1>2 DEF Content, Piece

LEMMA ContentIsRunNext == ASSUME AudioInv' PROVE Content' = Run(rndx', Size')
<1> DEFINE b == buffer'
           p == rptr'
           r == rndx'
           n == Size'
           k == Pending'
<1>1. k \in Nat /\ n \in Nat /\ p \in Int /\ r \in Int
  BY Lengths DEF AudioInv, TypeOK, RingIntact, Pending
<1>2. \A i \in 0 .. n + k - 1 : b[Cell(p + i)] = (r + i) % IndexMod
  BY DEF AudioInv, Numbers, Cell
<1> HIDE DEF b, p, r, n, k
<1>3. Holds(b, p, r, n + k)
  BY <1>1, <1>2 DEF Holds
<1>4. Piece(b, p, n) = Run(r, n)
  BY <1>1, <1>3, ReadOff
<1> QED BY <1>4 DEF Content, Piece, Cell, b, p, r, n

----------------------------------------------------------------------------
\* Each step is one of the queue's, or none.
LEMMA Stutters ==
  ASSUME Content' = Content, chunk' = chunk, Taken' = Taken, upc' = "paused" <=> upc = "paused"
  PROVE  UNCHANGED Promise!vars
<1>1. (upc = "paused")' = (upc = "paused")
  BY Zenon
<1> QED BY <1>1 DEF Promise!vars

LEMMA SameContent == ASSUME UNCHANGED fifo PROVE Content' = Content
<1>1. UNCHANGED <<buffer, wptr, rptr, wndx, rndx>>
  BY DEF fifo
<1>2. Size' = Size
  BY <1>1 DEF Size
<1> QED BY <1>1, <1>2 DEF Content, Cell

LEMMA CopyOutHears == ASSUME AudioInv, CopyOut PROVE Promise!Hear
<1>1. /\ upc # "paused" /\ upc' = upc /\ chunk = <<>> /\ cpc' = "drain"
      /\ UNCHANGED <<fifo, player, amt, rptr, rndx>>
  BY DEF CopyOut, AudioInv, Returns, Reads, player, fifo
<1>2. AudioInv' /\ Taken' = Taken /\ Content' = Content
  BY CallbackKeeps, SameContent, <1>1
<1>3. amt \in Nat /\ 0 < amt /\ amt <= Size
  BY Lengths DEF AudioInv, TypeOK, Reads, CopyOut
<1>4. Segment \in 1 .. Size /\ Segment' = Segment
  BY <1>1, <1>3, InvTypes, Lengths DEF Segment, Least
<1> DEFINE n == Segment
<1> HIDE DEF n
<1>5. chunk' = Run(rndx, n)
  BY <1>1, <1>2, <1>4 DEF AudioInv, Reads, Run, n
<1>6. Content = Run(rndx, Size) /\ Size \in Nat /\ Size <= IndexMod /\ rndx \in 0 .. IndexMod - 1
  BY ContentIsRun, InvTypes, Lengths
<1>7. n \in 1 .. Size /\ n \in 0 .. Size
  BY <1>4, <1>6 DEF n
<1>8. SubSeq(Run(rndx, Size), 1, n) = Run(rndx, n)
  BY <1>6, <1>7, RunParts
<1>9. Len(Content) = Size
  BY <1>6, ContentIsRun, RunIs
<1>10. \E m \in 1 .. Len(Content) : chunk' = SubSeq(Content, 1, m)
  BY <1>5, <1>6, <1>7, <1>8, <1>9
<1>11. (upc = "paused")' = (upc = "paused")
  BY <1>1, Zenon
<1> QED BY <1>1, <1>2, <1>10, <1>11 DEF Promise!Hear

LEMMA DrainHeard == ASSUME AudioInv, Drain PROVE Promise!Heard
<1> DEFINE n == Segment
<1> HIDE DEF n
<1>1. n \in 1 .. Size /\ Len(chunk) = n /\ Size' = Size - n /\ rndx' = (rndx + n) % IndexMod
  BY DrainMoves DEF n
<1>2. AudioInv' /\ Taken' = Taken
  BY DrainKeeps
<1>3. Content = Run(rndx, Size) /\ Size \in Nat /\ Size <= IndexMod /\ rndx \in 0 .. IndexMod - 1
  BY ContentIsRun, InvTypes, Lengths
<1>4. Content' = Run(rndx', Size')
  BY <1>2, ContentIsRunNext
<1>5. n \in 0 .. Size
  BY <1>1, <1>3
<1>6. SubSeq(Run(rndx, Size), n + 1, Size) = Run((rndx + n) % IndexMod, Size - n)
  BY <1>3, <1>5, RunParts
<1>7. Len(Content) = Size
  BY <1>3, ContentIsRun, RunIs
<1>8. Content' = SubSeq(Content, Len(chunk) + 1, Len(Content))
  BY <1>1, <1>3, <1>4, <1>6, <1>7
<1>9. chunk # <<>>
  <2>1. Len(<<>>) = 0
    OBVIOUS
  <2> QED BY <1>1, <1>3, <2>1
<1>10. chunk' = <<>> /\ upc' = upc
  BY DEF Drain, player
<1>11. (upc = "paused")' = (upc = "paused")
  BY <1>10, Zenon
<1> QED BY <1>2, <1>8, <1>9, <1>10, <1>11 DEF Promise!Heard

LEMMA PublishTakes == ASSUME AudioInv, Publish PROVE Promise!Take \/ UNCHANGED Promise!vars
<1>1. Size' = Size + playsize /\ playsize \in Nat /\ Size + playsize <= BufferLen
  BY PublishMoves
<1>2. AudioInv' /\ Taken' = (Taken + playsize) % IndexMod
  BY PublishKeeps
<1>3. Content = Run(rndx, Size) /\ Size \in Nat /\ rndx \in 0 .. IndexMod - 1
  BY ContentIsRun, InvTypes
<1>4. Content' = Run(rndx', Size') /\ rndx' = rndx
  BY <1>2, ContentIsRunNext DEF Publish
<1>5. Taken = (rndx + Size) % IndexMod /\ Taken \in 0 .. IndexMod - 1
  BY Apart, InvTypes DEF AudioInv, Numbers
<1>6. upc # "paused" /\ upc' # "paused" /\ chunk' = chunk
  BY DEF Publish, callback
<1>7. CASE playsize = 0
  <2>1. Content' = Content
    BY <1>1, <1>3, <1>4, <1>7
  <2>2. Taken' = Taken
    BY <1>2, <1>5, <1>7, Lengths
  <2> QED BY <1>6, <2>1, <2>2, Stutters
<1>8. CASE playsize # 0
  <2>1. Run(rndx, Size) \o Run((rndx + Size) % IndexMod, playsize) = Run(rndx, Size + playsize)
    <3>1. Size + playsize <= IndexMod
      BY <1>1, <1>3, Lengths
    <3> QED BY <1>1, <1>3, <3>1, RunJoin
  <2>2. Content' = Content \o [i \in 1 .. playsize |-> (Taken + i - 1) % IndexMod]
    BY <1>1, <1>3, <1>4, <1>5, <2>1 DEF Run
  <2>3. Len(Content) = Size
    BY <1>3, ContentIsRun, RunIs
  <2>4. playsize \in 1 .. BufferLen - Len(Content)
    BY <1>1, <1>3, <1>8, <2>3, Lengths
  <2>5. (upc = "paused")' = (upc = "paused")
    BY <1>6, Zenon
  <2> QED BY <1>2, <1>6, <2>2, <2>4, <2>5 DEF Promise!Take
<1> QED BY <1>7, <1>8

LEMMA ResetResets == ASSUME AudioInv, Reset PROVE Promise!Reset
<1>1. AudioInv' /\ Taken' = 0 /\ Size' = 0
  BY ResetKeeps
<1>2. /\ cpc = "idle" /\ chunk = <<>> /\ chunk' = chunk /\ upc # "paused" /\ upc' # "paused"
  BY DEF Reset, AudioInv, Returns, Reads, callback
<1>3. Content' = <<>>
  BY <1>1 DEF Content
<1>4. (upc = "paused")' = (upc = "paused")
  BY <1>2, Zenon
<1> QED BY <1>1, <1>2, <1>3, <1>4 DEF Promise!Reset

LEMMA StopPauses == ASSUME AllStopsWait, AudioInv, Stop PROVE Promise!Pause \/ UNCHANGED Promise!vars
<1>1. Taken' = Taken /\ UNCHANGED fifo /\ chunk' = chunk
  BY DeviceKeeps DEF RingKept, callback
<1>2. Content' = Content
  BY <1>1, SameContent
<1>3. upc = "stop" /\ upc' = IF back = "paused" THEN "paused" ELSE "reset"
  BY DEF Stop
<1>4. CASE back = "paused"
  <2>1. cpc = "idle"
    BY InvTypes DEF Stop, MayStop, AllStopsWait
  <2>2. chunk = <<>>
    BY <2>1 DEF AudioInv, Reads
  <2>3. (upc = "paused")' = TRUE
    BY <1>3, <1>4, Zenon
  <2> QED BY <1>1, <1>2, <2>2, <2>3 DEF Promise!Pause
<1>5. CASE back # "paused"
  BY <1>1, <1>2, <1>3, <1>5, Stutters
<1> QED BY <1>4, <1>5

LEMMA UnpauseResumes == ASSUME AudioInv, Unpause PROVE Promise!Resume
<1>1. Taken' = Taken /\ UNCHANGED fifo /\ chunk' = chunk
  BY FillKeeps DEF RingKept, callback
<1>2. upc' # "paused"
  BY DEF Unpause
<1>3. (upc = "paused")' = FALSE
  BY <1>2, Zenon
<1> QED BY <1>1, <1>3, SameContent DEF Promise!Resume

\* The rest is not the queue's affair.
LEMMA OthersStutter ==
  ASSUME AllStopsWait, AudioInv,
         \/ (\E req \in Requests : Render(req)) \/ ReadBuffer \/ SelfStop \/ SelfFlag
         \/ FillDone \/ Decode \/ Restore \/ Play \/ CopyIn \/ Played \/ Resume \/ ResumeDone
         \/ Fill \/ Pause \/ Seek
  PROVE  UNCHANGED Promise!vars
<1>1. CASE (\E req \in Requests : Render(req)) \/ ReadBuffer \/ SelfStop \/ SelfFlag
  <2>1. Taken' = Taken /\ UNCHANGED <<fifo, player>> /\ chunk' = chunk
    BY <1>1, CallbackKeeps DEF Render, ReadBuffer, SelfStop, SelfFlag, AudioInv, Reads
  <2>2. Content' = Content /\ upc' = upc
    BY <2>1, SameContent DEF player
  <2> QED BY <2>1, <2>2, Stutters
<1>2. CASE CopyIn
  <2>1. Content' = Content /\ Taken' = Taken
    BY <1>2, CopyInKeeps
  <2>2. chunk' = chunk /\ upc # "paused" /\ upc' # "paused"
    BY <1>2 DEF CopyIn, callback
  <2> QED BY <2>1, <2>2, Stutters
<1>3. CASE FillDone \/ Decode \/ Restore \/ Play \/ Played \/ Resume \/ ResumeDone \/ Fill \/ Pause \/ Seek
  <2>1. Taken' = Taken /\ RingKept
    BY <1>3, FillKeeps, DecodeKeeps, PlayKeeps, PlayedKeeps, DeviceKeeps
  <2>2. Content' = Content /\ chunk' = chunk
    BY <2>1, SameContent DEF RingKept, callback
  <2>3. upc # "paused" /\ upc' # "paused"
    BY <1>3 DEF FillDone, Decode, Restore, Play, Played, Resume, ResumeDone, Fill, Pause, Seek, AudioInv, Returns
  <2> QED BY <2>1, <2>2, <2>3, Stutters
<1> QED BY <1>1, <1>2, <1>3

LEMMA NextImplements ==
  ASSUME AllStopsWait, AudioInv, [Next]_vars
  PROVE  [Promise!Next]_(Promise!vars)
<1>1. CASE Callback
  BY <1>1, OthersStutter, CopyOutHears, DrainHeard DEF Callback, Promise!Next
<1>2. CASE PlayerStep
  BY <1>2, OthersStutter, PublishTakes, ResetResets, StopPauses DEF PlayerStep, Promise!Next
<1>3. CASE PlayerChoice
  BY <1>3, OthersStutter, UnpauseResumes DEF PlayerChoice, Promise!Next
<1>4. CASE UNCHANGED vars
  <2>1. UNCHANGED <<fifo, chunk, upc, back, next, playsize>>
    BY <1>4 DEF vars, player, filling, callback
  <2>2. Content' = Content /\ Taken' = Taken
    BY <2>1, SameContent DEF Taken
  <2> QED BY <2>1, <2>2, Stutters
<1> QED BY <1>1, <1>2, <1>3, <1>4 DEF Next

LEMMA InitImplements == Init => Promise!Init
<1> SUFFICES ASSUME Init PROVE Promise!Init
  OBVIOUS
<1>1. Size = 0
  <2>1. (0 - 0) % IndexMod = 0 /\ 0 < IndexMod \div 2
    BY Lengths
  <2> QED BY <2>1 DEF Init, Size
<1>2. Content = <<>>
  BY <1>1 DEF Content
<1>3. Taken = 0 /\ chunk = <<>> /\ upc = "main"
  BY DEF Init, Taken
<1>4. (upc = "paused") = FALSE
  BY <1>3, Zenon
<1> QED BY <1>2, <1>3, <1>4 DEF Promise!Init

\* The bytes play() took are heard once, in order, never after a reset or in a
\* pause: the outputs implement libao2's promise.
THEOREM OutputsKeepThePromise == AllStopsWait => (Spec => ImplementsSoundQueue)
<1>1. ASSUME AllStopsWait PROVE Spec => ImplementsSoundQueue
  <2>1. AllStopsWait
    BY <1>1
  <2>2. Init => Promise!Init
    BY InitImplements
  <2>3. AudioInv /\ [Next]_vars => [Promise!Next]_(Promise!vars)
    BY <2>1, NextImplements
  <2>4. Spec => []AudioInv
    BY <2>1, AudioInvariant
  <2> QED BY <2>2, <2>3, <2>4, PTL DEF Spec, ImplementsSoundQueue, Promise!Spec
<1> QED BY <1>1
=============================================================================
