-------------------------- MODULE SeekableStream --------------------------
(***************************************************************************)
(* What a cached stream promises the demuxers above it: it is one sector   *)
(* buffer over a file. A read replaces the buffer by the next bytes of the *)
(* file and moves the position past them, or reports the end of the file   *)
(* and leaves the position alone; a seek moves the position and nothing    *)
(* else does. The bytes of the file are represented by their positions.    *)
(***************************************************************************)
EXTENDS Integers, Sequences

CONSTANTS SectorSize, Positions   \* where a seek may go

VARIABLES pos, eof, data
vars == <<pos, eof, data>>

Init == pos = 0 /\ eof = FALSE /\ data = <<>>

Bytes(from, n) == [i \in 1 .. n |-> from + i - 1]

Drop == data' = <<>> /\ UNCHANGED <<pos, eof>>

Read ==
  /\ data = <<>>
  /\ \E n \in 1 .. SectorSize : data' = Bytes(pos, n) /\ pos' = pos + n
  /\ eof' = FALSE

ReadNothing ==
  /\ data = <<>> /\ eof' = TRUE
  /\ UNCHANGED <<pos, data>>

Seek == pos' \in Positions /\ eof' \in BOOLEAN /\ UNCHANGED data

Next == Drop \/ Read \/ ReadNothing \/ Seek

Spec == Init /\ [][Next]_vars
============================================================================
