----------------------------- MODULE SoundQueue -----------------------------
(***************************************************************************)
(* What DOCS/tech/libao2.txt promises of an audio output: play() keeps the *)
(* bytes it takes, they are heard in their order and once, "after reset()  *)
(* the previously received stuff won't be output", and audio_pause stops   *)
(* the sound without deleting what is buffered.  Bytes are numbered from   *)
(* the last reset, modulo Ids.                                             *)
(***************************************************************************)
EXTENDS Integers, Sequences

CONSTANTS Capacity, Ids

VARIABLES
  queue,  \* taken by play() and not yet heard
  next,   \* the number of the byte play() takes next
  sound,  \* the bytes that are being heard
  quiet   \* paused by the user

vars == <<queue, next, sound, quiet>>

Init == queue = <<>> /\ next = 0 /\ sound = <<>> /\ quiet = FALSE

Take ==
  \E n \in 1 .. Capacity - Len(queue) :
    /\ queue' = queue \o [i \in 1 .. n |-> (next + i - 1) % Ids]
    /\ next' = (next + n) % Ids
    /\ UNCHANGED <<sound, quiet>>

Hear ==
  /\ ~quiet /\ sound = <<>>
  /\ \E n \in 1 .. Len(queue) : sound' = SubSeq(queue, 1, n)
  /\ UNCHANGED <<queue, next, quiet>>

Heard ==
  /\ sound # <<>> /\ sound' = <<>>
  /\ queue' = SubSeq(queue, Len(sound) + 1, Len(queue))
  /\ UNCHANGED <<next, quiet>>

\* Nothing is half heard when reset and audio_pause have done their work.
Reset  == sound = <<>> /\ queue' = <<>> /\ next' = 0 /\ UNCHANGED <<sound, quiet>>
Pause  == sound = <<>> /\ quiet' = TRUE /\ UNCHANGED <<queue, next, sound>>
Resume == quiet' = FALSE /\ UNCHANGED <<queue, next, sound>>

Next == Take \/ Hear \/ Heard \/ Reset \/ Pause \/ Resume

Spec == Init /\ [][Next]_vars
=============================================================================
