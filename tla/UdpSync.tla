------------------------------- MODULE UdpSync -------------------------------
(***************************************************************************)
(* Two players on one file, udp_sync.c: a master (-udp-master) sends its   *)
(* position in a datagram before each frame, while paused again and again, *)
(* and "bye" when it exits; a slave (-udp-slave) plays, waits, runs or     *)
(* seeks to match it, goes on alone after 30 seconds of silence, and exits *)
(* with its master.  The network may lose, duplicate and reorder.          *)
(*                                                                         *)
(* Positions are frame numbers.  UDP_TIMING_TOLERANCE is less than a frame.*)
(***************************************************************************)
EXTENDS Integers, Sequences

CONSTANTS
  Last,        \* the last frame of the file
  KeyFrames,   \* where a seek may land: at the one at or before its target
  Threshold,   \* udp_seek_threshold
  SocketRoom   \* datagrams the slave's socket holds

ASSUME UdpAssumption ==
  /\ Last \in Nat /\ SocketRoom \in Nat \ {0}
  /\ KeyFrames \subseteq 0 .. Last /\ 0 \in KeyFrames
  /\ Threshold \in Nat /\ Threshold >= 2

Frames == 0 .. Last
Bye    == -2

VARIABLES
  mpc, mpos, mskip,       \* the master; sh_video->pts; the first frame after a seek
  announced,              \* history: the furthest position ever sent
  chan,                   \* the slave's socket
  spc, spos, sskip,       \* the slave; sh_video->pts
  shown,                  \* the frame on the slave's screen, or -1
  udp_master_position, timed_out

master == <<mpc, mpos, mskip, announced>>
slave  == <<spc, spos, sskip, shown, udp_master_position, timed_out>>
vars   == <<master, chan, slave>>

FarBehind(a, b) == b - a > Threshold
Far(a, b) == a - b > Threshold \/ b - a > Threshold
Greater(a, b) == IF a > b THEN a ELSE b

\* The slave starts the file, the master may be anywhere.
Init ==
  /\ mpc = "playing" /\ mpos \in Frames /\ mskip = TRUE /\ announced = -1
  /\ chan = <<>>
  /\ spc = "ready" /\ spos = 0 /\ sskip = TRUE /\ shown = -1
  /\ udp_master_position = 1 - (Threshold \div 2)   \* of the first call, at frame 1
  /\ timed_out = FALSE

----------------------------------------------------------------------------
\* sendto: lost, put at the end, in front of the newest, or twice.
Arrives(m) == Len(chan) < SocketRoom /\ chan' = Append(chan, m)
Overtaken(m) ==
  /\ chan # <<>> /\ Len(chan) < SocketRoom
  /\ chan' = Append(Append(SubSeq(chan, 1, Len(chan) - 1), m), chan[Len(chan)])
Twice(m) == Len(chan) < SocketRoom - 1 /\ chan' = chan \o <<m, m>>

Network(m) == chan' = chan \/ Arrives(m) \/ Overtaken(m) \/ Twice(m)

handle_udp_master(p) == Network(p) /\ announced' = Greater(announced, p)

\* A frame is announced and played; the first after a seek is played at once.
MasterFrame ==
  /\ mpc = "playing" /\ mpos < Last
  /\ IF mskip THEN UNCHANGED <<chan, announced>> ELSE handle_udp_master(mpos)
  /\ mpos' = mpos + 1 /\ mskip' = FALSE
  /\ UNCHANGED <<mpc, slave>>

\* sleep_until_update slept only a part of a long frame time.
MasterWaits ==
  /\ mpc = "playing" /\ ~mskip
  /\ handle_udp_master(mpos)
  /\ UNCHANGED <<mpc, mpos, mskip, slave>>

MasterSeeks ==
  /\ mpc = "playing" /\ mpos' \in KeyFrames /\ mskip' = TRUE
  /\ UNCHANGED <<mpc, announced, chan, slave>>

MasterPauses ==
  /\ mpc = "playing" /\ mpc' = "paused"
  /\ UNCHANGED <<mpos, mskip, announced, chan, slave>>

MasterRepeats ==
  /\ mpc = "paused" /\ handle_udp_master(mpos)
  /\ UNCHANGED <<mpc, mpos, mskip, slave>>

MasterResumes ==
  /\ mpc = "paused" /\ mpc' = "playing"
  /\ UNCHANGED <<mpos, mskip, announced, chan, slave>>

\* exit_player_with_rc, or a crash
MasterExits ==
  /\ mpc # "gone" /\ mpc' = "gone"
  /\ Network(Bye)
  /\ UNCHANGED <<mpos, mskip, announced, slave>>

MasterDies ==
  /\ mpc # "gone" /\ mpc' = "gone"
  /\ UNCHANGED <<mpos, mskip, announced, chan, slave>>

----------------------------------------------------------------------------
\* get_udp reads what is there, up to a bye: 1, 0 or -1, and the last position.
get_udpLast ==
  IF chan = <<>> THEN [ret |-> -1, pos |-> udp_master_position, rest |-> <<>>]
  ELSE IF chan[Len(chan)] = Bye THEN [ret |-> 1, pos |-> udp_master_position, rest |-> <<>>]
  ELSE [ret |-> 0, pos |-> chan[Len(chan)], rest |-> <<>>]
get_udp ==
  LET byes == {i \in DOMAIN chan : chan[i] = Bye}
      end  == IF byes = {} THEN Len(chan)
              ELSE (CHOOSE i \in byes : \A j \in byes : i <= j) - 1
  IN [ret  |-> IF byes # {} THEN 1 ELSE IF chan = <<>> THEN -1 ELSE 0,
      pos  |-> IF end = 0 THEN udp_master_position ELSE chan[end],
      rest |-> SubSeq(chan, end + 2, Len(chan))]

\* The loop of udp_slave_sync: where a result of get_udp leads.
Looks(ret, timedOut) == ret = 0 \/ (ret = -1 /\ ~timedOut)

VerdictRuns(ret, pos, timedOut) ==
  IF ~Looks(ret, timedOut) THEN "done"
  ELSE IF Far(spos, pos) THEN "seek" ELSE "done"
Verdict(ret, pos, timedOut) ==
  IF ~Looks(ret, timedOut) THEN "done"
  ELSE IF Far(spos, pos) THEN "seek"
  ELSE IF pos >= spos THEN "done" ELSE "block"

\* What a seek to the frame target reaches.
Landing(target) ==
  CHOOSE k \in KeyFrames : k <= target /\ \A j \in KeyFrames : j <= target => j <= k

\* The frame is flipped and a seek carried out; the file ends after its last frame.
ShowFrame(seeks, target) ==
  /\ shown' = spos
  /\ IF seeks THEN spos' = Landing(Greater(target, 0)) /\ sskip' = TRUE /\ spc' = "ready"
     ELSE IF spos = Last THEN spc' = "exited" /\ UNCHANGED <<spos, sskip>>
     ELSE spos' = spos + 1 /\ sskip' = FALSE /\ spc' = "ready"

\* After the loop: exit, or show the frame, at once or after normal timing.
Finish(ret, pos, timedOut) ==
  /\ udp_master_position' = pos
  /\ IF ret >= 0 THEN timed_out' = FALSE
     ELSE timed_out' \in {timedOut, TRUE}    \* 30 seconds since last_success
  /\ IF ret = 1 THEN spc' = "exited" /\ UNCHANGED <<spos, sskip, shown>>
     ELSE ShowFrame(Verdict(ret, pos, timedOut) = "seek", pos)

Act(ret, pos, timedOut) ==
  IF Verdict(ret, pos, timedOut) = "block"
  THEN /\ spc' = "blocked" /\ udp_master_position' = pos /\ timed_out' = timedOut
       /\ UNCHANGED <<spos, sskip, shown>>
  ELSE Finish(ret, pos, timedOut)

\* The first frame after a seek or the start is shown without udp_slave_sync.
SlaveSkips ==
  /\ spc = "ready" /\ sskip
  /\ ShowFrame(FALSE, 0)
  /\ UNCHANGED <<master, chan, udp_master_position, timed_out>>

SlaveSyncs ==
  /\ spc = "ready" /\ ~sskip
  /\ Act(get_udp.ret, get_udp.pos, timed_out)
  /\ chan' = get_udp.rest
  /\ UNCHANGED master

\* The blocking get_udp returns with the datagrams that have come, or times out.
SlaveWakes ==
  /\ spc = "blocked" /\ chan # <<>>
  /\ Act(get_udp.ret, get_udp.pos, timed_out)
  /\ chan' = get_udp.rest
  /\ UNCHANGED master

SlaveTimesOut ==
  /\ spc = "blocked" /\ chan = <<>>
  /\ Act(-1, udp_master_position, TRUE)
  /\ UNCHANGED <<master, chan>>

Slave  == SlaveSkips \/ SlaveSyncs \/ SlaveWakes \/ SlaveTimesOut
Master == \/ MasterFrame \/ MasterWaits \/ MasterSeeks \/ MasterPauses
          \/ MasterRepeats \/ MasterResumes \/ MasterExits \/ MasterDies

Next == Slave \/ Master

Spec == Init /\ [][Next]_vars

\* The slave runs, and of what a paused master repeats some gets through.
FairSpec ==
  /\ Spec /\ WF_vars(Slave)
  /\ SF_vars(MasterRepeats /\ Arrives(mpos))

----------------------------------------------------------------------------
TypeOK ==
  /\ mpc \in {"playing", "paused", "gone"} /\ mpos \in Frames /\ mskip \in BOOLEAN
  /\ announced \in -1 .. Last
  /\ chan \in Seq(Frames \union {Bye}) /\ Len(chan) <= SocketRoom
  /\ spc \in {"ready", "blocked", "exited"} /\ spos \in Frames /\ sskip \in BOOLEAN
  /\ shown \in -1 .. Last
  /\ udp_master_position \in 1 - Threshold .. Last /\ timed_out \in BOOLEAN

\* Whatever is lost, repeated or late: a slave that neither seeks nor gave its
\* master up shows no frame the master has not announced (the -udp-master text:
\* "just before playing each frame").  The first frame after a seek is exempt.
InStep ==
  [][(shown' # shown /\ ~sskip /\ ~sskip' /\ ~timed_out') => shown' <= announced]_vars

\* mplayer.1, -udp-slave: "match the master's position".  With a paused master the
\* slave runs or seeks until it shows the master's frame, or waits at most
\* Threshold ahead of it.
FollowsMaster ==
  (mpc = "paused") ~> (mpc # "paused" \/ spc = "exited" \/ shown \in mpos .. mpos + Threshold)

\* A bye that arrived ends the slave when it next reads, whatever came before or
\* after it: "if the master has exited, returns 1" (udp_sync.c:88).
ByeWaits == \E i \in DOMAIN chan : chan[i] = Bye
ByeIsObeyed == [][ByeWaits /\ ~ByeWaits' => spc' = "exited"]_vars

\* And a master that is gone, with or without a bye, leaves the slave neither
\* blocked nor bound: it exits or goes on alone.
EndsWithMaster ==
  /\ ByeIsObeyed
  /\ (mpc = "gone") ~> (spc = "exited" \/ timed_out)
=============================================================================
