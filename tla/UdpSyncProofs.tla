---------------------------- MODULE UdpSyncProofs ----------------------------
(***************************************************************************)
(* Proofs about UdpSync, for every file, threshold and socket, and a       *)
(* network that loses, repeats and reorders.                               *)
(***************************************************************************)
EXTENDS UdpSync, SequenceTheorems, WellFoundedInduction, TLAPS

Datagrams == Frames \union {Bye}

\* What the slave believes was announced, but for its own first guess; and a
\* frame that is synchronised is not the first of the file.
Announced ==
  /\ \A i \in DOMAIN chan : chan[i] <= announced
  /\ udp_master_position <= Greater(announced, 0)
  /\ ~sskip => spos >= 1

Inv == TypeOK /\ Announced

----------------------------------------------------------------------------
\* A set of naturals has a least element.
LEMMA LeastNat ==
  ASSUME NEW T, T \subseteq Nat, T # {}
  PROVE  \E x \in T : \A y \in T : x <= y
<1>1. PICK x \in T : \A y \in T : ~ (<<y, x>> \in OpToRel(<, Nat))
  BY NatLessThanWellFounded, WFMin
<1>2. \A y \in T : ~ (y < x)
  BY <1>1 DEF OpToRel
<1> QED BY <1>2

\* A seek lands on a frame of the file.
LEMMA LandingIsFrame == ASSUME NEW t \in Nat PROVE Landing(t) \in Frames
<1> DEFINE below == {k \in KeyFrames : k <= t}
           back  == {t - k : k \in below}
<1>0. KeyFrames \subseteq 0 .. Last /\ 0 \in KeyFrames /\ Last \in Nat
  BY UdpAssumption DEF UdpAssumption
<1>1. back \subseteq Nat /\ t - 0 \in back
  BY <1>0
<1>2. PICK b \in back : \A y \in back : b <= y
  BY <1>1, LeastNat
<1>3. PICK k \in below : b = t - k
  BY <1>2
<1>4. \A j \in KeyFrames : j <= t => j <= k
  <2> SUFFICES ASSUME NEW j \in KeyFrames, j <= t PROVE j <= k
    OBVIOUS
  <2>1. t - j \in back
    OBVIOUS
  <2>2. b <= t - j
    BY <1>2, <2>1
  <2> QED BY <1>0, <1>3, <2>2
<1>5. \E m \in KeyFrames : m <= t /\ \A j \in KeyFrames : j <= t => j <= m
  BY <1>3, <1>4
<1>6. Landing(t) \in KeyFrames
  BY <1>5 DEF Landing
<1> QED BY <1>0, <1>6 DEF Frames

----------------------------------------------------------------------------
\* What the network leaves in the socket: what was there, and the datagram.
Delivered(m) ==
  /\ chan' \in Seq(Datagrams) /\ Len(chan') <= SocketRoom
  /\ \A i \in DOMAIN chan : \E j \in DOMAIN chan' : chan'[j] = chan[i]
  /\ \A j \in DOMAIN chan' : chan'[j] = m \/ \E i \in DOMAIN chan : chan'[j] = chan[i]

LEMMA NetworkDelivers ==
  ASSUME chan \in Seq(Datagrams), Len(chan) <= SocketRoom,
         NEW m \in Datagrams, Network(m)
  PROVE  Delivered(m)
<1> DEFINE n == Len(chan)
<1>0. n \in Nat /\ n = Len(chan) /\ DOMAIN chan = 1 .. n /\ n <= SocketRoom
      /\ \A i \in 1 .. n : chan[i] \in Datagrams
  OBVIOUS
<1> HIDE DEF n
<1>1. CASE chan' = chan
  BY <1>1 DEF Delivered
<1>2. CASE Arrives(m)
  <2>1. chan' = Append(chan, m) /\ n < SocketRoom
    BY <1>2 DEF Arrives, n
  <2>2. chan' \in Seq(Datagrams) /\ Len(chan') = n + 1
    BY <1>0, <2>1
  <2>3. (\A i \in 1 .. n : chan'[i] = chan[i]) /\ chan'[n + 1] = m
    BY <1>0, <2>1
  <2> QED BY <1>0, <2>1, <2>2, <2>3, UdpAssumption DEF Delivered, UdpAssumption
<1>3. CASE Overtaken(m)
  <2> DEFINE s == SubSeq(chan, 1, n - 1)
             last == chan[n]
  <2>0. n >= 1 /\ last \in Datagrams /\ n < SocketRoom /\ chan' = Append(Append(s, m), last)
    BY <1>0, <1>3, EmptySeq DEF Overtaken, n
  <2>1. s \in Seq(Datagrams) /\ Len(s) = n - 1 /\ \A i \in 1 .. n - 1 : s[i] = chan[i]
    BY <1>0, <2>0, SubSeqProperties
  <2> HIDE DEF s
  <2>2. /\ chan' \in Seq(Datagrams) /\ Len(chan') = n + 1 /\ DOMAIN chan' = 1 .. n + 1
        /\ \A i \in 1 .. n - 1 : chan'[i] = s[i]
        /\ chan'[n] = m /\ chan'[n + 1] = last
    BY <1>0, <2>0, <2>1
  <2> HIDE DEF last
  <2>3. ASSUME NEW i \in DOMAIN chan PROVE \E j \in DOMAIN chan' : chan'[j] = chan[i]
    <3>1. CASE i = n
      <4>1. n + 1 \in DOMAIN chan' /\ chan'[n + 1] = chan[i]
        BY <1>0, <2>0, <2>2, <3>1 DEF last
      <4> QED BY <4>1
    <3>2. CASE i # n
      <4>1. i \in 1 .. n - 1 /\ i \in DOMAIN chan'
        BY <1>0, <2>0, <2>2, <3>2
      <4> QED BY <2>1, <2>2, <4>1
    <3> QED BY <3>1, <3>2
  <2>4. ASSUME NEW j \in DOMAIN chan' PROVE chan'[j] = m \/ \E i \in DOMAIN chan : chan'[j] = chan[i]
    <3>0. j \in 1 .. n + 1
      BY <1>0, <2>2
    <3>1. CASE j = n + 1
      <4>1. n \in DOMAIN chan /\ chan'[j] = chan[n]
        BY <1>0, <2>0, <2>2, <3>1 DEF last
      <4> QED BY <4>1
    <3>2. CASE j < n
      <4>1. j \in 1 .. n - 1 /\ j \in DOMAIN chan
        BY <1>0, <3>0, <3>2
      <4> QED BY <2>1, <2>2, <4>1
    <3> QED BY <1>0, <2>2, <3>0, <3>1, <3>2
  <2>5. Len(chan') <= SocketRoom
    BY <1>0, <2>0, <2>2, UdpAssumption DEF UdpAssumption
  <2> QED BY <2>2, <2>3, <2>4, <2>5 DEF Delivered
<1>4. CASE Twice(m)
  <2> DEFINE t == <<m, m>>
  <2>0. n < SocketRoom - 1 /\ chan' = chan \o t
    BY <1>4 DEF Twice, n
  <2>1. t \in Seq(Datagrams) /\ Len(t) = 2 /\ t[1] = m /\ t[2] = m
    OBVIOUS
  <2> HIDE DEF t
  <2>2. chan' \in Seq(Datagrams) /\ Len(chan') = n + 2
        /\ \A j \in 1 .. n + 2 : chan'[j] = IF j <= n THEN chan[j] ELSE t[j - n]
    <3>1. /\ chan \o t \in Seq(Datagrams) /\ Len(chan \o t) = Len(chan) + Len(t)
          /\ \A j \in 1 .. Len(chan) + Len(t) :
               (chan \o t)[j] = IF j <= Len(chan) THEN chan[j] ELSE t[j - Len(chan)]
      BY <2>1, ConcatProperties
    <3> QED BY <1>0, <2>0, <2>1, <3>1
  <2>3. \A i \in DOMAIN chan : \E j \in DOMAIN chan' : chan'[j] = chan[i]
    BY <1>0, <2>2
  <2>4. \A j \in DOMAIN chan' : chan'[j] = m \/ \E i \in DOMAIN chan : chan'[j] = chan[i]
    BY <1>0, <2>1, <2>2
  <2> QED BY <1>0, <2>0, <2>2, <2>3, <2>4, UdpAssumption DEF Delivered, UdpAssumption
<1> QED BY <1>1, <1>2, <1>3, <1>4 DEF Network

\* get_udp gives the last position it read or the one it was given, and says
\* whether it met a bye.
LEMMA GetUdp ==
  ASSUME chan \in Seq(Datagrams), Len(chan) <= SocketRoom
  PROVE  /\ get_udp.ret \in {-1, 0, 1} /\ (get_udp.ret = 1 <=> ByeWaits)
         /\ get_udp.pos = udp_master_position \/ \E i \in DOMAIN chan : chan[i] = get_udp.pos /\ chan[i] # Bye
         /\ get_udp.rest \in Seq(Datagrams) /\ Len(get_udp.rest) <= SocketRoom
         /\ \A j \in DOMAIN get_udp.rest : \E i \in DOMAIN chan : get_udp.rest[j] = chan[i]
<1> DEFINE byes == {i \in DOMAIN chan : chan[i] = Bye}
           n    == Len(chan)
           first == CHOOSE i \in byes : \A j \in byes : i <= j
           end  == IF byes = {} THEN n ELSE first - 1
<1>0. n \in Nat /\ DOMAIN chan = 1 .. n /\ byes \subseteq Nat /\ (byes # {} <=> ByeWaits)
  BY DEF ByeWaits
<1>1. byes # {} => first \in byes /\ \A j \in byes : first <= j
  <2>1. byes # {} => \E i \in byes : \A j \in byes : i <= j
    BY <1>0, LeastNat
  <2> QED BY <2>1
<1>2. get_udp = [ret  |-> IF byes # {} THEN 1 ELSE IF chan = <<>> THEN -1 ELSE 0,
                 pos  |-> IF end = 0 THEN udp_master_position ELSE chan[end],
                 rest |-> SubSeq(chan, end + 2, Len(chan))]
  BY DEF get_udp
<1>3. end \in 0 .. n /\ (end \in 1 .. n => end \notin byes)
  BY <1>0, <1>1
<1>4. end # 0 => end \in DOMAIN chan /\ chan[end] # Bye
  BY <1>0, <1>3
<1> HIDE DEF end, first, byes, n
<1>5. /\ SubSeq(chan, end + 2, n) \in Seq(Datagrams)
      /\ Len(SubSeq(chan, end + 2, n)) <= n
      /\ \A j \in DOMAIN SubSeq(chan, end + 2, n) :
           \E i \in DOMAIN chan : SubSeq(chan, end + 2, n)[j] = chan[i]
  BY <1>0, <1>3, SubSeqProperties DEF n
<1>6. get_udp.pos = udp_master_position \/ \E i \in DOMAIN chan : chan[i] = get_udp.pos /\ chan[i] # Bye
  BY <1>2, <1>4
<1>7. get_udp.ret \in {-1, 0, 1} /\ (get_udp.ret = 1 <=> ByeWaits)
  BY <1>0, <1>2
<1> QED BY <1>0, <1>2, <1>5, <1>6, <1>7, UdpAssumption DEF n, UdpAssumption

----------------------------------------------------------------------------
\* What a step of the master does to the socket and to what was announced.
LEMMA MasterSends ==
  ASSUME Inv, Master
  PROVE  /\ UNCHANGED slave
         /\ \/ chan' = chan
            \/ \E m \in Datagrams : Delivered(m) /\ m <= announced'
         /\ announced' \in -1 .. Last /\ announced <= announced'
<1>0. /\ chan \in Seq(Datagrams) /\ Len(chan) <= SocketRoom /\ mpos \in Frames
      /\ announced \in -1 .. Last /\ Last \in Nat
  BY UdpAssumption DEF Inv, TypeOK, Datagrams, UdpAssumption
<1>1. ASSUME handle_udp_master(mpos)
      PROVE  /\ \E m \in Datagrams : Delivered(m) /\ m <= announced'
             /\ announced' \in -1 .. Last /\ announced <= announced'
  <2>1. mpos \in Datagrams /\ announced' = Greater(announced, mpos) /\ Network(mpos)
    BY <1>0, <1>1 DEF handle_udp_master, Datagrams
  <2>2. announced' \in -1 .. Last /\ announced <= announced' /\ mpos <= announced'
    BY <1>0, <2>1 DEF Greater, Frames
  <2>3. Delivered(mpos)
    BY <1>0, <2>1, NetworkDelivers
  <2> QED BY <2>1, <2>2, <2>3
<1>2. ASSUME announced' = announced PROVE announced' \in -1 .. Last /\ announced <= announced'
  BY <1>0, <1>2
<1>3. CASE MasterFrame
  <2>1. CASE mskip
    BY <1>2, <1>3, <2>1 DEF MasterFrame
  <2>2. CASE ~mskip
    BY <1>1, <1>3, <2>2 DEF MasterFrame
  <2> QED BY <2>1, <2>2
<1>4. CASE MasterWaits \/ MasterRepeats
  BY <1>1, <1>4 DEF MasterWaits, MasterRepeats
<1>5. CASE MasterSeeks \/ MasterPauses \/ MasterResumes \/ MasterDies
  BY <1>2, <1>5 DEF MasterSeeks, MasterPauses, MasterResumes, MasterDies
<1>6. CASE MasterExits
  <2>1. Bye \in Datagrams /\ Bye <= announced
    BY <1>0 DEF Datagrams, Bye
  <2>2. Delivered(Bye) /\ announced' = announced
    BY <1>0, <1>6, <2>1, NetworkDelivers DEF MasterExits
  <2> QED BY <1>2, <1>6, <2>1, <2>2 DEF MasterExits
<1> QED BY <1>3, <1>4, <1>5, <1>6 DEF Master

LEMMA MasterKeepsInv == ASSUME Inv, Master PROVE Inv'
<1>0. /\ chan \in Seq(Datagrams) /\ Len(chan) <= SocketRoom /\ mpos \in Frames
      /\ announced \in -1 .. Last /\ Last \in Nat /\ KeyFrames \subseteq 0 .. Last
  BY UdpAssumption DEF Inv, TypeOK, Datagrams, UdpAssumption
<1>1. /\ mpc' \in {"playing", "paused", "gone"} /\ mskip' \in BOOLEAN
      /\ mpos' \in Frames
  <2>0. mpc \in {"playing", "paused", "gone"} /\ mskip \in BOOLEAN
    BY DEF Inv, TypeOK
  <2>1. CASE MasterFrame
    <3>1. mpos' \in Frames
      BY <1>0, <2>1 DEF MasterFrame, Frames
    <3> QED BY <2>0, <2>1, <3>1 DEF MasterFrame
  <2>2. CASE MasterSeeks
    <3>1. mpos' \in Frames
      BY <1>0, <2>2 DEF MasterSeeks, Frames
    <3> QED BY <2>0, <2>2, <3>1 DEF MasterSeeks
  <2>3. CASE MasterWaits \/ MasterPauses \/ MasterRepeats \/ MasterResumes \/ MasterExits \/ MasterDies
    BY <1>0, <2>0, <2>3 DEF MasterWaits, MasterPauses, MasterRepeats, MasterResumes, MasterExits,
       MasterDies
  <2> QED BY <2>1, <2>2, <2>3 DEF Master
<1>2. /\ UNCHANGED slave /\ announced' \in -1 .. Last /\ announced <= announced'
  BY MasterSends
<1>3. chan' \in Seq(Datagrams) /\ Len(chan') <= SocketRoom
  BY <1>0, MasterSends DEF Delivered
<1>4. TypeOK'
  BY <1>1, <1>2, <1>3 DEF Inv, TypeOK, slave, Datagrams
<1>5. ASSUME NEW j \in DOMAIN chan' PROVE chan'[j] <= announced'
  <2>1. \A i \in DOMAIN chan : chan[i] \in Int /\ chan[i] <= announced
    BY <1>0 DEF Inv, Announced, Datagrams, Frames, Bye
  <2>2. CASE chan' = chan
    BY <1>0, <1>2, <2>1, <2>2
  <2>3. CASE \E m \in Datagrams : Delivered(m) /\ m <= announced'
    <3>1. PICK m \in Datagrams : Delivered(m) /\ m <= announced'
      BY <2>3
    <3>2. CASE chan'[j] = m
      BY <3>1, <3>2
    <3>3. CASE \E i \in DOMAIN chan : chan'[j] = chan[i]
      BY <1>0, <1>2, <2>1, <3>3
    <3> QED BY <3>1, <3>2, <3>3 DEF Delivered
  <2> QED BY <2>2, <2>3, MasterSends
<1>6. Announced'
  BY <1>0, <1>2, <1>5, UdpAssumption DEF Inv, Announced, TypeOK, slave, Greater, Frames, UdpAssumption
<1> QED BY <1>4, <1>6 DEF Inv

----------------------------------------------------------------------------
\* What the slave may be told: a result, and a position that was announced.
Told(ret, pos, timedOut) ==
  /\ ret \in {-1, 0, 1} /\ timedOut \in BOOLEAN
  /\ pos \in 1 - Threshold .. Last /\ pos <= Greater(announced, 0)

LEMMA ShowFrameTypes ==
  ASSUME Inv, NEW seeks \in BOOLEAN, NEW target \in Int, ShowFrame(seeks, target)
  PROVE  /\ spos' \in Frames /\ spc' \in {"ready", "exited"} /\ sskip' \in BOOLEAN
         /\ shown' \in -1 .. Last /\ (~sskip' => spos' >= 1)
<1>0. spos \in Frames /\ sskip \in BOOLEAN /\ Last \in Nat /\ (~sskip => spos >= 1)
  BY UdpAssumption DEF Inv, TypeOK, Announced, UdpAssumption
<1>1. shown' \in -1 .. Last
  BY <1>0 DEF ShowFrame, Frames
<1>2. CASE seeks
  <2>1. Greater(target, 0) \in Nat
    BY DEF Greater
  <2>2. Landing(Greater(target, 0)) \in Frames
    BY <2>1, LandingIsFrame
  <2> QED BY <1>1, <1>2, <2>2 DEF ShowFrame
<1>3. CASE ~seeks /\ spos = Last
  <2>1. spc' = "exited" /\ spos' = spos /\ sskip' = sskip
    BY <1>3 DEF ShowFrame
  <2> QED BY <1>0, <1>1, <2>1
<1>4. CASE ~seeks /\ spos # Last
  <2>1. spos' = spos + 1 /\ sskip' = FALSE /\ spc' = "ready"
    BY <1>4 DEF ShowFrame
  <2>2. spos' \in Frames /\ spos' >= 1
    BY <1>0, <1>4, <2>1 DEF Frames
  <2> QED BY <1>1, <2>1, <2>2
<1> QED BY <1>2, <1>3, <1>4

LEMMA ActTypes ==
  ASSUME Inv, NEW ret, NEW pos, NEW timedOut, Told(ret, pos, timedOut), Act(ret, pos, timedOut)
  PROVE  /\ spos' \in Frames /\ spc' \in {"ready", "blocked", "exited"} /\ sskip' \in BOOLEAN
         /\ shown' \in -1 .. Last /\ timed_out' \in BOOLEAN
         /\ udp_master_position' = pos
         /\ (~sskip' => spos' >= 1)
<1>0. /\ spos \in Frames /\ sskip \in BOOLEAN /\ shown \in -1 .. Last /\ timedOut \in BOOLEAN
      /\ (~sskip => spos >= 1)
  BY DEF Inv, TypeOK, Announced, Told
<1>1. CASE Verdict(ret, pos, timedOut) = "block"
  <2>1. /\ spc' = "blocked" /\ udp_master_position' = pos /\ timed_out' = timedOut
        /\ spos' = spos /\ sskip' = sskip /\ shown' = shown
    BY <1>1 DEF Act
  <2> QED BY <1>0, <2>1
<1>2. CASE Verdict(ret, pos, timedOut) # "block"
  <2>1. Finish(ret, pos, timedOut)
    BY <1>2 DEF Act
  <2>2. udp_master_position' = pos /\ timed_out' \in BOOLEAN
    BY <1>0, <2>1 DEF Finish
  <2>3. CASE ret = 1
    <3>1. spc' = "exited" /\ spos' = spos /\ sskip' = sskip /\ shown' = shown
      BY <2>1, <2>3 DEF Finish
    <3> QED BY <1>0, <2>2, <3>1
  <2>4. CASE ret # 1
    <3> DEFINE seeks == Verdict(ret, pos, timedOut) = "seek"
    <3>1. ShowFrame(seeks, pos)
      BY <2>1, <2>4 DEF Finish
    <3>2. seeks \in BOOLEAN /\ pos \in Int
      BY UdpAssumption DEF Told, UdpAssumption
    <3> HIDE DEF seeks
    <3> QED BY <2>2, <3>1, <3>2, ShowFrameTypes
  <2> QED BY <2>3, <2>4
<1> QED BY <1>1, <1>2

\* The three ways the slave gets to Act, and what is left in its socket.
Acts == SlaveSyncs \/ SlaveWakes \/ SlaveTimesOut
Heard(ret, pos, timedOut) ==
  /\ Told(ret, pos, timedOut) /\ Act(ret, pos, timedOut)
  /\ ByeWaits /\ ~ByeWaits' => ret = 1
  /\ chan' \in Seq(Datagrams) /\ Len(chan') <= SocketRoom
  /\ \A j \in DOMAIN chan' : \E i \in DOMAIN chan : chan'[j] = chan[i]
  /\ UNCHANGED master

LEMMA SlaveHears ==
  ASSUME Inv, Acts
  PROVE  \E ret, pos, timedOut : Heard(ret, pos, timedOut)
<1>0. /\ chan \in Seq(Datagrams) /\ Len(chan) <= SocketRoom /\ timed_out \in BOOLEAN
      /\ announced \in -1 .. Last /\ Last \in Nat /\ Threshold \in Nat /\ Threshold >= 2
      /\ udp_master_position \in 1 - Threshold .. Last
      /\ udp_master_position <= Greater(announced, 0)
      /\ \A i \in DOMAIN chan : chan[i] <= announced
  BY UdpAssumption DEF Inv, TypeOK, Announced, Datagrams, UdpAssumption
<1>1. CASE SlaveSyncs \/ SlaveWakes
  <2>1. Act(get_udp.ret, get_udp.pos, timed_out) /\ chan' = get_udp.rest /\ UNCHANGED master
    BY <1>1 DEF SlaveSyncs, SlaveWakes
  <2>2. get_udp.pos \in 1 - Threshold .. Last /\ get_udp.pos <= Greater(announced, 0)
    <3>1. CASE get_udp.pos = udp_master_position
      BY <1>0, <3>1
    <3>2. ASSUME NEW i \in DOMAIN chan, chan[i] = get_udp.pos, chan[i] # Bye
          PROVE  get_udp.pos \in 1 - Threshold .. Last /\ get_udp.pos <= Greater(announced, 0)
      <4>1. chan[i] \in Frames /\ chan[i] <= announced
        BY <1>0, <3>2 DEF Datagrams
      <4> QED BY <1>0, <3>2, <4>1 DEF Frames, Greater
    <3> QED BY <1>0, <3>1, <3>2, GetUdp
  <2>3. Told(get_udp.ret, get_udp.pos, timed_out)
    BY <1>0, <2>2, GetUdp DEF Told
  <2>4. ByeWaits /\ ~ByeWaits' => get_udp.ret = 1
    BY <1>0, GetUdp
  <2> QED BY <1>0, <2>1, <2>3, <2>4, GetUdp DEF Heard
<1>2. CASE SlaveTimesOut
  <2>1. Act(-1, udp_master_position, TRUE) /\ chan' = chan /\ UNCHANGED master
    BY <1>2 DEF SlaveTimesOut
  <2>2. Told(-1, udp_master_position, TRUE)
    BY <1>0 DEF Told
  <2>3. ByeWaits' = ByeWaits
    BY <2>1 DEF ByeWaits
  <2> QED BY <1>0, <2>1, <2>2, <2>3 DEF Heard
<1> QED BY <1>1, <1>2 DEF Acts

LEMMA SlaveKeepsInv == ASSUME Inv, Slave PROVE Inv'
<1>1. CASE SlaveSkips
  <2>1. ShowFrame(FALSE, 0) /\ UNCHANGED <<master, chan, udp_master_position, timed_out>>
    BY <1>1 DEF SlaveSkips
  <2>2. /\ spos' \in Frames /\ spc' \in {"ready", "exited"} /\ sskip' \in BOOLEAN
        /\ shown' \in -1 .. Last /\ (~sskip' => spos' >= 1)
    <3> DEFINE seeks == FALSE
               target == 0
    <3>1. seeks \in BOOLEAN /\ target \in Int
      OBVIOUS
    <3>2. ShowFrame(seeks, target)
      BY <2>1, Zenon
    <3> HIDE DEF seeks, target
    <3> QED BY <3>1, <3>2, ShowFrameTypes
  <2>3. TypeOK'
    BY <2>1, <2>2 DEF Inv, TypeOK, master
  <2>4. Announced'
    BY <2>1, <2>2 DEF Inv, Announced, master
  <2> QED BY <2>3, <2>4 DEF Inv
<1>2. CASE Acts
  <2>1. PICK ret, pos, timedOut : Heard(ret, pos, timedOut)
    BY <1>2, SlaveHears
  <2>2. Told(ret, pos, timedOut) /\ UNCHANGED master
    BY <2>1 DEF Heard
  <2>3. /\ spos' \in Frames /\ spc' \in {"ready", "blocked", "exited"} /\ sskip' \in BOOLEAN
        /\ shown' \in -1 .. Last /\ timed_out' \in BOOLEAN
        /\ udp_master_position' = pos /\ (~sskip' => spos' >= 1)
    BY <2>1, ActTypes DEF Heard
  <2>4. udp_master_position' \in 1 - Threshold .. Last
    BY <2>2, <2>3 DEF Told
  <2>5. TypeOK'
    BY <2>1, <2>2, <2>3, <2>4 DEF Inv, TypeOK, Heard, master, Datagrams
  <2>6. \A j \in DOMAIN chan' : chan'[j] <= announced'
    BY <2>1, <2>2 DEF Inv, Announced, Heard, master
  <2>7. udp_master_position' <= Greater(announced', 0)
    BY <2>2, <2>3 DEF Told, master
  <2>8. Announced'
    BY <2>3, <2>6, <2>7 DEF Announced, Greater
  <2> QED BY <2>5, <2>8 DEF Inv
<1> QED BY <1>1, <1>2 DEF Slave, Acts

----------------------------------------------------------------------------
LEMMA InitInv == Init => Inv
<1> SUFFICES ASSUME Init PROVE Inv
  OBVIOUS
<1>0. /\ Last \in Nat /\ Threshold \in Nat /\ Threshold >= 2 /\ SocketRoom \in Nat
  BY UdpAssumption DEF UdpAssumption
<1>1. chan = <<>> /\ chan \in Seq(Frames \union {Bye}) /\ Len(chan) = 0 /\ DOMAIN chan = {}
  BY DEF Init
<1>2. /\ udp_master_position \in 1 - Threshold .. Last
      /\ udp_master_position <= 0
  BY <1>0 DEF Init
<1>3. TypeOK
  <2>1. /\ mpos \in Frames /\ announced = -1 /\ spos = 0 /\ shown = -1
        /\ mpc \in {"playing", "paused", "gone"} /\ spc \in {"ready", "blocked", "exited"}
    BY DEF Init
  <2>2. mskip \in BOOLEAN /\ sskip \in BOOLEAN /\ timed_out \in BOOLEAN
    BY Zenon DEF Init
  <2>3. announced \in -1 .. Last /\ shown \in -1 .. Last /\ spos \in Frames
    BY <1>0, <2>1 DEF Frames
  <2> QED BY <1>0, <1>1, <1>2, <2>1, <2>2, <2>3 DEF TypeOK
<1>4. Announced
  BY <1>0, <1>1, <1>2 DEF Init, Announced, Greater
<1> QED BY <1>3, <1>4 DEF Inv

LEMMA NextInv == Inv /\ [Next]_vars => Inv'
<1>1. Inv /\ UNCHANGED vars => Inv'
  BY DEF Inv, TypeOK, Announced, ByeWaits, vars, master, slave, Greater
<1> QED BY <1>1, MasterKeepsInv, SlaveKeepsInv DEF Next

LEMMA InvHolds == Spec => []Inv
<1> QED BY InitInv, NextInv, PTL DEF Spec

\* Whatever the network does, the socket keeps its bound, positions are frames
\* of the file, and so on.
THEOREM UdpTypes == Spec => []TypeOK
<1>1. Inv => TypeOK
  BY DEF Inv
<1> QED BY <1>1, InvHolds, PTL

\* No datagram lost, repeated or late makes the slave run ahead of its master:
\* a frame that udp_slave_sync lets through was announced (udp_sync.c:226).
THEOREM SlaveStaysInStep == Spec => InStep
<1> DEFINE A == (shown' # shown /\ ~sskip /\ ~sskip' /\ ~timed_out') => shown' <= announced
<1>1. Inv /\ [Next]_vars => A
  <2> SUFFICES ASSUME Inv, [Next]_vars, shown' # shown, ~sskip, ~sskip', ~timed_out'
               PROVE  shown' <= announced
    OBVIOUS
  <2>1. Acts
    <3>1. Master => shown' = shown
      BY MasterSends DEF slave
    <3>2. ~SlaveSkips
      BY DEF SlaveSkips
    <3> QED BY <3>1, <3>2 DEF Next, Slave, Acts, vars, slave
  <2>2. PICK ret, pos, timedOut : Heard(ret, pos, timedOut)
    BY <2>1, SlaveHears
  <2>3. Told(ret, pos, timedOut) /\ Act(ret, pos, timedOut)
    BY <2>2 DEF Heard
  <2>4. Verdict(ret, pos, timedOut) # "block" /\ Finish(ret, pos, timedOut)
    BY <2>3 DEF Act
  <2>5. ret # 1 /\ ShowFrame(Verdict(ret, pos, timedOut) = "seek", pos)
    BY <2>4 DEF Finish
  <2>6. shown' = spos /\ Verdict(ret, pos, timedOut) # "seek"
    BY <2>5 DEF ShowFrame
  <2>7. Looks(ret, timedOut)
    <3>1. ~Looks(ret, timedOut) => ret = -1 /\ timedOut = TRUE
      BY <2>3, <2>5 DEF Looks, Told
    <3>2. ret = -1 /\ timedOut = TRUE => timed_out' = TRUE
      <4> SUFFICES ASSUME ret = -1, timedOut = TRUE PROVE timed_out' = TRUE
        OBVIOUS
      <4>1. ~(ret >= 0)
        OBVIOUS
      <4>2. timed_out' \in {timedOut, TRUE}
        BY <2>4, <4>1, Zenon DEF Finish
      <4> QED BY <4>2
    <3> QED BY <3>1, <3>2
  <2>8. pos >= spos
    BY <2>4, <2>6, <2>7 DEF Verdict
  <2>9. spos >= 1 /\ spos \in Int /\ pos \in Int /\ announced \in Int /\ pos <= Greater(announced, 0)
    BY <2>3, UdpAssumption DEF Inv, Announced, TypeOK, Frames, Told, UdpAssumption
  <2> QED BY <2>6, <2>8, <2>9 DEF Greater
<1>2. Spec => [][A]_vars
  BY <1>1, InvHolds, PTL DEF Spec
<1> QED BY <1>2 DEF InStep

\* A bye in the socket is never read without ending the slave, whatever was
\* read with it (udp_sync.c:136).
THEOREM ByesEndSlaves == Spec => ByeIsObeyed
<1>1. Inv /\ [Next]_vars /\ ByeWaits /\ ~ByeWaits' => spc' = "exited"
  <2> SUFFICES ASSUME Inv, [Next]_vars, ByeWaits, ~ByeWaits' PROVE spc' = "exited"
    OBVIOUS
  <2>0. UNCHANGED chan => ByeWaits'
    BY DEF ByeWaits
  <2>1. ~Master
    <3>1. \A m \in Datagrams : Delivered(m) => ByeWaits'
      BY DEF Delivered, ByeWaits
    <3> QED BY <2>0, <3>1, MasterSends
  <2>2. Acts
    BY <2>0, <2>1 DEF Next, Slave, Acts, vars, SlaveSkips
  <2>3. PICK ret, pos, timedOut : Heard(ret, pos, timedOut)
    BY <2>2, SlaveHears
  <2>4. ret = 1 /\ Act(ret, pos, timedOut)
    BY <2>3 DEF Heard
  <2>5. Verdict(ret, pos, timedOut) = "done"
    BY <2>4 DEF Verdict, Looks
  <2> QED BY <2>4, <2>5 DEF Act, Finish
<1>2. Spec => [][ByeWaits /\ ~ByeWaits' => spc' = "exited"]_vars
  BY <1>1, InvHolds, PTL DEF Spec
<1> QED BY <1>2 DEF ByeIsObeyed
=============================================================================
