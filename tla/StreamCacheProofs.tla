------------------------- MODULE StreamCacheProofs -------------------------
(***************************************************************************)
(* What holds of the stream cache for every buffer size, file, workload    *)
(* and interleaving: its types, and the bounds of the filler's writes.     *)
(***************************************************************************)
EXTENDS StreamCache, TLAPS

USE DEF None, Quit, Nil

(* Integers in, integers out: the arithmetic of cache_fill and cache_read.  *)
LEMMA ArithmeticTypes ==
  /\ \A a, b \in Int : FFMIN(a, b) \in Int /\ FFMAX(a, b) \in Int
  /\ SeekLimit \in Int /\ Prefill \in Int
  /\ \A p \in Int : Unwrap(p) \in Int /\ RingPos(p) \in Int
  BY SizesAssumption DEF SizesAssumption, FFMIN, FFMAX, SeekLimit, Prefill, Unwrap, RingPos

(* The sector a target lies in starts at an integer position.               *)
LEMMA AlignType == \A p \in Targets : Align(p) \in Int
<1> SUFFICES ASSUME NEW p \in Targets PROVE Align(p) \in Int
  OBVIOUS
<1>1. p \in Nat /\ SectorSize \in Nat \ {0}
  BY SizesAssumption DEF SizesAssumption
<1>2. p \div SectorSize \in Int
  BY <1>1
<1> QED BY <1>1, <1>2 DEF Align

(* What a step leaves alone keeps its type.                                 *)
LEMMA SharedFrame == SharedTypes /\ UNCHANGED shared => SharedTypes'
  BY DEF SharedTypes, shared, window, mailbox
LEMMA FillerFrame == FillerTypes /\ UNCHANGED filler => FillerTypes'
  BY DEF FillerTypes, filler, fStream, fLocals
LEMMA ReaderFrame == ReaderTypes /\ UNCHANGED reader => ReaderTypes'
  BY DEF ReaderTypes, reader

(* The end of a read: the position moves past the bytes handed over.        *)
LEMMA DeliverTypes ==
  ASSUME ReaderTypes, NEW bytes \in Seq(Int), Deliver(bytes), UNCHANGED rCmd
  PROVE  ReaderTypes'
<1>1. Len(bytes) \in Nat
  OBVIOUS
<1> QED BY <1>1 DEF ReaderTypes, Deliver, ReaderPcs

(* Waiting or looping only moves the reader's program counter.              *)
LEMMA GotoTypes ==
  ASSUME ReaderTypes, NEW l \in ReaderPcs, Goto(l) PROVE ReaderTypes'
  BY DEF ReaderTypes, Goto, rFixed

(* A request of the player leaves every variable in its type.               *)
LEMMA RequestTypes == TypeOK /\ Requests => TypeOK'
<1> SUFFICES ASSUME TypeOK, Requests PROVE TypeOK'
  OBVIOUS
<1>1. CASE StartFill
  <2>1. UNCHANGED <<shared, filler>> /\ ReaderTypes'
    BY <1>1 DEF StartFill, TypeOK, ReaderTypes, ReaderPcs, Reading
  <2> QED BY <2>1, SharedFrame, FillerFrame DEF TypeOK
<1>2. CASE SeekLong
  <2>1. UNCHANGED filler /\ ReaderTypes' /\ read_filepos' \in Int
    BY <1>2, AlignType DEF SeekLong, TypeOK, ReaderTypes, ReaderPcs, Reading
  <2>2. SharedTypes'
    BY <1>2, <2>1 DEF SeekLong, TypeOK, SharedTypes, window, mailbox
  <2> QED BY <2>1, <2>2, FillerFrame DEF TypeOK
<1>3. CASE DoControl
  <2>1. PICK cmd \in Commands, arg \in Nat : Ask(cmd, arg)
    BY <1>3, SizesAssumption DEF DoControl, SizesAssumption, TypeOK, SharedTypes
  <2>2. cmd \in AllCommands
    BY EnvironmentAssumption DEF EnvironmentAssumption, AllCommands
  <2>3. SharedTypes'
    BY <2>1, <2>2 DEF Ask, TypeOK, SharedTypes, window
  <2>4. UNCHANGED filler /\ ReaderTypes'
    BY <2>1, <2>2 DEF Ask, TypeOK, ReaderTypes, ReaderPcs, rFixed
  <2> QED BY <2>3, <2>4, FillerFrame DEF TypeOK
<1>4. CASE StartUninit
  <2>1. UNCHANGED <<shared, filler>> /\ Goto("uninit") /\ "uninit" \in ReaderPcs
    BY <1>4 DEF StartUninit, ReaderPcs
  <2> QED BY <2>1, GotoTypes, SharedFrame, FillerFrame DEF TypeOK
<1> QED BY <1>1, <1>2, <1>3, <1>4 DEF Requests

(* memcpy hands over integers: what it appends to the sector is a sequence. *)
LEMMA CopyTypes ==
  ASSUME TypeOK, rNewb \in Nat
  PROVE  sbuf \o [i \in 1 .. rNewb |-> Cell(rPos + i - 1)] \in Seq(Int)
<1>1. \A i \in 1 .. rNewb : Cell(rPos + i - 1) \in Int
  BY DEF Cell, TypeOK, SharedTypes
<1>2. [i \in 1 .. rNewb |-> Cell(rPos + i - 1)] \in Seq(Int)
  BY <1>1
<1>3. sbuf \in Seq(Int)
  BY DEF TypeOK, ReaderTypes
<1> QED BY <1>2, <1>3

(* Every step of a call under way leaves every variable in its type.        *)
LEMMA ReaderNextTypes == TypeOK /\ ReaderNext => TypeOK'
<1> SUFFICES ASSUME TypeOK, ReaderNext PROVE TypeOK'
  OBVIOUS
<1>0. SharedTypes /\ FillerTypes /\ ReaderTypes
  BY DEF TypeOK
<1>1. ASSUME UNCHANGED <<shared, filler>>, NEW l \in ReaderPcs, Goto(l) PROVE TypeOK'
  BY <1>0, <1>1, GotoTypes, SharedFrame, FillerFrame DEF TypeOK
<1>2. CASE PrefillCheck \/ PrefillEof \/ PrefillSleep
  BY <1>1, <1>2 DEF PrefillCheck, PrefillEof, PrefillSleep, ReaderPcs
<1>3. CASE CheckMax \/ CheckMin \/ Sleep
  BY <1>1, <1>3 DEF CheckMax, CheckMin, Sleep, ReaderPcs, Reading
<1>4. CASE CheckEof
  <2>1. CASE eof
    <3>1. sbuf \in Seq(Int)
      BY <1>0 DEF ReaderTypes
    <3>2. ReaderTypes'
      BY <1>0, <1>4, <2>1, <3>1, DeliverTypes DEF CheckEof
    <3> QED BY <1>0, <1>4, <3>2, SharedFrame, FillerFrame DEF CheckEof, TypeOK
  <2>2. CASE ~eof
    BY <1>1, <1>4, <2>2 DEF CheckEof, ReaderPcs, Reading
  <2> QED BY <2>1, <2>2
<1>5. CASE Interrupted
  <2>1. sbuf \in Seq(Int)
    BY <1>0 DEF ReaderTypes
  <2>2. ReaderTypes'
    BY <1>0, <1>5, <2>1, DeliverTypes DEF Interrupted
  <2>3. SharedTypes'
    BY <1>0, <1>5 DEF Interrupted, SharedTypes, window, mailbox
  <2> QED BY <1>0, <1>5, <2>2, <2>3, FillerFrame DEF Interrupted, TypeOK
<1>6. CASE LoadNewb
  <2>1. ReaderTypes'
    BY <1>0, <1>6 DEF LoadNewb, ReaderTypes, SharedTypes, rFixed, ReaderPcs, Reading
  <2> QED BY <1>0, <1>6, <2>1, SharedFrame, FillerFrame DEF LoadNewb, TypeOK
<1>7. CASE LoadPos
  <2>1. read_filepos - offset \in Int /\ Left \in Int /\ BufferSize \in Int
    BY <1>0, SizesAssumption DEF SharedTypes, ReaderTypes, Left, SizesAssumption
  <2>2. rPos' \in Int
    BY <1>7, <2>1, ArithmeticTypes DEF LoadPos
  <2>3. rNewb' \in Int
    <3>1. rNewb' = FFMIN(FFMIN(rNewb, BufferSize - rPos'), Left)
      BY <1>7 DEF LoadPos
    <3>2. rNewb \in Int /\ BufferSize - rPos' \in Int
      BY <1>0, <2>1, <2>2 DEF ReaderTypes
    <3> QED BY <2>1, <3>1, <3>2, ArithmeticTypes
  <2>4. ReaderTypes'
    BY <1>0, <1>7, <2>2, <2>3 DEF LoadPos, ReaderTypes, rFixed, ReaderPcs, Reading
  <2> QED BY <1>0, <1>7, <2>4, SharedFrame, FillerFrame DEF LoadPos, TypeOK
<1>8. CASE Copy /\ ~(rNewb < 0)
  <2>1. rNewb \in Nat
    BY <1>0, <1>8 DEF ReaderTypes
  <2>2. PICK bytes \in Seq(Int) :
          IF Len(bytes) = SectorSize
          THEN Deliver(bytes)
          ELSE /\ rpc' = "chkMax" /\ sbuf' = bytes /\ rNewb' = 0 /\ rPos' = 0
               /\ UNCHANGED <<pos, ueof>>
    <3> DEFINE bytes == sbuf \o [i \in 1 .. rNewb |-> Cell(rPos + i - 1)]
    <3>1. bytes \in Seq(Int)
      BY <2>1, CopyTypes
    <3>2. IF Len(bytes) = SectorSize
          THEN Deliver(bytes)
          ELSE /\ rpc' = "chkMax" /\ sbuf' = bytes /\ rNewb' = 0 /\ rPos' = 0
               /\ UNCHANGED <<pos, ueof>>
      BY <1>8 DEF Copy, Copied
    <3> HIDE DEF bytes
    <3> QED BY <3>1, <3>2
  <2>3. UNCHANGED rCmd
    BY <1>8 DEF Copy, Copied
  <2>4. ASSUME Len(bytes) = SectorSize PROVE ReaderTypes'
    BY <1>0, <2>2, <2>3, <2>4, DeliverTypes
  <2>5. ASSUME Len(bytes) # SectorSize PROVE ReaderTypes'
    BY <1>0, <2>2, <2>3, <2>5 DEF ReaderTypes, ReaderPcs, Reading
  <2>6. SharedTypes' /\ UNCHANGED filler
    BY <1>0, <1>8, <2>1 DEF Copy, Copied, SharedTypes, window, mailbox
  <2> QED BY <1>0, <2>4, <2>5, <2>6, FillerFrame DEF TypeOK
<1>9. CASE Copy /\ rNewb < 0
  <2>1. FillerTypes'
    BY <1>0, <1>9 DEF Copy, CopyCrash, FillerTypes, fStream, fLocals, FillerPcs
  <2>2. ReaderTypes'
    BY <1>0, <1>9 DEF Copy, CopyCrash, ReaderTypes, rFixed, ReaderPcs
  <2> QED BY <1>0, <1>9, <2>1, <2>2, SharedFrame DEF Copy, CopyCrash, TypeOK
<1>10. CASE SeekEof
  <2>1. SharedTypes' /\ UNCHANGED filler
    BY <1>0, <1>10 DEF SeekEof, SharedTypes, window, mailbox
  <2>2. ReaderTypes'
    BY <1>0, <1>10 DEF SeekEof, ReaderTypes, ReaderPcs, Reading
  <2> QED BY <1>0, <2>1, <2>2, FillerFrame DEF TypeOK
<1>11. CASE Answered
  <2>1. SharedTypes' /\ UNCHANGED filler
    BY <1>0, <1>11 DEF Answered, Resume, SharedTypes, window, mailbox
  <2>2. pos' \in Int /\ ueof' \in BOOLEAN
    BY <1>0, <1>11 DEF Answered, SharedTypes, ReaderTypes
  <2>3. ReaderTypes'
    BY <1>0, <1>11, <2>2 DEF Answered, Resume, ReaderTypes, ReaderPcs, AllCommands
  <2> QED BY <1>0, <2>1, <2>3, FillerFrame DEF TypeOK
<1>12. CASE WaitInterrupted
  <2>1. SharedTypes' /\ UNCHANGED filler
    BY <1>0, <1>12 DEF WaitInterrupted, Resume, SharedTypes, window, mailbox
  <2>2. ReaderTypes'
    BY <1>0, <1>12 DEF WaitInterrupted, Resume, ReaderTypes, rFixed, ReaderPcs, AllCommands
  <2> QED BY <1>0, <2>1, <2>2, FillerFrame DEF TypeOK
<1>13. CASE AskQuit
  <2>1. SharedTypes' /\ UNCHANGED filler
    BY <1>0, <1>13 DEF AskQuit, Ask, SharedTypes, window, AllCommands
  <2>2. ReaderTypes'
    BY <1>0, <1>13 DEF AskQuit, Ask, ReaderTypes, rFixed, ReaderPcs, AllCommands
  <2> QED BY <1>0, <2>1, <2>2, FillerFrame DEF TypeOK
<1>14. CASE Kill
  <2>1. SharedTypes'
    BY <1>0, <1>14 DEF Kill, SharedTypes, window, mailbox
  <2>2. FillerTypes' /\ ReaderTypes'
    BY <1>0, <1>14 DEF Kill, FillerTypes, fStream, fLocals, FillerPcs, ReaderTypes, rFixed, ReaderPcs
  <2> QED BY <2>1, <2>2 DEF TypeOK
<1> QED
  BY <1>2, <1>3, <1>4, <1>5, <1>6, <1>7, <1>8, <1>9, <1>10, <1>11, <1>12, <1>13, <1>14 DEF ReaderNext

(* The sizes cache_fill computes are integers.                              *)
LEMMA FillTypes ==
  ASSUME TypeOK, NEW read \in Int
  PROVE  /\ Newb(read) \in Int /\ Back(read) \in Int /\ Space(read) \in Int
         /\ WritePos \in Int
         /\ \A space, p \in Int : BlockSize(space, p) \in Int
         /\ \A space \in Int : NewMin(read, space) \in Int
<1>1. /\ min_filepos \in Int /\ max_filepos \in Int /\ offset \in Int
      /\ BufferSize \in Int /\ BackSize \in Int /\ SectorSize \in Int /\ ReadChunk \in Int
  BY SizesAssumption DEF TypeOK, SharedTypes, SizesAssumption
<1>2. Newb(read) \in Int
  BY <1>1, ArithmeticTypes DEF Newb
<1>3. Back(read) \in Int
  BY <1>1 DEF Back, FFMIN, FFMAX
<1>4. WritePos \in Int
  BY <1>1, ArithmeticTypes DEF WritePos
<1>5. \A space, p \in Int : BlockSize(space, p) \in Int
  BY <1>1 DEF BlockSize, FFMIN, FFMAX
<1>6. \A space \in Int : NewMin(read, space) \in Int
  BY <1>1, <1>2 DEF NewMin, FFMAX
<1> QED BY <1>1, <1>2, <1>3, <1>4, <1>5, <1>6 DEF Space

(* Every step of cache_fill leaves every variable in its type.              *)
LEMMA CacheFillTypes == TypeOK /\ CacheFill => TypeOK'
<1> SUFFICES ASSUME TypeOK, CacheFill PROVE TypeOK'
  OBVIOUS
<1>0. SharedTypes /\ FillerTypes /\ ReaderTypes
  BY DEF TypeOK
<1>1. CASE Snapshot
  <2>1. FillerTypes'
    BY <1>0, <1>1 DEF Snapshot, SharedTypes, FillerTypes, fStream, FillerPcs
  <2> QED BY <1>0, <1>1, <2>1, SharedFrame, ReaderFrame DEF Snapshot, TypeOK
<1>2. CASE FlushLoad
  <2>1. FillerTypes'
    BY <1>0, <1>2 DEF FlushLoad, SharedTypes, FillerTypes, fStream, fFill, FillerPcs
  <2> QED BY <1>0, <1>2, <2>1, SharedFrame, ReaderFrame DEF FlushLoad, TypeOK
<1>3. CASE FlushMax \/ FlushMin
  <2>1. FillerTypes'
    BY <1>0, <1>3 DEF FlushMax, FlushMin, FillerTypes, fStream, fLocals, FillerPcs
  <2>2. SharedTypes' /\ UNCHANGED reader
    BY <1>0, <1>3 DEF FlushMax, FlushMin, SharedTypes, FillerTypes, mailbox
  <2> QED BY <1>0, <2>1, <2>2, ReaderFrame DEF TypeOK
<1>4. CASE FlushOffset
  <2>1. FillerTypes'
    BY <1>0, <1>4 DEF FlushOffset, FillerTypes, fStream, fFill, FillerPcs
  <2>2. SharedTypes' /\ UNCHANGED reader
    BY <1>0, <1>4 DEF FlushOffset, SharedTypes, FillerTypes, mailbox
  <2> QED BY <1>0, <2>1, <2>2, ReaderFrame DEF TypeOK
<1>5. CASE Reposition
  <2>1. FillerTypes'
    BY <1>0, <1>5 DEF Reposition, FillerTypes, fLocals, FillerPcs
  <2> QED BY <1>0, <1>5, <2>1, SharedFrame, ReaderFrame DEF Reposition, TypeOK
<1>6. CASE PlanNone
  <2>1. FillerTypes'
    BY <1>0, <1>6 DEF PlanNone, ToControl, FillerTypes, fStream, FillerPcs
  <2> QED BY <1>0, <1>6, <2>1, SharedFrame, ReaderFrame DEF PlanNone, TypeOK
<1>7. CASE PlanBlock
  <2>1. fPos' \in Int /\ fSpace' \in Int /\ min_filepos' \in Int
    BY <1>0, <1>7, FillTypes DEF PlanBlock, FillerTypes
  <2>2. FillerTypes'
    BY <1>0, <1>7, <2>1 DEF PlanBlock, FillerTypes, fStream, FillerPcs
  <2>3. SharedTypes' /\ UNCHANGED reader
    BY <1>0, <1>7, <2>1 DEF PlanBlock, SharedTypes, mailbox
  <2> QED BY <1>0, <2>2, <2>3, ReaderFrame DEF TypeOK
<1>8. CASE Fetch
  <2>1. PICK len \in FetchLens(fSpace) :
          fLen' = len /\ buffer' = Filled(fPos, len) /\ spos' = spos + len /\ seof' = (len = 0)
    BY <1>8 DEF Fetch
  <2>2. len \in Int
    BY <1>0, SizesAssumption DEF FetchLens, FillerTypes, SizesAssumption, FFMIN, FFMAX
  <2>3. buffer' \in [Cells -> Int]
    BY <1>0, <2>1, SizesAssumption DEF Filled, SharedTypes, FillerTypes, SizesAssumption, Cells
  <2>4. SharedTypes' /\ UNCHANGED reader
    BY <1>0, <1>8, <2>3 DEF Fetch, SharedTypes, window, mailbox
  <2>5. FillerTypes'
    BY <1>0, <1>8, <2>1, <2>2 DEF Fetch, FillerTypes, FillerPcs
  <2> QED BY <1>0, <2>4, <2>5, ReaderFrame DEF TypeOK
<1>9. CASE StoreEof
  <2>1. SharedTypes' /\ UNCHANGED reader
    BY <1>0, <1>9 DEF StoreEof, AtEnd, SharedTypes, window, mailbox
  <2>2. FillerTypes'
    BY <1>0, <1>9 DEF StoreEof, ToControl, FillerTypes, fStream, fFill, FillerPcs
  <2> QED BY <1>0, <2>1, <2>2, ReaderFrame DEF TypeOK
<1>10. CASE StoreMax
  <2>1. SharedTypes' /\ UNCHANGED reader
    BY <1>0, <1>10 DEF StoreMax, SharedTypes, FillerTypes, mailbox
  <2>2. FillerTypes'
    BY <1>0, <1>10 DEF StoreMax, ToControl, FillerTypes, fStream, fFill, FillerPcs
  <2> QED BY <1>0, <2>1, <2>2, ReaderFrame DEF TypeOK
<1>11. CASE StoreOffset
  <2>1. SharedTypes' /\ UNCHANGED reader
    BY <1>0, <1>11, SizesAssumption DEF StoreOffset, SharedTypes, mailbox, SizesAssumption
  <2>2. FillerTypes'
    BY <1>0, <1>11 DEF StoreOffset, ToControl, FillerTypes, fStream, FillerPcs
  <2> QED BY <1>0, <2>1, <2>2, ReaderFrame DEF TypeOK
<1> QED BY <1>1, <1>2, <1>3, <1>4, <1>5, <1>6, <1>7, <1>8, <1>9, <1>10, <1>11 DEF CacheFill

(* Every step of cache_execute_control leaves every variable in its type.   *)
LEMMA CacheControlTypes == TypeOK /\ CacheControl => TypeOK'
<1> SUFFICES ASSUME TypeOK, CacheControl PROVE TypeOK'
  OBVIOUS
<1>0. SharedTypes /\ FillerTypes /\ ReaderTypes
  BY DEF TypeOK
<1>1. CASE ControlRefuse
  <2>1. FillerTypes'
    BY <1>0, <1>1 DEF ControlRefuse, FillerTypes, fStream, fFill, FillerPcs, AllCommands
  <2> QED BY <1>0, <1>1, <2>1, SharedFrame, ReaderFrame DEF ControlRefuse, TypeOK
<1>2. CASE ParentGone \/ ControlEnter \/ NothingAsked
  <2>1. FillerTypes'
    BY <1>0, <1>2 DEF ParentGone, ControlEnter, NothingAsked, FillerTypes, fStream, fLocals, FillerPcs
  <2> QED BY <1>0, <1>2, <2>1, SharedFrame, ReaderFrame
             DEF ParentGone, ControlEnter, NothingAsked, TypeOK
<1>3. CASE Refused
  <2>1. FillerTypes'
    BY <1>0, <1>3 DEF Refused, FillerTypes, fStream, fFill, FillerPcs, AllCommands
  <2>2. SharedTypes' /\ UNCHANGED reader
    BY <1>0, <1>3 DEF Refused, SharedTypes, window, AllCommands
  <2> QED BY <1>0, <2>1, <2>2, ReaderFrame DEF TypeOK
<1>4. CASE Switch
  <2>1. FillerTypes'
    BY <1>0, <1>4 DEF Switch, SharedTypes, FillerTypes, fStream, fFill, FillerPcs
  <2> QED BY <1>0, <1>4, <2>1, SharedFrame, ReaderFrame DEF Switch, TypeOK
<1>5. CASE Call
  <2>1. PICK ok \in BOOLEAN, to \in Nat :
          /\ control_res' = [ok |-> ok, to |-> control]
          /\ spos' \in {to, spos} /\ seof' \in BOOLEAN
          /\ fpc' \in {"ctlApply", "ctlDone"}
    BY <1>0, <1>5, SizesAssumption DEF Call, SizesAssumption, FillerTypes
  <2>2. FillerTypes'
    BY <1>0, <1>5, <2>1 DEF Call, FillerTypes, fLocals, FillerPcs
  <2>3. control_arg' \in Nat
    BY <1>0, <1>5 DEF Call, SharedTypes, FillerTypes
  <2>4. SharedTypes' /\ UNCHANGED reader
    BY <1>0, <1>5, <2>1, <2>3 DEF Call, SharedTypes, window
  <2> QED BY <1>0, <2>2, <2>4, ReaderFrame DEF TypeOK
<1>6. CASE ApplyPos \/ ApplyEof
  <2>1. FillerTypes'
    BY <1>0, <1>6 DEF ApplyPos, ApplyEof, FillerTypes, fStream, fLocals, FillerPcs
  <2>2. SharedTypes' /\ UNCHANGED reader
    BY <1>0, <1>6 DEF ApplyPos, ApplyEof, SharedTypes, FillerTypes, window, mailbox
  <2> QED BY <1>0, <2>1, <2>2, ReaderFrame DEF TypeOK
<1>7. CASE ControlDone
  <2>1. FillerTypes'
    BY <1>0, <1>7 DEF ControlDone, FillerTypes, fStream, fFill, FillerPcs, AllCommands
  <2>2. SharedTypes' /\ UNCHANGED reader
    BY <1>0, <1>7 DEF ControlDone, SharedTypes, window, AllCommands
  <2> QED BY <1>0, <2>1, <2>2, ReaderFrame DEF TypeOK
<1> QED BY <1>1, <1>2, <1>3, <1>4, <1>5, <1>6, <1>7 DEF CacheControl

(* The initial state is well typed, and every step keeps it so.             *)
LEMMA InitTypes == Init => TypeOK
<1> SUFFICES ASSUME Init PROVE TypeOK
  OBVIOUS
<1>1. buffer \in [Cells -> Int]
  BY DEF Init
<1>2. eof \in BOOLEAN /\ freed \in BOOLEAN /\ seof \in BOOLEAN /\ ueof \in BOOLEAN
  BY DEF Init
<1>3. /\ control \in AllCommands /\ fCmd \in AllCommands /\ rCmd \in AllCommands
      /\ control_res \in [ok : BOOLEAN, to : AllCommands]
  BY DEF Init, NoAnswer, AllCommands
<1>4. fpc \in FillerPcs /\ rpc \in ReaderPcs /\ sbuf \in Seq(Int)
  BY DEF Init, FillerPcs, ReaderPcs
<1>5. /\ min_filepos = 0 /\ max_filepos = 0 /\ offset = 0 /\ read_filepos = 0
      /\ control_arg = 0 /\ spos = 0 /\ fRead = 0 /\ fFlush = 0 /\ fPos = 0
      /\ fSpace = 0 /\ fLen = 0 /\ fArg = 0 /\ pos = 0 /\ rNewb = 0 /\ rPos = 0
  BY DEF Init
<1> QED BY <1>1, <1>2, <1>3, <1>4, <1>5 DEF TypeOK, SharedTypes, FillerTypes, ReaderTypes

LEMMA NextTypes == TypeOK /\ [Next]_vars => TypeOK'
<1> SUFFICES ASSUME TypeOK, [Next]_vars PROVE TypeOK'
  OBVIOUS
<1>1. CASE Die
  <2>1. ReaderTypes'
    BY <1>1 DEF Die, TypeOK, ReaderTypes, rFixed, ReaderPcs
  <2> QED BY <1>1, <2>1, SharedFrame, FillerFrame DEF Die, TypeOK
<1>2. CASE UNCHANGED vars
  BY <1>2, SharedFrame, FillerFrame, ReaderFrame DEF vars, TypeOK
<1> QED
  BY <1>1, <1>2, CacheFillTypes, CacheControlTypes, ReaderNextTypes, RequestTypes
     DEF Next, FillerNext, Finished

(* Every variable keeps its type in every run of the cache.                 *)
THEOREM TypeCorrect == Spec => []TypeOK
<1>1. Init => TypeOK
  BY InitTypes
<1>2. TypeOK /\ [Next]_vars => TypeOK'
  BY NextTypes
<1> QED BY <1>1, <1>2, PTL DEF Spec

----------------------------------------------------------------------------
(* The block cache_fill plans is not empty, fits the free space, and passes *)
(* the end of the ring by less than a sector.                               *)
LEMMA BlockFits ==
  ASSUME NEW space \in Int, NEW p \in Int, 0 <= p, p < BufferSize, FillLimit <= space
  PROVE  LET n == BlockSize(space, p)
         IN  n \in Int /\ 0 < n /\ n <= space /\ n <= BufferSize /\ p + n <= BufferSize + SectorSize - 1
<1>1. /\ BufferSize \in Nat /\ SectorSize \in Nat /\ FillLimit \in Nat /\ ReadChunk \in Nat
      /\ 0 < SectorSize /\ 0 < FillLimit /\ SectorSize <= FillLimit /\ FillLimit < BufferSize
  BY SizesAssumption DEF SizesAssumption
<1> QED BY <1>1 DEF BlockSize, FFMIN, FFMAX

(* The bytes kept by the new min_filepos leave room for the planned block.  *)
LEMMA WindowFits ==
  ASSUME TypeOK, NEW read \in Int, NEW n \in Int
  PROVE  max_filepos + n - NewMin(read, n) <= BufferSize
<1>1. min_filepos \in Int /\ max_filepos \in Int /\ BufferSize \in Nat
  BY SizesAssumption DEF SizesAssumption, TypeOK, SharedTypes
<1> QED BY <1>1 DEF NewMin, Newb, FFMAX

(* A step of the reader changes neither the window nor the filler's locals, *)
(* and leaves the filler where it is unless it ends it.                     *)
LEMMA ReaderLeavesFiller ==
  ReaderNext \/ Requests \/ Die \/ UNCHANGED vars
    => UNCHANGED <<window, fLocals, fStream>> /\ (fpc' = fpc \/ fpc' = "exited")
<1> USE DEF shared, filler, vars
<1>1. ReaderNext => UNCHANGED <<window, fLocals, fStream>> /\ (fpc' = fpc \/ fpc' = "exited")
  BY DEF ReaderNext, PrefillCheck, PrefillEof, PrefillSleep, CheckMax, CheckMin, CheckEof, Sleep,
     Interrupted, LoadNewb, LoadPos, Copy, Copied, CopyCrash, SeekEof, Answered, WaitInterrupted,
     AskQuit, Ask, Kill
<1>2. Requests => UNCHANGED <<window, fLocals, fStream>> /\ (fpc' = fpc \/ fpc' = "exited")
  BY DEF Requests, StartFill, SeekLong, DoControl, Ask, StartUninit
<1> QED BY <1>1, <1>2 DEF Die

(* cache_fill keeps the filler's invariant.                                 *)
LEMMA CacheFillInv == TypeOK /\ FillerInv /\ CacheFill => FillerInv'
<1> SUFFICES ASSUME TypeOK, FillerInv, CacheFill PROVE FillerInv'
  OBVIOUS
<1>0. /\ BufferSize \in Nat /\ SectorSize \in Nat /\ FillLimit \in Nat
      /\ 0 < BufferSize /\ 0 < SectorSize /\ SectorSize < BufferSize
      /\ min_filepos \in Int /\ max_filepos \in Int /\ offset \in Int
      /\ fPos \in Int /\ fSpace \in Int /\ fLen \in Int /\ fRead \in Int /\ fFlush \in Int
  BY SizesAssumption DEF SizesAssumption, TypeOK, SharedTypes, FillerTypes
<1> USE DEF FillerInv, window, shared
<1>1. CASE Snapshot \/ FlushLoad \/ Reposition \/ PlanNone
  BY <1>1, <1>0 DEF Snapshot, FlushLoad, Reposition, PlanNone, ToControl, fLocals, fFill
<1>2. CASE FlushMax \/ FlushMin \/ FlushOffset
  BY <1>2, <1>0 DEF FlushMax, FlushMin, FlushOffset, fLocals, fFill
<1>3. CASE PlanBlock
  <2> DEFINE n == BlockSize(Space(fRead), WritePos)
  <2>1. 0 <= WritePos /\ WritePos < BufferSize /\ WritePos = max_filepos - offset
    BY <1>3, <1>0 DEF PlanBlock, WritePos, Unwrap
  <2>2. Space(fRead) \in Int /\ FillLimit <= Space(fRead)
    BY <1>3, <1>0, FillTypes DEF PlanBlock
  <2>3. /\ n \in Int /\ 0 < n /\ n <= BufferSize
        /\ WritePos + n <= BufferSize + SectorSize - 1
    BY <1>0, <2>1, <2>2, BlockFits
  <2>4. /\ max_filepos + n - NewMin(fRead, n) <= BufferSize
        /\ NewMin(fRead, n) \in Int
    BY <1>0, <2>3, WindowFits, FillTypes
  <2>5. /\ fPos' = WritePos /\ fSpace' = n /\ min_filepos' = NewMin(fRead, n)
        /\ fpc' = "fetch" /\ UNCHANGED <<max_filepos, offset>>
    BY <1>3 DEF PlanBlock
  <2> HIDE DEF n
  <2> QED BY <1>0, <2>1, <2>3, <2>4, <2>5
<1>4. CASE Fetch
  <2>1. PICK len \in FetchLens(fSpace) : fLen' = len
    BY <1>4 DEF Fetch
  <2>2. len \in Int /\ 0 <= len /\ len <= fSpace
    BY <1>0, <1>4, SizesAssumption
       DEF FetchLens, FFMIN, FFMAX, SizesAssumption, Fetch, TypeOK, FillerTypes
  <2> QED BY <1>0, <1>4, <2>1, <2>2 DEF Fetch
<1>5. CASE StoreEof
  BY <1>5, <1>0 DEF StoreEof, ToControl, fFill
<1>6. CASE StoreMax
  BY <1>6, <1>0 DEF StoreMax, ToControl, fFill, Wrapped
<1>7. CASE StoreOffset
  BY <1>7, <1>0 DEF StoreOffset, ToControl
<1> QED BY <1>1, <1>2, <1>3, <1>4, <1>5, <1>6, <1>7 DEF CacheFill

(* So does cache_execute_control, which only flushes through cache_flush.   *)
LEMMA CacheControlInv == TypeOK /\ FillerInv /\ CacheControl => FillerInv'
  BY DEF CacheControl, ControlRefuse, ParentGone, ControlEnter, Refused, NothingAsked, Switch,
     Call, ApplyPos, ApplyEof, ControlDone, FillerInv, window, shared, fLocals, fFill

LEMMA FillerInvariant == Spec => []FillerInv
<1>1. Init => FillerInv
  BY SizesAssumption DEF Init, FillerInv, SizesAssumption
<1>2. TypeOK /\ FillerInv /\ [Next]_vars => FillerInv'
  <2> SUFFICES ASSUME TypeOK, FillerInv, [Next]_vars PROVE FillerInv'
    OBVIOUS
  <2>1. CASE ReaderNext \/ Requests \/ Die \/ UNCHANGED vars
    BY <2>1, ReaderLeavesFiller DEF FillerInv, window, fLocals
  <2> QED BY <2>1, CacheFillInv, CacheControlInv DEF Next, FillerNext, Finished
<1> QED BY <1>1, <1>2, TypeCorrect, PTL DEF Spec

(* Under every interleaving, for all sizes and with every seek, interrupt   *)
(* and failure, cache_fill reads the stream into the buffer only, and keeps *)
(* at most buffer_size bytes.                                               *)
THEOREM FillStaysInBounds == Spec => []FillInBounds
<1>1. TypeOK /\ FillerInv => FillInBounds
  BY SizesAssumption DEF SizesAssumption, TypeOK, SharedTypes, FillerTypes, FillerInv, FillInBounds
<1> QED BY <1>1, TypeCorrect, FillerInvariant, PTL

----------------------------------------------------------------------------
(* The new min_filepos is at most back_size behind the position cache_fill  *)
(* works for, because the block was cut to the space that leaves free.      *)
LEMMA NewMinKeepsBack ==
  ASSUME TypeOK, NEW read \in Int, NEW n \in Int, n <= Space(read)
  PROVE  NewMin(read, n) <= FFMAX(min_filepos, read - BackSize)
<1>1. /\ min_filepos \in Int /\ max_filepos \in Int
      /\ BufferSize \in Nat /\ BackSize \in Nat
  BY SizesAssumption DEF SizesAssumption, TypeOK, SharedTypes
<1> QED BY <1>1 DEF NewMin, Space, Newb, Back, FFMAX, FFMIN

(* Bytes no more than back_size behind the reader are dropped by a flush    *)
(* only, whatever the reader does meanwhile.                                *)
THEOREM BackBytesKept == Spec => KeepsBackBytes
<1> DEFINE Kept == min_filepos' # min_filepos /\ fpc = "plan"
                     => min_filepos' <= FFMAX(min_filepos, fRead - BackSize)
<1>1. TypeOK /\ FillerInv /\ [Next]_vars => [Kept]_vars
  <2> SUFFICES ASSUME TypeOK, FillerInv, [Next]_vars, min_filepos' # min_filepos, fpc = "plan"
               PROVE  min_filepos' <= FFMAX(min_filepos, fRead - BackSize)
    OBVIOUS
  <2>0. fRead \in Int /\ max_filepos \in Int /\ offset \in Int /\ BufferSize \in Int
    BY SizesAssumption DEF SizesAssumption, TypeOK, SharedTypes, FillerTypes
  <2>1. CASE PlanBlock
    <3> DEFINE n == BlockSize(Space(fRead), WritePos)
    <3>1. 0 <= WritePos /\ WritePos < BufferSize /\ WritePos \in Int
      BY <2>0 DEF WritePos, Unwrap, FillerInv
    <3>2. n \in Int /\ n <= Space(fRead)
      BY <2>0, <2>1, <3>1, FillTypes, BlockFits DEF PlanBlock
    <3>3. min_filepos' = NewMin(fRead, n)
      BY <2>1 DEF PlanBlock
    <3> HIDE DEF n
    <3> QED BY <2>0, <3>2, <3>3, NewMinKeepsBack
  <2>2. CASE PlanNone
    BY <2>2 DEF PlanNone, shared, window
  <2>3. CASE ReaderNext \/ Requests \/ Die \/ UNCHANGED vars
    BY <2>3, ReaderLeavesFiller DEF window
  <2>4. FillerNext => PlanBlock \/ PlanNone
    BY DEF FillerNext, CacheFill, CacheControl, Snapshot, FlushLoad, FlushMax, FlushMin, FlushOffset,
       Reposition, Fetch, StoreEof, StoreMax, StoreOffset, ControlRefuse, ParentGone, ControlEnter,
       Refused, NothingAsked, Switch, Call, ApplyPos, ApplyEof, ControlDone
  <2> QED BY <2>1, <2>2, <2>3, <2>4 DEF Next, Finished
<1> QED BY <1>1, TypeCorrect, FillerInvariant, PTL DEF Spec, KeepsBackBytes

----------------------------------------------------------------------------
(* The mailbox of cache_do_control holds one command at a time: the one the *)
(* player waits for. The filler works on that command or on none, and what  *)
(* it leaves in control_res is about that command until control is cleared. *)
Flushing == {"flushLoad", "flushMax", "flushMin", "flushOffset"}
Serving  == {"ctlCall", "ctlApply", "ctlEof", "ctlDone"}

Asked ==
  /\ rpc = "wait" => rCmd # None /\ control \in {rCmd, None}
  /\ rpc \notin {"wait", "dead"} => rCmd = None /\ control = None
  /\ control # None => control = rCmd
  /\ rpc = "wait" /\ control = None => control_res.to = rCmd
Taken ==
  /\ fCmd # None => /\ fCmd = control
                    /\ fpc \in Serving \union Flushing \union {"ctlRefuse", "exited"}
  /\ fpc \in Serving => fCmd # None
  /\ fpc = "ctlRefuse" => fCmd = Quit
  /\ fpc \in {"ctlApply", "ctlEof"} => fCmd = "seek_time"
  /\ fpc \in Flushing /\ fCmd # None => fCmd = "seek_time"
  /\ fpc \in Flushing \union {"ctlApply", "ctlEof", "ctlDone"} /\ fCmd # None
       => control_res.to = control
  /\ fpc \in Flushing \union {"ctlApply", "ctlEof"} /\ fCmd # None => control_res.ok
MailInv == Asked /\ Taken

(* Filling the buffer reads no command; flushing for one keeps it.          *)
LEMMA CacheFillMail == TypeOK /\ MailInv /\ CacheFill => MailInv'
<1> SUFFICES ASSUME TypeOK, MailInv, CacheFill PROVE MailInv'
  OBVIOUS
<1> USE DEF MailInv, Asked, Taken, Flushing, Serving, shared, mailbox, reader
<1>1. CASE Snapshot \/ FlushLoad \/ Reposition \/ PlanNone \/ PlanBlock \/ Fetch
  BY <1>1 DEF Snapshot, FlushLoad, Reposition, PlanNone, PlanBlock, Fetch, ToControl, fLocals
<1>2. CASE FlushMax \/ FlushMin \/ FlushOffset
  BY <1>2 DEF FlushMax, FlushMin, FlushOffset, fLocals
<1>3. CASE StoreEof \/ StoreMax \/ StoreOffset
  BY <1>3 DEF StoreEof, StoreMax, StoreOffset, ToControl
<1> QED BY <1>1, <1>2, <1>3 DEF CacheFill

(* The filler takes the command there is, and answers that one.             *)
LEMMA CacheControlMail ==
  ASSUME HasControl = TRUE, TypeOK, MailInv, CacheControl PROVE MailInv'
<1> USE DEF MailInv, Asked, Taken, Flushing, Serving, shared, mailbox, reader
<1>0. control_res \in [ok : BOOLEAN, to : AllCommands]
  BY DEF TypeOK, SharedTypes
<1>1. CASE ControlRefuse \/ ParentGone \/ ControlEnter \/ NothingAsked \/ Switch
  BY <1>1 DEF ControlRefuse, ParentGone, ControlEnter, NothingAsked, Switch, fLocals
<1>2. CASE Refused
  BY <1>2 DEF Refused
<1>3. CASE Call
  BY <1>3 DEF Call, fLocals
<1>4. CASE ApplyPos \/ ApplyEof
  BY <1>4 DEF ApplyPos, ApplyEof, fLocals
<1>5. CASE ControlDone
  BY <1>5 DEF ControlDone
<1> QED BY <1>1, <1>2, <1>3, <1>4, <1>5 DEF CacheControl

(* The player stores a command only when the mailbox is empty, and waits    *)
(* until it is empty again.                                                 *)
LEMMA ReaderMail ==
  ASSUME Interrupts = FALSE, TypeOK, MailInv,
         ReaderNext \/ Requests \/ Die \/ UNCHANGED vars
  PROVE  MailInv'
<1> USE DEF MailInv, Asked, Taken, Flushing, Serving, shared, mailbox, filler, fLocals
<1>1. CASE PrefillCheck \/ PrefillEof \/ PrefillSleep \/ CheckMax \/ CheckMin \/ Sleep
  BY <1>1 DEF PrefillCheck, PrefillEof, PrefillSleep, CheckMax, CheckMin, Sleep, Goto
<1>2. CASE CheckEof
  BY <1>2 DEF CheckEof, Deliver, Goto
<1>3. CASE LoadNewb \/ LoadPos \/ SeekEof
  BY <1>3 DEF LoadNewb, LoadPos, SeekEof
<1>4. CASE Copy
  <2>1. \/ UNCHANGED <<mailbox, rCmd, filler>> /\ rpc' \in {"idle", "chkMax"}
        \/ UNCHANGED <<mailbox, rCmd, fLocals>> /\ rpc' = "dead" /\ fpc' \in {fpc, "exited"}
    BY <1>4 DEF Copy, Copied, CopyCrash, Deliver
  <2> QED BY <1>4, <2>1 DEF Copy
<1>5. CASE Answered
  BY <1>5 DEF Answered, Resume
<1>6. CASE Interrupted \/ WaitInterrupted
  BY <1>6 DEF Interrupted, WaitInterrupted
<1>7. CASE AskQuit
  BY <1>7 DEF AskQuit, Ask
<1>8. CASE Kill
  BY <1>8 DEF Kill
<1>9. CASE StartFill \/ SeekLong \/ StartUninit
  BY <1>9 DEF StartFill, SeekLong, StartUninit, Goto
<1>10. CASE DoControl
  BY <1>10, EnvironmentAssumption DEF DoControl, Ask, EnvironmentAssumption
<1>11. CASE Die \/ UNCHANGED vars
  BY <1>11 DEF Die, vars, reader
<1> QED
  BY <1>1, <1>2, <1>3, <1>4, <1>5, <1>6, <1>7, <1>8, <1>9, <1>10, <1>11 DEF ReaderNext, Requests

LEMMA MailInvariant == HasControl /\ ~Interrupts => (Spec => []MailInv)
<1> SUFFICES ASSUME HasControl = TRUE, Interrupts = FALSE PROVE Spec => []MailInv
  BY EnvironmentAssumption DEF EnvironmentAssumption
<1>1. Init => MailInv
  BY DEF Init, MailInv, Asked, Taken, Flushing, Serving
<1>2. TypeOK /\ MailInv /\ [Next]_vars => MailInv'
  BY CacheFillMail, CacheControlMail, ReaderMail DEF Next, FillerNext, Finished
<1> QED BY <1>1, <1>2, TypeCorrect, PTL DEF Spec

(* cache_do_control returns the result of the command it was asked for, in  *)
(* every interleaving with a filler that has a stream control function, as  *)
(* long as the player never gives up a wait: a command that is left in the  *)
(* mailbox may be answered in the place of the next one.                    *)
THEOREM AnswersBelong == HasControl /\ ~Interrupts => (Spec => AnswersItsCommand)
<1> SUFFICES ASSUME HasControl, ~Interrupts PROVE Spec => AnswersItsCommand
  OBVIOUS
<1>1. MailInv => (rpc = "wait" /\ rCmd' = None /\ control = None => control_res.to = rCmd)
  BY DEF MailInv, Asked
<1> QED BY <1>1, MailInvariant, PTL DEF AnswersItsCommand
----------------------------------------------------------------------------
(* The player's position and read_filepos are apart by the bytes of the     *)
(* sector being read, and otherwise only while a position change that       *)
(* succeeded is still to be taken over by the waiting player.               *)
PosInv ==
  /\ rpc \in Reading => pos + Len(sbuf) = read_filepos
  /\ rpc \notin Reading \union {"wait", "dead", "closed"} => pos = read_filepos
  /\ rpc = "wait" /\ pos # read_filepos
       => /\ control_res.ok /\ rCmd = "seek_time"
          /\ \/ control = None
             \/ fCmd # None /\ fpc \in Flushing \union {"ctlEof", "ctlDone"}
             \/ fpc = "exited"

(* Without "seek_time", no one but the player moves read_filepos.           *)
NoSeekInv ==
  /\ control # "seek_time" /\ fCmd # "seek_time" /\ rCmd # "seek_time"
  /\ fpc \notin {"ctlApply", "ctlEof"}
  /\ fCmd # None => fpc \in {"ctlCall", "ctlDone", "ctlRefuse", "exited"}
  /\ fpc \in {"ctlCall", "ctlDone"} => fCmd # None

LEMMA NoSeekInvariant == "seek_time" \notin Commands \/ ~HasControl => (Spec => []NoSeekInv)
<1> SUFFICES ASSUME "seek_time" \notin Commands \/ ~HasControl PROVE Spec => []NoSeekInv
  OBVIOUS
<1> USE DEF NoSeekInv, shared, mailbox, filler, fLocals, reader
<1>1. Init => NoSeekInv
  BY DEF Init
<1>2. NoSeekInv /\ FillerNext => NoSeekInv'
  BY DEF FillerNext, CacheFill, CacheControl, Snapshot, FlushLoad, FlushMax, FlushMin, FlushOffset,
     Reposition, PlanNone, PlanBlock, Fetch, StoreEof, StoreMax, StoreOffset, ControlRefuse,
     ParentGone, ControlEnter, Refused, NothingAsked, Switch, Call, ApplyPos, ApplyEof, ControlDone,
     ToControl
<1>3. NoSeekInv /\ ReaderNext => NoSeekInv'
  BY DEF ReaderNext, PrefillCheck, PrefillEof, PrefillSleep, CheckMax, CheckMin, CheckEof, Sleep,
     Interrupted, LoadNewb, LoadPos, Copy, Copied, CopyCrash, SeekEof, Answered, WaitInterrupted,
     AskQuit, Ask, Kill, Goto
<1>4. NoSeekInv /\ Requests => NoSeekInv'
  BY DEF Requests, StartFill, SeekLong, DoControl, Ask, StartUninit, Goto
<1>5. NoSeekInv /\ [Next]_vars => NoSeekInv'
  BY <1>2, <1>3, <1>4 DEF Next, Die, Finished, vars
<1> QED BY <1>1, <1>5, PTL DEF Spec

(* The filler moves read_filepos for a successful "seek_time" only, while   *)
(* the player waits for it.                                                 *)
LEMMA FillerPos ==
  ASSUME TypeOK, PosInv, NoSeekInv \/ MailInv, FillerNext PROVE PosInv'
<1> USE DEF PosInv, Flushing, shared, mailbox, reader
<1>0. control_res \in [ok : BOOLEAN, to : AllCommands]
  BY DEF TypeOK, SharedTypes
<1>1. CASE Snapshot \/ FlushLoad \/ Reposition \/ PlanNone \/ PlanBlock \/ Fetch
  BY <1>1 DEF Snapshot, FlushLoad, Reposition, PlanNone, PlanBlock, Fetch, ToControl, fLocals
<1>2. CASE FlushMax \/ FlushMin \/ FlushOffset
  BY <1>2 DEF FlushMax, FlushMin, FlushOffset, fLocals
<1>3. CASE StoreEof \/ StoreMax \/ StoreOffset
  BY <1>3 DEF StoreEof, StoreMax, StoreOffset, ToControl
<1>4. CASE ControlRefuse \/ ParentGone \/ ControlEnter \/ NothingAsked \/ Switch
  BY <1>4 DEF ControlRefuse, ParentGone, ControlEnter, NothingAsked, Switch, fLocals
<1>5. CASE Refused \/ Call
  <2>1. rpc = "wait" => pos = read_filepos
    BY <1>5 DEF Refused, Call, NoSeekInv, MailInv, Asked, Taken, Serving
  <2>2. UNCHANGED <<pos, rpc, sbuf, read_filepos>>
    BY <1>5 DEF Refused, Call
  <2> QED BY <2>1, <2>2
<1>6. CASE ApplyPos
  <2>1. MailInv /\ fCmd = "seek_time" /\ control = "seek_time" /\ control_res.ok
    BY <1>6 DEF ApplyPos, NoSeekInv, MailInv, Taken, Serving
  <2>2. rpc \in {"wait", "dead"} /\ rCmd = "seek_time"
    BY <2>1 DEF MailInv, Asked
  <2> QED BY <1>6, <2>1, <2>2 DEF ApplyPos, fLocals, Reading
<1>7. CASE ApplyEof
  BY <1>7 DEF ApplyEof, NoSeekInv, MailInv, Taken, Serving, fLocals
<1>8. CASE ControlDone
  BY <1>8 DEF ControlDone
<1> QED BY <1>1, <1>2, <1>3, <1>4, <1>5, <1>6, <1>7, <1>8 DEF FillerNext, CacheFill, CacheControl

(* The player moves its position and read_filepos together.                 *)
LEMMA ReaderPos ==
  ASSUME TypeOK, PosInv, NoSeekInv \/ (MailInv /\ Interrupts = FALSE),
         ReaderNext \/ Requests \/ Die \/ UNCHANGED vars
  PROVE  PosInv'
<1> USE DEF PosInv, shared, mailbox, filler, Reading
<1>0. /\ pos \in Int /\ read_filepos \in Int /\ sbuf \in Seq(Int) /\ Len(sbuf) \in Nat
      /\ SectorSize \in Nat
  BY SizesAssumption DEF TypeOK, SharedTypes, ReaderTypes, SizesAssumption
<1>1. CASE PrefillCheck \/ PrefillEof \/ PrefillSleep
  BY <1>1 DEF PrefillCheck, PrefillEof, PrefillSleep, Goto, rFixed
<1>2. CASE CheckMax \/ CheckMin \/ Sleep
  BY <1>2 DEF CheckMax, CheckMin, Sleep, Goto, rFixed
<1>3. CASE CheckEof \/ Interrupted
  BY <1>0, <1>3 DEF CheckEof, Interrupted, Deliver, Goto, rFixed
<1>4. CASE LoadNewb \/ LoadPos
  BY <1>4 DEF LoadNewb, LoadPos, rFixed
<1>5. CASE Copy /\ ~(rNewb < 0)
  <2>1. rNewb \in Nat
    BY <1>5 DEF TypeOK, ReaderTypes
  <2> DEFINE bytes == sbuf \o [i \in 1 .. rNewb |-> Cell(rPos + i - 1)]
  <2>2. bytes \in Seq(Int)
    BY <2>1, CopyTypes
  <2>3. Len(bytes) = Len(sbuf) + rNewb
    BY <2>1, <1>0
  <2>4. /\ read_filepos' = read_filepos + rNewb
        /\ \/ rpc' = "idle" /\ pos' = pos + Len(bytes)
           \/ rpc' = "chkMax" /\ sbuf' = bytes /\ pos' = pos
    BY <1>5 DEF Copy, Copied, Deliver
  <2>5. pos + Len(sbuf) = read_filepos
    BY <1>5 DEF Copy
  <2> HIDE DEF bytes
  <2>6. CASE rpc' = "idle" /\ pos' = pos + Len(bytes)
    <3>1. pos' = read_filepos'
      BY <1>0, <2>1, <2>3, <2>4, <2>5, <2>6
    <3> QED BY <2>6, <3>1
  <2>7. CASE rpc' = "chkMax" /\ sbuf' = bytes /\ pos' = pos
    <3>1. pos' + Len(sbuf') = read_filepos'
      BY <1>0, <2>1, <2>3, <2>4, <2>5, <2>7
    <3> QED BY <2>7, <3>1
  <2> QED BY <2>4, <2>6, <2>7
<1>6. CASE Copy /\ rNewb < 0
  BY <1>6 DEF Copy, CopyCrash
<1>7. CASE SeekEof \/ StartFill
  BY <1>0, <1>7 DEF SeekEof, StartFill
<1>8. CASE SeekLong
  BY <1>8 DEF SeekLong
<1>9. CASE Answered \/ WaitInterrupted
  BY <1>9 DEF Answered, WaitInterrupted, Resume, rFixed, NoSeekInv
<1>10. CASE AskQuit \/ DoControl
  BY <1>10 DEF AskQuit, DoControl, Ask, rFixed
<1>11. CASE Kill \/ Die
  BY <1>11 DEF Kill, Die
<1>12. CASE StartUninit
  BY <1>12 DEF StartUninit, Goto, rFixed
<1>13. CASE UNCHANGED vars
  BY <1>13 DEF vars, reader, fLocals, Flushing
<1> QED
  BY <1>1, <1>2, <1>3, <1>4, <1>5, <1>6, <1>7, <1>8, <1>9, <1>10, <1>11, <1>12, <1>13
     DEF ReaderNext, Requests

LEMMA PosInvariant == ~Interrupts \/ "seek_time" \notin Commands => (Spec => []PosInv)
<1> SUFFICES ASSUME ~Interrupts \/ "seek_time" \notin Commands PROVE Spec => []PosInv
  OBVIOUS
<1>1. Init => PosInv
  BY DEF Init, PosInv, Reading
<1>2. CASE "seek_time" \notin Commands \/ ~HasControl
  <2>1. TypeOK /\ NoSeekInv /\ PosInv /\ [Next]_vars => PosInv'
    BY FillerPos, ReaderPos DEF Next, Finished
  <2> QED BY <1>1, <1>2, <2>1, NoSeekInvariant, TypeCorrect, PTL DEF Spec
<1>3. CASE HasControl /\ ~Interrupts
  <2>1. Interrupts = FALSE
    BY <1>3, EnvironmentAssumption DEF EnvironmentAssumption
  <2>2. TypeOK /\ MailInv /\ PosInv /\ [Next]_vars => PosInv'
    BY <2>1, FillerPos, ReaderPos DEF Next, Finished
  <2> QED BY <1>1, <1>3, <2>2, MailInvariant, TypeCorrect, PTL DEF Spec
<1> QED BY <1>2, <1>3

(* cache_stream_fill_buffer finds the position of the player and that of    *)
(* the cache equal, unless "seek_time" may be interrupted: the filler then  *)
(* moves read_filepos under a player that no longer waits for it.           *)
THEOREM PositionsAgree == ~Interrupts \/ "seek_time" \notin Commands => (Spec => []ReadPosAgrees)
<1> SUFFICES ASSUME ~Interrupts \/ "seek_time" \notin Commands PROVE Spec => []ReadPosAgrees
  OBVIOUS
<1>1. PosInv => ReadPosAgrees
  BY DEF PosInv, ReadPosAgrees, Reading
<1> QED BY <1>1, PosInvariant, PTL

----------------------------------------------------------------------------
(* The environments in which nothing runs away with the window while the    *)
(* player copies out of it: it seeks backward only while the filler is at   *)
(* the top of its loop and waits for what it asked for; or it may give up   *)
(* waiting, but moves forward only.                                         *)
Careful ==
  \/ ~Interrupts /\ BackwardSeeks # "any"
  \/ BackwardSeeks = "never" /\ ("seek_time" \notin Commands \/ ~HasControl)

(* While a control moves read_filepos and drops the window, the player waits. *)
CmdInv ==
  /\ fCmd # None => fpc \in Serving \union Flushing \union {"ctlRefuse", "exited"}
  /\ fpc \in Serving => fCmd # None
  /\ fpc = "ctlCall" => (fCmd = "seek_time" <=> control = "seek_time")
  /\ fpc \in {"ctlApply", "ctlEof"} \/ (fpc \in Flushing /\ fCmd # None)
       => /\ rpc \in {"wait", "dead"} /\ fCmd = "seek_time" /\ control # None
          /\ Interrupts = FALSE

LEMMA CmdInvariant == Careful => (Spec => []CmdInv)
<1> SUFFICES ASSUME Careful PROVE Spec => []CmdInv
  OBVIOUS
<1> USE DEF CmdInv, Serving, Flushing
<1>1. CASE "seek_time" \notin Commands \/ ~HasControl
  <2>1. NoSeekInv => CmdInv
    BY DEF NoSeekInv
  <2> QED BY <1>1, <2>1, NoSeekInvariant, PTL
<1>2. CASE HasControl /\ ~Interrupts
  <2>1. Interrupts = FALSE
    BY <1>2, EnvironmentAssumption DEF EnvironmentAssumption
  <2>2. MailInv => CmdInv
    BY <2>1 DEF MailInv, Asked, Taken
  <2> QED BY <1>2, <2>2, MailInvariant, PTL
<1> QED BY <1>1, <1>2 DEF Careful

(* The player has not given the thread its quit, and lives.                 *)
Alive == rpc \notin {"closed", "dead"}

(* The window is still the old one in a flush.                              *)
Early == {"flushLoad", "flushMax", "flushMin"}

(* The player is behind the window after a backward seek, and stuck in its  *)
(* read until the filler has followed.                                      *)
Lagging ==
  /\ Interrupts = FALSE
  /\ rpc = "seekEof" \/ (rpc \in {"chkMax", "chkMin", "chkEof", "sleep"} /\ ~eof)

(* The filler works for a position the player has not gone back behind.     *)
Behind ==
  /\ fpc \in Flushing \union {"reposition", "plan"} /\ fCmd = None => fRead <= read_filepos
  /\ fpc \in {"flushMax", "flushMin", "flushOffset"} => fFlush <= read_filepos
  /\ fpc \notin Early \union {"snapshot", "ctlEof"} => min_filepos <= read_filepos
  /\ fpc = "snapshot" /\ read_filepos < min_filepos => Lagging
  /\ fpc \in Early /\ fCmd = None =>
       \/ /\ read_filepos < min_filepos /\ Lagging /\ read_filepos = fRead
          /\ fpc # "flushLoad" => fFlush = read_filepos
       \/ read_filepos >= max_filepos /\ rpc \notin {"chkMin", "newb", "pos", "copy"}
  /\ fpc = "exited" => /\ 0 <= max_filepos - offset /\ max_filepos - offset < BufferSize
                       /\ max_filepos - min_filepos <= BufferSize

(* Past its two tests cache_read stays inside the window, and copies from   *)
(* the ring position of read_filepos.                                       *)
Inside ==
  /\ rpc \in Reading => Len(sbuf) < SectorSize
  /\ rpc \in {"chkMin", "newb"} => read_filepos <= max_filepos
  /\ rpc \in {"newb", "pos", "copy"} => min_filepos <= read_filepos /\ fpc \notin Early
  /\ rpc \in {"pos", "copy"} => 0 <= rNewb /\ read_filepos + rNewb <= max_filepos
  /\ rpc \in {"chkMin", "newb", "pos"} /\ fpc \in {"flushMin", "flushOffset"}
       => read_filepos - offset < BufferSize
  /\ rpc = "copy" => rNewb <= Left
  /\ rpc = "copy" /\ 0 < rNewb
       => /\ 0 <= rPos /\ rPos + rNewb <= BufferSize
          /\ \/ rPos = read_filepos - offset
             \/ rPos = read_filepos - offset + BufferSize
             \/ rPos = read_filepos - offset - BufferSize

ReachInv == Alive => Behind /\ Inside

(* The numbers of the model, for the steps below.                           *)
Numbers ==
  /\ min_filepos \in Int /\ max_filepos \in Int /\ offset \in Int /\ read_filepos \in Int
  /\ fRead \in Int /\ fFlush \in Int /\ fPos \in Int /\ fSpace \in Int /\ fLen \in Int
  /\ spos \in Int /\ pos \in Int /\ rNewb \in Int /\ rPos \in Int
  /\ sbuf \in Seq(Int) /\ Len(sbuf) \in Nat
  /\ BufferSize \in Nat /\ SectorSize \in Nat /\ 0 < BufferSize /\ 0 < SectorSize
  /\ SeekLimit \in Int /\ 0 <= SeekLimit

LEMMA NumbersHold == TypeOK => Numbers
  BY SizesAssumption
     DEF Numbers, TypeOK, SharedTypes, FillerTypes, ReaderTypes, SizesAssumption, SeekLimit, FFMIN

LEMMA LaggingFrame == UNCHANGED <<rpc, eof>> => (Lagging' <=> Lagging)
  BY DEF Lagging

(* Filling the window ahead of the player, or moving it to where the player *)
(* is, never takes away what the player is about to copy.                   *)
LEMMA CacheFillReach ==
  ASSUME TypeOK, FillerInv, CmdInv, ReachInv, CacheFill PROVE ReachInv'
<1> SUFFICES ASSUME Alive, Behind, Inside PROVE Behind' /\ Inside'
  <2>1. UNCHANGED rpc
    BY DEF CacheFill, Snapshot, FlushLoad, FlushMax, FlushMin, FlushOffset, Reposition, PlanNone,
       PlanBlock, Fetch, StoreEof, StoreMax, StoreOffset, reader
  <2> QED BY <2>1 DEF ReachInv, Alive
<1>0. Numbers
  BY NumbersHold
<1>00. StoreEof \/ (Lagging' <=> Lagging)
  BY LaggingFrame DEF CacheFill, Snapshot, FlushLoad, FlushMax, FlushMin, FlushOffset, Reposition,
     PlanNone, PlanBlock, Fetch, StoreMax, StoreOffset, reader, shared
<1> USE <1>0, <1>00 DEF Numbers, Early, Flushing, Serving, shared, window, reader, Reading, Left
<1>1. CASE Snapshot
  <2>1. \/ fpc' = "plan" /\ min_filepos <= read_filepos
        \/ fpc' = "flushLoad" /\ (read_filepos < min_filepos \/ read_filepos > max_filepos)
    BY <1>1 DEF Snapshot, OutOfReach
  <2>2. fpc = "snapshot" /\ fRead' = read_filepos /\ fCmd = None /\ UNCHANGED fCmd
    BY <1>1 DEF Snapshot, CmdInv
  <2>3. UNCHANGED <<min_filepos, max_filepos, offset, read_filepos, rpc, rNewb, rPos, sbuf, fFlush>>
    BY <1>1 DEF Snapshot
  <2>4. Behind'
    BY <2>1, <2>2, <2>3 DEF Behind, Inside, StoreEof
  <2>5. Inside'
    BY <2>1, <2>2, <2>3 DEF Behind, Inside
  <2> QED BY <2>4, <2>5
<1>2. CASE FlushLoad \/ FlushMax
  <2>1. CASE FlushLoad
    <3>1. Behind'
      BY <2>1 DEF FlushLoad, StoreEof, fLocals, fFill, Behind, Inside, CmdInv, FillerInv
    <3>2. Inside'
      BY <2>1 DEF FlushLoad, StoreEof, fLocals, fFill, Behind, Inside, CmdInv, FillerInv
    <3> QED BY <3>1, <3>2
  <2>2. CASE FlushMax
    <3>1. Behind'
      BY <2>2 DEF FlushMax, StoreEof, fLocals, fFill, Behind, Inside, CmdInv, FillerInv
    <3>2. Inside'
      BY <2>2 DEF FlushMax, StoreEof, fLocals, fFill, Behind, Inside, CmdInv, FillerInv
    <3> QED BY <3>1, <3>2
  <2> QED BY <1>2, <2>1, <2>2
<1>3. CASE FlushMin \/ FlushOffset
  <2>1. CASE FlushMin
    <3>1. Behind'
      BY <2>1 DEF FlushMin, StoreEof, fLocals, fFill, Behind, Inside, CmdInv, FillerInv
    <3>2. Inside'
      BY <2>1 DEF FlushMin, StoreEof, fLocals, fFill, Behind, Inside, CmdInv, FillerInv
    <3> QED BY <3>1, <3>2
  <2>2. CASE FlushOffset
    <3>1. Behind'
      BY <2>2 DEF FlushOffset, StoreEof, fLocals, fFill, Behind, Inside, CmdInv, FillerInv
    <3>2. Inside'
      BY <2>2 DEF FlushOffset, StoreEof, fLocals, fFill, Behind, Inside, CmdInv, FillerInv
    <3> QED BY <3>1, <3>2
  <2> QED BY <1>3, <2>1, <2>2
<1>4. CASE Reposition \/ PlanNone \/ Fetch
  BY <1>4 DEF Reposition, PlanNone, Fetch, StoreEof, ToControl, fLocals, Behind, Inside
<1>5. CASE PlanBlock
  <2> DEFINE n == BlockSize(Space(fRead), WritePos)
  <2>1. 0 <= WritePos /\ WritePos < BufferSize /\ WritePos \in Int
    BY <1>5 DEF PlanBlock, WritePos, Unwrap, FillerInv
  <2>2. n \in Int /\ n <= Space(fRead)
    BY <1>5, <2>1, FillTypes, BlockFits DEF PlanBlock
  <2>3. min_filepos' = NewMin(fRead, n) /\ fRead <= read_filepos /\ min_filepos <= read_filepos
    BY <1>5 DEF PlanBlock, Behind, CmdInv
  <2> HIDE DEF n
  <2>4. min_filepos' <= FFMAX(min_filepos, fRead - BackSize) /\ min_filepos' \in Int
    BY <2>2, <2>3, NewMinKeepsBack, FillTypes
  <2>5. min_filepos' <= read_filepos
    <3>1. BackSize \in Nat
      BY SizesAssumption DEF SizesAssumption
    <3> QED BY <2>3, <2>4, <3>1 DEF FFMAX
  <2>6. fpc' = "fetch" /\ UNCHANGED <<max_filepos, offset, read_filepos, rpc, rNewb, rPos, sbuf>>
    BY <1>5 DEF PlanBlock
  <2> QED BY <2>5, <2>6 DEF Behind, Inside
<1>6. CASE StoreEof
  BY <1>6 DEF StoreEof, ToControl, fFill, Behind, Inside
<1>7. CASE StoreMax
  BY <1>7 DEF StoreMax, StoreEof, ToControl, fFill, Behind, Inside, FillerInv
<1>8. CASE StoreOffset
  BY <1>8 DEF StoreOffset, StoreEof, ToControl, Behind, Inside, FillerInv
<1> QED BY <1>1, <1>2, <1>3, <1>4, <1>5, <1>6, <1>7, <1>8 DEF CacheFill

(* A control moves read_filepos only while the player waits for it.         *)
LEMMA CacheControlReach ==
  ASSUME TypeOK, FillerInv, CmdInv, ReachInv, CacheControl PROVE ReachInv'
<1> SUFFICES ASSUME Alive, Behind, Inside PROVE Behind' /\ Inside'
  <2>1. UNCHANGED rpc
    BY DEF CacheControl, ControlRefuse, ParentGone, ControlEnter, Refused, NothingAsked, Switch,
       Call, ApplyPos, ApplyEof, ControlDone, reader
  <2> QED BY <2>1 DEF ReachInv, Alive
<1>0. Numbers
  BY NumbersHold
<1>00. ApplyEof \/ (Lagging' <=> Lagging)
  BY LaggingFrame DEF CacheControl, ControlRefuse, ParentGone, ControlEnter, Refused, NothingAsked,
     Switch, Call, ApplyPos, ControlDone, reader, shared
<1> USE <1>0, <1>00 DEF Numbers, Early, Flushing, Serving, shared, window, reader, Reading, Left
<1>1. CASE ControlRefuse \/ ControlEnter \/ NothingAsked \/ Switch \/ Call \/ ControlDone
  <2>1. /\ UNCHANGED <<min_filepos, max_filepos, offset, read_filepos, rpc, rNewb, rPos, sbuf>>
        /\ fpc \in {"control", "ctlSwitch", "ctlCall", "ctlDone"}
        /\ fpc' \in {"ctlRefuse", "ctlSwitch", "ctlCall", "ctlApply", "ctlDone", "snapshot"}
    BY <1>1 DEF ControlRefuse, ControlEnter, NothingAsked, Switch, Call, ControlDone
  <2> QED BY <2>1 DEF Behind, Inside
<1>2. CASE ParentGone
  BY <1>2 DEF ParentGone, Alive
<1>3. CASE Refused
  BY <1>3 DEF Refused, ApplyEof, fFill, Behind, Inside, FillerInv
<1>4. CASE ApplyPos
  BY <1>4 DEF ApplyPos, ApplyEof, fLocals, Behind, Inside, CmdInv
<1>5. CASE ApplyEof
  BY <1>5 DEF ApplyEof, fLocals, Behind, Inside, CmdInv
<1> QED BY <1>1, <1>2, <1>3, <1>4, <1>5 DEF CacheControl

(* The position of read_filepos in the ring, and how far from its end: what *)
(* cache_read computes from the shared fields is right even if the filler   *)
(* has not stored the new offset yet.                                       *)
LEMMA RingPosRight ==
  ASSUME Numbers, NEW p \in Int, p < 2 * BufferSize
  PROVE  /\ RingPos(p) \in Int /\ RingPos(p) < BufferSize
         /\ -BufferSize <= p => 0 <= RingPos(p)
         /\ RingPos(p) \in {p, p + BufferSize, p - BufferSize}
  BY DEF RingPos, Unwrap, Numbers

(* What cache_read copies at once: not past the end of the ring, nor more   *)
(* than was asked for.                                                      *)
LEMMA CopyLength ==
  \A newb, room, left \in Nat :
    \E n \in Nat : /\ n = FFMIN(FFMIN(newb, room), left)
                  /\ n <= newb /\ n <= room /\ n <= left
  BY DEF FFMIN

(* The player enters the window by its tests only, and leaves it forward.   *)
LEMMA ReaderReach ==
  ASSUME Careful, TypeOK, FillerInv, CmdInv, ReachInv,
         ReaderNext \/ Requests \/ Die \/ UNCHANGED vars
  PROVE  ReachInv'
<1> SUFFICES ASSUME Alive, Alive', Behind, Inside PROVE Behind' /\ Inside'
  <2>1. rpc \in {"closed", "dead"} => rpc' \in {"closed", "dead"}
    BY DEF ReaderNext, PrefillCheck, PrefillEof, PrefillSleep, CheckMax, CheckMin, CheckEof, Sleep,
       Interrupted, LoadNewb, LoadPos, Copy, SeekEof, Answered, WaitInterrupted, AskQuit, Kill,
       Requests, StartFill, SeekLong, DoControl, StartUninit, Die, vars, reader
  <2> QED BY <2>1 DEF ReachInv, Alive
<1>0. Numbers
  BY NumbersHold
<1> USE <1>0 DEF Numbers, Early, Flushing, Serving, shared, window, filler, fLocals, Reading
<1>1. CASE PrefillCheck \/ PrefillEof \/ PrefillSleep
  BY <1>1 DEF PrefillCheck, PrefillEof, PrefillSleep, Goto, Behind, Inside, Lagging
<1>2. CASE CheckMax
  <2>1. ~eof => ~eof'
    BY <1>2 DEF CheckMax
  <2> QED BY <1>2, <2>1 DEF CheckMax, Goto, rFixed, Behind, Inside, Lagging, CmdInv, FillerInv
<1>3. CASE CheckMin
  <2>1. ~eof => ~eof'
    BY <1>3 DEF CheckMin
  <2> QED BY <1>3, <2>1 DEF CheckMin, Goto, rFixed, Behind, Inside, Lagging, CmdInv, FillerInv
<1>4. CASE CheckEof
  <2>1. ~eof => ~eof'
    BY <1>4 DEF CheckEof
  <2> QED BY <1>4, <2>1 DEF CheckEof, Deliver, Goto, rFixed, Behind, Inside, Lagging
<1>5. CASE Sleep
  <2>1. ~eof => ~eof'
    BY <1>5 DEF Sleep
  <2> QED BY <1>5, <2>1 DEF Sleep, Goto, rFixed, Behind, Inside, Lagging
<1>6. CASE Interrupted
  BY <1>6 DEF Interrupted, Deliver, Behind, Inside, Lagging
<1>7. CASE LoadNewb
  BY <1>7 DEF LoadNewb, rFixed, Behind, Inside, Lagging, Left
<1>8. CASE LoadPos
  <2> DEFINE p == read_filepos - offset
  <2>1. UNCHANGED <<min_filepos, max_filepos, offset, read_filepos, fpc, fCmd, fRead, fFlush, sbuf>>
    BY <1>8 DEF LoadPos, rFixed
  <2>2. rpc = "pos" /\ rpc' = "copy" /\ rPos' = RingPos(p)
    BY <1>8 DEF LoadPos
  <2>3. p \in Int /\ p < 2 * BufferSize /\ (0 < rNewb => -BufferSize <= p)
    BY <2>2 DEF Inside, FillerInv, Behind
  <2>4. PICK r \in Int : /\ rPos' = r /\ r < BufferSize /\ r \in {p, p + BufferSize, p - BufferSize}
                         /\ 0 < rNewb => 0 <= r
    <3> HIDE DEF p
    <3> QED BY <2>2, <2>3, RingPosRight
  <2>5. 0 <= rNewb /\ Left \in Int /\ 0 < Left
    BY <2>2 DEF Inside, Left
  <2>6. PICK n \in Int : rNewb' = n /\ 0 <= n /\ n <= rNewb /\ n <= BufferSize - r /\ n <= Left
    <3>1. PICK room \in Int : room = BufferSize - r /\ 0 <= room
      BY <2>4
    <3>2. rNewb' = FFMIN(FFMIN(rNewb, room), Left)
      BY <1>8, <2>4, <3>1 DEF LoadPos
    <3>3. rNewb \in Nat /\ room \in Nat /\ Left \in Nat
      BY <2>5, <3>1
    <3>4. PICK n \in Nat : /\ n = FFMIN(FFMIN(rNewb, room), Left)
                           /\ n <= rNewb /\ n <= room /\ n <= Left
      BY <3>3, CopyLength
    <3> QED BY <3>1, <3>2, <3>4
  <2>7. Left' = Left
    BY <2>1 DEF Left
  <2>8. Inside'
    BY <2>1, <2>2, <2>4, <2>5, <2>6, <2>7 DEF Inside
  <2>9. Behind'
    BY <2>1, <2>2 DEF Behind, Inside, Lagging
  <2> QED BY <2>8, <2>9
<1>9. CASE Copy
  <2> DEFINE bytes == sbuf \o [i \in 1 .. rNewb |-> Cell(rPos + i - 1)]
  <2>1. rpc = "copy" /\ rNewb \in Nat /\ rNewb <= Left /\ fpc \notin Early
    BY <1>9 DEF Copy, Inside
  <2>2. bytes \in Seq(Int) /\ Len(bytes) = Len(sbuf) + rNewb
    BY <2>1, CopyTypes
  <2>3. /\ UNCHANGED <<min_filepos, max_filepos, offset, fpc, fCmd, fRead, fFlush>>
        /\ read_filepos' = read_filepos + rNewb
        /\ \/ rpc' = "idle"
           \/ rpc' = "chkMax" /\ sbuf' = bytes /\ Len(bytes) # SectorSize
    <3>1. ~(rNewb < 0) /\ Copied
      BY <1>9, <2>1 DEF Copy
    <3>2. /\ UNCHANGED <<min_filepos, max_filepos, offset, fpc, fCmd, fRead, fFlush>>
          /\ read_filepos' = read_filepos + rNewb
      BY <3>1 DEF Copied
    <3>3. IF Len(bytes) = SectorSize
          THEN Deliver(bytes)
          ELSE rpc' = "chkMax" /\ sbuf' = bytes
      BY <3>1 DEF Copied
    <3> HIDE DEF bytes
    <3> QED BY <3>2, <3>3 DEF Deliver
  <2> HIDE DEF bytes
  <2>4. Behind'
    BY <2>1, <2>3 DEF Behind, Inside, Lagging
  <2>5. rpc' = "chkMax" => Len(sbuf') < SectorSize
    BY <2>1, <2>2, <2>3 DEF Left
  <2>6. Inside'
    BY <2>3, <2>5 DEF Inside
  <2> QED BY <2>4, <2>6
<1>10. CASE SeekEof \/ StartFill
  <2>1. Len(sbuf') = 0
    BY <1>10 DEF SeekEof, StartFill
  <2> QED BY <1>10, <2>1 DEF SeekEof, StartFill, Behind, Inside, Lagging
<1>11. CASE SeekLong
  <2>1. PICK p \in Targets :
          /\ Align(p) < read_filepos => \/ BackwardSeeks = "any"
                                        \/ BackwardSeeks = "quiescent" /\ fpc = "snapshot"
          /\ read_filepos' = Align(p)
    BY <1>11 DEF SeekLong
  <2>2. Align(p) \in Int
    BY AlignType
  <2>3. Align(p) < read_filepos => fpc = "snapshot" /\ Interrupts = FALSE
    BY <2>1, EnvironmentAssumption DEF Careful, EnvironmentAssumption
  <2>4. /\ UNCHANGED <<min_filepos, max_filepos, offset, fpc, fCmd, fRead, fFlush>>
        /\ rpc = "idle" /\ rpc' = "seekEof"
    BY <1>11 DEF SeekLong
  <2>5. Inside'
    BY <2>4 DEF Inside
  <2>6. Behind'
    BY <2>1, <2>2, <2>3, <2>4 DEF Behind, Lagging, CmdInv
  <2> QED BY <2>5, <2>6
<1>12. CASE Answered \/ WaitInterrupted
  BY <1>12 DEF Answered, WaitInterrupted, Resume, Behind, Inside, Lagging
<1>13. CASE AskQuit \/ DoControl
  BY <1>13 DEF AskQuit, DoControl, Ask, Behind, Inside, Lagging
<1>14. CASE Kill \/ Die
  BY <1>14 DEF Kill, Die, Alive
<1>15. CASE StartUninit
  BY <1>15 DEF StartUninit, Goto, Behind, Inside, Lagging
<1>16. CASE UNCHANGED vars
  <2>1. Lagging' <=> Lagging
    BY <1>16, LaggingFrame DEF vars, reader
  <2> QED BY <1>16, <2>1 DEF vars, reader, Behind, Inside, Left
<1> QED
  BY <1>1, <1>2, <1>3, <1>4, <1>5, <1>6, <1>7, <1>8, <1>9, <1>10, <1>11, <1>12, <1>13, <1>14,
     <1>15, <1>16 DEF ReaderNext, Requests

LEMMA ReachInvariant == Careful => (Spec => []ReachInv)
<1> SUFFICES ASSUME Careful PROVE Spec => []ReachInv
  OBVIOUS
<1>1. Init => ReachInv
  BY SizesAssumption
     DEF Init, ReachInv, Behind, Inside, Flushing, Early, Reading, SizesAssumption
<1>2. TypeOK /\ FillerInv /\ CmdInv /\ ReachInv /\ [Next]_vars => ReachInv'
  BY CacheFillReach, CacheControlReach, ReaderReach DEF Next, FillerNext, Finished
<1> QED BY <1>1, <1>2, TypeCorrect, FillerInvariant, CmdInvariant, PTL DEF Spec

(* The reader's memcpy stays inside the buffer, with a length that is not   *)
(* negative, and away from the cells the stream is being read into, for all *)
(* sizes, though neither side holds a lock.                                 *)
THEOREM CopiesAreSafe == Careful => (Spec => []CopySafe)
<1> SUFFICES ASSUME Careful PROVE Spec => []CopySafe
  OBVIOUS
<1>1. TypeOK /\ FillerInv /\ ReachInv => CopySafe
  <2> SUFFICES ASSUME TypeOK, FillerInv, ReachInv, rpc = "copy"
               PROVE  /\ rNewb >= 0 /\ CopyRegion \subseteq Cells
                      /\ fpc = "fetch" => CopyRegion \intersect Region(fPos, fSpace) = {}
    BY DEF CopySafe
  <2>0. Numbers
    BY NumbersHold
  <2> USE <2>0 DEF Numbers
  <2>1. Inside
    BY DEF ReachInv, Alive
  <2>2. 0 <= rNewb /\ read_filepos + rNewb <= max_filepos /\ min_filepos <= read_filepos
    BY <2>1 DEF Inside
  <2>3. ASSUME NEW c \in CopyRegion
        PROVE  /\ c \in Cells /\ c \in Int
               /\ \E q \in Int : /\ min_filepos <= q /\ q < max_filepos
                                 /\ c - (q - offset) \in {0, BufferSize, -BufferSize}
    <3>1. c \in Int /\ rPos <= c /\ c < rPos + rNewb /\ 0 < rNewb
      BY <2>2, <2>3 DEF CopyRegion
    <3>2. /\ 0 <= rPos /\ rPos + rNewb <= BufferSize
          /\ \/ rPos = read_filepos - offset
             \/ rPos = read_filepos - offset + BufferSize
             \/ rPos = read_filepos - offset - BufferSize
      BY <2>1, <3>1 DEF Inside
    <3> DEFINE q == read_filepos + (c - rPos)
    <3>3. /\ q \in Int /\ min_filepos <= q /\ q < max_filepos
          /\ c - (q - offset) \in {0, BufferSize, -BufferSize}
      BY <2>2, <3>1, <3>2
    <3>4. c \in Cells
      BY <3>1, <3>2 DEF Cells
    <3> HIDE DEF q
    <3> QED BY <3>1, <3>3, <3>4
  <2>4. ASSUME fpc = "fetch", NEW c \in CopyRegion, c \in Region(fPos, fSpace) PROVE FALSE
    <3>1. PICK i \in 0 .. fSpace - 1 : c = Unwrap(fPos + i)
      BY <2>4 DEF Region
    <3>2. PICK q \in Int : /\ min_filepos <= q /\ q < max_filepos
                           /\ c - (q - offset) \in {0, BufferSize, -BufferSize}
      BY <2>3
    <3>3. /\ fPos = max_filepos - offset /\ 0 <= fPos /\ fPos < BufferSize
          /\ max_filepos + fSpace - min_filepos <= BufferSize
      BY <2>4 DEF FillerInv
    <3>4. c = fPos + i \/ c = fPos + i - BufferSize
      BY <3>1, <3>3 DEF Unwrap
    <3> QED BY <3>1, <3>2, <3>3, <3>4
  <2> QED BY <2>2, <2>3, <2>4
<1> QED BY <1>1, TypeCorrect, FillerInvariant, ReachInvariant, PTL

----------------------------------------------------------------------------
(* The environments in which the cache delivers the bytes of the file: the  *)
(* player waits for its reads, the stream neither ends early nor fails to   *)
(* seek, and backward seeks find the filler at the top of its loop. Without *)
(* any one of these TLC finds wrong bytes.                                  *)
Tidy == ~Interrupts /\ BackwardSeeks # "any" /\ ~ReadErrors /\ ~SeekErrors

(* The window holds the bytes of the file, and the block just read those    *)
(* after it.                                                                *)
Contents ==
  /\ fpc # "flushMin" => \A q \in min_filepos .. max_filepos - 1 : buffer[RingPos(q - offset)] = q
  /\ fpc \in {"storeEof", "storeMax"} =>
       \A q \in max_filepos .. max_filepos + fLen - 1 : buffer[RingPos(q - offset)] = q

(* A read that cannot end before the filler has caught up with it.          *)
Stuck  == rpc = "seekEof" \/ (rpc \in Reading /\ ~eof)
Ahead  == rpc = "seekEof" \/ (rpc \in {"chkMax", "chkEof", "sleep"} /\ ~eof)
Moving == fpc = "ctlEof" \/ (fpc \in {"flushLoad", "flushMax"} /\ fCmd # None)

(* Past the end of the file one place is as good as another.                *)
SamePlace(a, b) == a = b \/ (FileSize <= a /\ FileSize <= b)

(* The stream stands at the end of the window, except while the window is   *)
(* being moved; then the player is stuck in a read or waits for a control,  *)
(* or all happens past the end of the file.                                 *)
StreamPos ==
  /\ fpc \in {"snapshot", "plan", "fetch", "storeOffset", "control", "ctlRefuse", "ctlSwitch",
              "ctlCall", "ctlDone"} => SamePlace(spos, max_filepos)
  /\ fpc \in {"storeEof", "storeMax"} => SamePlace(spos, max_filepos + fLen)
  /\ fpc = "storeEof" /\ fLen = 0 => FileSize <= spos
  /\ fpc = "ctlEof" \/ (fpc \in Flushing /\ fCmd # None) => spos = read_filepos
  /\ fpc \in {"flushMax", "flushMin", "flushOffset"} => SamePlace(fFlush, read_filepos)
  /\ fpc \in Flushing \union {"reposition"} /\ fCmd = None =>
       \/ read_filepos = fRead /\ Stuck
       \/ FileSize <= read_filepos /\ FileSize <= fRead
  /\ fpc = "reposition" => SamePlace(max_filepos, read_filepos)
  /\ max_filepos < read_filepos /\ ~Moving => Ahead \/ FileSize <= read_filepos

(* What a read has collected so far are the bytes from the position on.     *)
Handed == rpc \in Reading => \A i \in 1 .. Len(sbuf) : sbuf[i] = pos + i - 1

DataInv == Alive => Contents /\ StreamPos /\ Handed

(* Ring positions of different bytes of a window are different.             *)
LEMMA RingDistinct ==
  ASSUME Numbers
  PROVE  \A p, r \in Int : /\ -BufferSize <= p /\ p < 2 * BufferSize
                           /\ -BufferSize <= r /\ r < 2 * BufferSize
                           /\ p < r /\ r - p < BufferSize
                           => RingPos(p) # RingPos(r)
  BY DEF RingPos, Unwrap, Numbers

(* The bytes of the window lie in the ring, once around at most.            *)
LEMMA RingSpan ==
  ASSUME TypeOK, FillerInv, Alive, Behind, fpc \notin {"flushMin", "flushOffset"}
  PROVE  \A q \in min_filepos .. max_filepos - 1 :
           /\ -BufferSize <= q - offset /\ q - offset < 2 * BufferSize
           /\ fpc # "storeOffset" => q - offset < BufferSize
           /\ fpc = "storeOffset" => 0 <= q - offset
<1>1. Numbers
  BY NumbersHold
<1> QED BY <1>1 DEF Numbers, FillerInv, Behind

(* Reading the stream into the ring puts the bytes in their places and      *)
(* overwrites none of the window.                                           *)
LEMMA FetchContents ==
  ASSUME TypeOK, FillerInv, Alive, Behind, Contents, StreamPos, Fetch PROVE Contents'
<1>0. Numbers
  BY NumbersHold
<1> USE <1>0 DEF Numbers
<1>1. PICK len \in FetchLens(fSpace) : fLen' = len /\ buffer' = Filled(fPos, len)
  BY DEF Fetch
<1>2. len \in Int /\ 0 <= len /\ len <= fSpace
  BY SizesAssumption DEF FetchLens, FFMIN, FFMAX, SizesAssumption, Fetch, FillerInv
<1>3. /\ fpc = "fetch" /\ fpc' = "storeEof"
      /\ UNCHANGED <<min_filepos, max_filepos, offset>>
  BY DEF Fetch, window
<1>4. /\ fPos = max_filepos - offset /\ 0 <= fPos /\ fPos < BufferSize
      /\ max_filepos + fSpace - min_filepos <= BufferSize /\ SamePlace(spos, max_filepos)
      /\ fSpace <= BufferSize
  BY <1>3 DEF FillerInv, StreamPos
<1>5. 0 < len => spos = max_filepos
  BY <1>1, <1>2, <1>4, SizesAssumption DEF FetchLens, FFMIN, FFMAX, SamePlace, SizesAssumption
<1>6. ASSUME NEW q \in min_filepos .. max_filepos - 1 PROVE buffer'[RingPos(q - offset)] = q
  <2>1. -BufferSize <= q - offset /\ q - offset < BufferSize /\ q - offset \in Int
    <3>1. fpc \notin {"flushMin", "flushOffset", "storeOffset"}
      BY <1>3
    <3> QED BY <3>1, RingSpan
  <2>2. RingPos(q - offset) \in Cells /\ RingPos(q - offset) \in Int
    BY <2>1 DEF RingPos, Unwrap, Cells
  <2>3. RingPos(q - offset) \notin Region(fPos, len)
    <3> SUFFICES ASSUME NEW i \in 0 .. len - 1, RingPos(q - offset) = Unwrap(fPos + i) PROVE FALSE
      BY DEF Region
    <3> QED BY <1>2, <1>4, <2>1 DEF RingPos, Unwrap
  <2>4. buffer'[RingPos(q - offset)] = buffer[RingPos(q - offset)]
    BY <1>1, <2>2, <2>3 DEF Filled
  <2>5. buffer[RingPos(q - offset)] = q
    BY <1>3 DEF Contents
  <2> QED BY <2>4, <2>5
<1>7. ASSUME NEW q \in max_filepos .. max_filepos + len - 1 PROVE buffer'[RingPos(q - offset)] = q
  <2> DEFINE i == q - max_filepos
  <2>1. i \in 0 .. len - 1 /\ q - offset = fPos + i /\ i < BufferSize
    BY <1>2, <1>4
  <2>2. RingPos(q - offset) = Unwrap(fPos + i)
    BY <1>4, <2>1 DEF RingPos
  <2>3. Unwrap(fPos + i) \in Region(fPos, len) /\ Unwrap(fPos + i) \in Cells
    <3>1. Unwrap(fPos + i) \in Cells
      BY <1>2, <1>4, <2>1 DEF Unwrap, Cells
    <3>2. Unwrap(fPos + i) \in Region(fPos, len)
      BY <2>1 DEF Region
    <3> QED BY <3>1, <3>2
  <2>4. buffer'[Unwrap(fPos + i)]
          = spos + (IF Unwrap(fPos + i) >= fPos THEN Unwrap(fPos + i) - fPos
                    ELSE Unwrap(fPos + i) + BufferSize - fPos)
    BY <1>1, <2>3 DEF Filled
  <2>5. (IF Unwrap(fPos + i) >= fPos THEN Unwrap(fPos + i) - fPos
         ELSE Unwrap(fPos + i) + BufferSize - fPos) = i
    BY <1>4, <2>1 DEF Unwrap
  <2>6. spos = max_filepos
    BY <1>2, <1>5, <2>1
  <2> QED BY <1>4, <2>2, <2>4, <2>5, <2>6
<1> QED BY <1>1, <1>3, <1>6, <1>7 DEF Contents

(* The other steps of cache_fill move the ends of the window over bytes     *)
(* that are already in place, or empty it.                                  *)
LEMMA FillContents ==
  ASSUME TypeOK, FillerInv, Alive, Behind, Contents, StreamPos, CacheFill PROVE Contents'
<1>0. Numbers
  BY NumbersHold
<1> USE <1>0 DEF Numbers, shared, window
<1>1. CASE Snapshot \/ FlushLoad \/ Reposition \/ PlanNone
  <2>1. /\ UNCHANGED <<buffer, min_filepos, max_filepos, offset>>
        /\ fpc # "flushMin" /\ fpc' \notin {"storeEof", "storeMax"}
    BY <1>1 DEF Snapshot, FlushLoad, Reposition, PlanNone, ToControl
  <2> QED BY <2>1 DEF Contents
<1>2. CASE FlushMax
  BY <1>2 DEF FlushMax, Contents
<1>3. CASE FlushMin \/ FlushOffset
  <2>1. min_filepos' = max_filepos' /\ fpc' \notin {"storeEof", "storeMax"}
    BY <1>3 DEF FlushMin, FlushOffset, FillerInv
  <2>2. max_filepos' \in Int
    BY <1>3 DEF FlushMin, FlushOffset
  <2> QED BY <2>1, <2>2 DEF Contents
<1>4. CASE PlanBlock
  <2> DEFINE n == BlockSize(Space(fRead), WritePos)
  <2>1. UNCHANGED <<buffer, max_filepos, offset>> /\ min_filepos' = NewMin(fRead, n)
        /\ fpc = "plan" /\ fpc' = "fetch"
    BY <1>4 DEF PlanBlock
  <2>2. n \in Int
    BY FillTypes
  <2> HIDE DEF n
  <2>3. min_filepos' \in Int /\ min_filepos <= min_filepos'
    <3>1. NewMin(fRead, n) \in Int
      BY <2>2, FillTypes
    <3>2. Newb(fRead) \in Int
      BY FillTypes
    <3> QED BY <2>1, <2>2, <3>1, <3>2 DEF NewMin, FFMAX
  <2> QED BY <2>1, <2>3 DEF Contents
<1>5. CASE Fetch
  BY <1>5, FetchContents
<1>6. CASE StoreEof
  <2>1. /\ UNCHANGED <<buffer, min_filepos, max_filepos, offset>> /\ fpc = "storeEof"
        /\ fpc' = "control" \/ (fpc' = "storeMax" /\ fLen' = fLen)
    BY <1>6 DEF StoreEof, ToControl, fFill
  <2> QED BY <2>1 DEF Contents
<1>7. CASE StoreMax
  <2>1. /\ UNCHANGED <<buffer, min_filepos, offset>> /\ fpc = "storeMax"
        /\ max_filepos' = max_filepos + fLen /\ fpc' \in {"control", "storeOffset"}
    BY <1>7 DEF StoreMax, ToControl, fFill
  <2>2. ASSUME NEW q \in min_filepos .. max_filepos + fLen - 1 PROVE buffer[RingPos(q - offset)] = q
    <3>1. q \in min_filepos .. max_filepos - 1 \/ q \in max_filepos .. max_filepos + fLen - 1
      OBVIOUS
    <3> QED BY <2>1, <3>1 DEF Contents
  <2> QED BY <2>1, <2>2 DEF Contents
<1>8. CASE StoreOffset
  <2>1. /\ UNCHANGED <<buffer, min_filepos, max_filepos>> /\ fpc = "storeOffset"
        /\ offset' = offset + BufferSize /\ fpc' = "control"
    BY <1>8 DEF StoreOffset, ToControl
  <2>2. ASSUME NEW q \in min_filepos .. max_filepos - 1
        PROVE  buffer[RingPos(q - (offset + BufferSize))] = q
    <3>1. 0 <= q - offset /\ q - offset < 2 * BufferSize
      BY <2>1, RingSpan
    <3>2. RingPos(q - (offset + BufferSize)) = RingPos(q - offset)
      BY <3>1 DEF RingPos, Unwrap
    <3> QED BY <2>1, <3>2 DEF Contents
  <2> QED BY <2>1, <2>2 DEF Contents
<1> QED BY <1>1, <1>2, <1>3, <1>4, <1>5, <1>6, <1>7, <1>8 DEF CacheFill

(* No one else writes the window or the ring.                               *)
LEMMA RestContents ==
  ASSUME Alive', Contents, CacheControl \/ ReaderNext \/ Requests \/ Die \/ UNCHANGED vars
  PROVE  Contents'
<1> USE DEF Contents, shared, window, filler, fLocals
<1>1. CASE CacheControl
  <2>1. /\ UNCHANGED <<buffer, min_filepos, max_filepos, offset>>
        /\ fpc # "flushMin" /\ fpc' \notin {"storeEof", "storeMax"}
    BY <1>1 DEF CacheControl, ControlRefuse, ParentGone, ControlEnter, Refused, NothingAsked, Switch,
       Call, ApplyPos, ApplyEof, ControlDone
  <2> QED BY <2>1
<1>2. CASE ReaderNext \/ Requests \/ Die \/ UNCHANGED vars
  <2>1. UNCHANGED <<buffer, min_filepos, max_filepos, offset, fLen, fpc>>
    <3>1. CASE ReaderNext
      BY <3>1 DEF ReaderNext, PrefillCheck, PrefillEof, PrefillSleep, CheckMax, CheckMin, CheckEof,
         Sleep, Interrupted, LoadNewb, LoadPos, Copy, Copied, CopyCrash, SeekEof, Answered,
         WaitInterrupted, AskQuit, Ask, Kill, Alive
    <3>2. CASE Requests
      BY <3>2 DEF Requests, StartFill, SeekLong, DoControl, Ask, StartUninit
    <3>3. CASE Die \/ UNCHANGED vars
      BY <3>3 DEF Die, vars
    <3> QED BY <1>2, <3>1, <3>2, <3>3
  <2> QED BY <2>1
<1> QED BY <1>1, <1>2

LEMMA StuckFrame == UNCHANGED <<rpc, eof>> => (Stuck' <=> Stuck) /\ (Ahead' <=> Ahead)
  BY DEF Stuck, Ahead

(* cache_fill reads where the window ends, and follows the player there.    *)
LEMMA FillStreamPos ==
  ASSUME Tidy, TypeOK, FillerInv, CmdInv, Alive, Behind, Inside, StreamPos, CacheFill
  PROVE  StreamPos'
<1>0. Numbers /\ FileSize \in Nat
  BY NumbersHold, SizesAssumption DEF SizesAssumption
<1>00. StoreEof \/ ((Stuck' <=> Stuck) /\ (Ahead' <=> Ahead))
  BY StuckFrame DEF CacheFill, Snapshot, FlushLoad, FlushMax, FlushMin, FlushOffset, Reposition,
     PlanNone, PlanBlock, Fetch, StoreMax, StoreOffset, reader, shared
<1> USE <1>0, <1>00 DEF Numbers, Early, Flushing, Serving, SamePlace, shared, window
<1>1. CASE Snapshot
  <2>1. /\ fpc = "snapshot" /\ fRead' = read_filepos /\ fCmd = None
        /\ UNCHANGED <<max_filepos, read_filepos, spos, fLen, fFlush, fCmd>>
    BY <1>1 DEF Snapshot, CmdInv, fStream
  <2>2. \/ fpc' = "plan"
        \/ fpc' = "flushLoad" /\ (read_filepos < min_filepos \/ max_filepos < read_filepos)
    BY <1>1 DEF Snapshot, OutOfReach
  <2>3. Lagging => Stuck
    BY DEF Lagging, Stuck, Reading
  <2>4. Ahead => Stuck
    BY DEF Ahead, Stuck, Reading
  <2>5. fpc' = "flushLoad" => Stuck \/ FileSize <= read_filepos
    BY <2>1, <2>2, <2>3, <2>4 DEF Behind, StreamPos, Moving
  <2> QED BY <2>1, <2>2, <2>5, <1>1 DEF StreamPos, Moving, StoreEof
<1>2. CASE FlushLoad
  <2>1. /\ fpc = "flushLoad" /\ fpc' = "flushMax" /\ fFlush' = read_filepos
        /\ UNCHANGED <<max_filepos, read_filepos, spos, fLen, fRead, fCmd>>
    BY <1>2 DEF FlushLoad, fStream, fFill
  <2> QED BY <2>1, <1>2 DEF StreamPos, Moving, StoreEof
<1>3. CASE FlushMax
  <2>1. /\ fpc = "flushMax" /\ fpc' = "flushMin" /\ max_filepos' = fFlush
        /\ UNCHANGED <<read_filepos, spos, fLen, fRead, fFlush, fCmd>>
    BY <1>3 DEF FlushMax, fStream, fLocals
  <2> QED BY <2>1, <1>3 DEF StreamPos, Moving, StoreEof
<1>4. CASE FlushMin
  <2>1. /\ fpc = "flushMin" /\ fpc' = "flushOffset" /\ max_filepos = fFlush
        /\ UNCHANGED <<max_filepos, read_filepos, spos, fLen, fRead, fFlush, fCmd>>
    BY <1>4 DEF FlushMin, fStream, fLocals, FillerInv
  <2> QED BY <2>1, <1>4 DEF StreamPos, Moving, StoreEof
<1>5. CASE FlushOffset
  <2>1. /\ fpc = "flushOffset" /\ max_filepos = fFlush
        /\ fpc' = IF fCmd = None THEN "reposition" ELSE "ctlDone"
        /\ UNCHANGED <<max_filepos, read_filepos, spos, fLen, fRead, fCmd>>
    BY <1>5 DEF FlushOffset, fStream, fFill, FillerInv
  <2> QED BY <2>1, <1>5 DEF StreamPos, Moving, StoreEof
<1>6. CASE Reposition
  <2>1. SeekErrors = FALSE
    BY EnvironmentAssumption DEF Tidy, EnvironmentAssumption
  <2>2. /\ fpc = "reposition" /\ fpc' = "plan" /\ fCmd = None /\ spos' = fRead
        /\ UNCHANGED <<max_filepos, read_filepos, fLen, fRead, fCmd>>
    BY <1>6, <2>1 DEF Reposition, fLocals, CmdInv
  <2> QED BY <2>2, <1>6 DEF StreamPos, Moving, StoreEof
<1>7. CASE PlanNone \/ PlanBlock \/ StoreOffset
  <2>1. /\ fpc \in {"plan", "storeOffset"} /\ fpc' \in {"control", "fetch"}
        /\ UNCHANGED <<max_filepos, read_filepos, spos, fCmd>>
    BY <1>7 DEF PlanNone, PlanBlock, StoreOffset, ToControl, fStream
  <2> QED BY <2>1, <1>7 DEF StreamPos, Moving, StoreEof
<1>8. CASE Fetch
  <2>1. ReadErrors = FALSE
    BY EnvironmentAssumption DEF Tidy, EnvironmentAssumption
  <2>2. PICK len \in FetchLens(fSpace) : fLen' = len /\ spos' = spos + len
    BY <1>8 DEF Fetch
  <2>3. fpc = "fetch" /\ fpc' = "storeEof" /\ UNCHANGED <<max_filepos, read_filepos, fCmd>>
    BY <1>8 DEF Fetch
  <2>4. len \in Int /\ 0 <= len /\ (len = 0 => FileSize <= spos)
    BY <2>1, <2>3 DEF FetchLens, FFMIN, FFMAX, FillerInv
  <2> QED BY <2>2, <2>3, <2>4, <1>8 DEF StreamPos, Moving, StoreEof
<1>9. CASE StoreEof
  <2>1. /\ fpc = "storeEof" /\ UNCHANGED <<max_filepos, read_filepos, spos, fCmd, rpc>>
        /\ \/ fpc' = "storeMax" /\ fLen' = fLen /\ fLen # 0
           \/ fpc' = "control" /\ fLen = 0
    BY <1>9 DEF StoreEof, ToControl, fFill, fStream, reader
  <2>2. fLen # 0 => ~eof'
    BY <1>9 DEF StoreEof, AtEnd
  <2>3. fLen # 0 /\ Ahead => Ahead'
    BY <2>1, <2>2 DEF Ahead
  <2>4. fLen = 0 => FileSize <= max_filepos
    BY <2>1 DEF StreamPos
  <2>5. fLen # 0 => StreamPos'
    BY <2>1, <2>3 DEF StreamPos, Moving
  <2>6. fLen = 0 => SamePlace(spos, max_filepos)
    BY <2>1 DEF StreamPos, FillerInv
  <2>7. fLen = 0 => StreamPos'
    BY <2>1, <2>4, <2>6 DEF StreamPos, Moving
  <2> QED BY <2>5, <2>7
<1>10. CASE StoreMax
  <2>1. /\ fpc = "storeMax" /\ fpc' \in {"control", "storeOffset"} /\ max_filepos' = max_filepos + fLen
        /\ UNCHANGED <<read_filepos, spos, fCmd>>
    BY <1>10 DEF StoreMax, ToControl, fFill, fStream
  <2>2. 0 <= fLen
    BY <2>1 DEF FillerInv
  <2> QED BY <2>1, <2>2, <1>10 DEF StreamPos, Moving, StoreEof
<1> QED BY <1>1, <1>2, <1>3, <1>4, <1>5, <1>6, <1>7, <1>8, <1>9, <1>10 DEF CacheFill

(* A control that moves the stream moves the player with it.                *)
LEMMA ControlStreamPos ==
  ASSUME TypeOK, FillerInv, CmdInv, Alive, StreamPos, CacheControl PROVE StreamPos'
<1>0. Numbers /\ FileSize \in Nat
  BY NumbersHold, SizesAssumption DEF SizesAssumption
<1>00. ApplyEof \/ ((Stuck' <=> Stuck) /\ (Ahead' <=> Ahead))
  BY StuckFrame DEF CacheControl, ControlRefuse, ParentGone, ControlEnter, Refused, NothingAsked,
     Switch, Call, ApplyPos, ControlDone, reader, shared
<1> USE <1>0, <1>00 DEF Numbers, Early, Flushing, Serving, SamePlace, shared, window
<1>1. CASE ControlRefuse \/ ParentGone \/ ControlEnter \/ Refused \/ NothingAsked \/ Switch \/ ControlDone
  <2>1. /\ fpc \in {"control", "ctlRefuse", "ctlSwitch", "ctlDone"}
        /\ fpc' \in {"ctlRefuse", "exited", "ctlSwitch", "snapshot", "ctlCall"}
        /\ UNCHANGED <<max_filepos, read_filepos, spos>>
    BY <1>1 DEF ControlRefuse, ParentGone, ControlEnter, Refused, NothingAsked, Switch, ControlDone,
       fStream
  <2>2. ~ApplyEof
    BY <2>1 DEF ApplyEof
  <2> QED BY <2>1, <2>2 DEF StreamPos, Moving
<1>2. CASE Call
  <2>1. /\ fpc = "ctlCall" /\ fpc' \in {"ctlApply", "ctlDone"} /\ UNCHANGED <<max_filepos, read_filepos>>
        /\ fpc' = "ctlDone" => spos' = spos
    BY <1>2 DEF Call, CmdInv
  <2> QED BY <2>1, <1>2 DEF StreamPos, Moving, ApplyEof
<1>3. CASE ApplyPos
  <2>1. fpc = "ctlApply" /\ fpc' = "ctlEof" /\ read_filepos' = spos /\ UNCHANGED spos
    BY <1>3 DEF ApplyPos, fStream
  <2> QED BY <2>1 DEF StreamPos, Moving
<1>4. CASE ApplyEof
  <2>1. /\ fpc = "ctlEof" /\ fpc' = "flushLoad" /\ fCmd' # None
        /\ UNCHANGED <<read_filepos, spos>>
    BY <1>4 DEF ApplyEof, fStream, fLocals, CmdInv
  <2> QED BY <2>1 DEF StreamPos, Moving
<1> QED BY <1>1, <1>2, <1>3, <1>4 DEF CacheControl

(* A step of the player between two calls and within one that touches none  *)
(* of what the filler's steps depend on.                                    *)
LEMMA SamePos ==
  ASSUME StreamPos, UNCHANGED <<max_filepos, read_filepos, spos, fpc, fLen, fFlush, fRead, fCmd>>,
         Stuck => Stuck', Ahead /\ max_filepos < read_filepos => Ahead'
  PROVE  StreamPos'
  BY DEF StreamPos, Moving, SamePlace

(* The player leaves a read for bytes past the window only when the filler  *)
(* has caught up.                                                           *)
LEMMA ReaderStreamPos ==
  ASSUME Tidy, TypeOK, FillerInv, CmdInv, Alive, Alive', Behind, Inside, StreamPos,
         ReaderNext \/ Requests \/ Die \/ UNCHANGED vars
  PROVE  StreamPos'
<1>0. Numbers /\ FileSize \in Nat
  BY NumbersHold, SizesAssumption DEF SizesAssumption
<1>00. Interrupts = FALSE
  BY EnvironmentAssumption DEF Tidy, EnvironmentAssumption
<1> USE DEF shared, window, filler, fStream, fLocals
<1>1. ASSUME UNCHANGED <<shared, filler, rFixed>>, rpc \notin Reading \union {"seekEof"}
      PROVE  StreamPos'
  <2>1. ~Stuck /\ ~Ahead
    BY <1>1 DEF Stuck, Ahead, Reading
  <2> QED BY <1>1, <2>1, SamePos
<1>2. CASE PrefillCheck \/ PrefillEof \/ PrefillSleep \/ StartUninit
  BY <1>1, <1>2 DEF PrefillCheck, PrefillEof, PrefillSleep, StartUninit, Goto, Reading
<1>3. CASE CheckMax \/ CheckMin \/ CheckEof \/ Sleep
  <2>1. UNCHANGED <<max_filepos, read_filepos, spos, fpc, fLen, fFlush, fRead, fCmd>>
    BY <1>3 DEF CheckMax, CheckMin, CheckEof, Sleep
  <2>2. eof' <=> eof
    BY <1>3 DEF CheckMax, CheckMin, CheckEof, Sleep
  <2>3. rpc \in Reading /\ (~eof => rpc' \in Reading)
    BY <1>3 DEF CheckMax, CheckMin, CheckEof, Sleep, Goto, Deliver, Reading
  <2>4. ~eof /\ max_filepos < read_filepos /\ rpc \in {"chkMax", "chkEof", "sleep"}
          => rpc' \in {"chkMax", "chkEof", "sleep"}
    BY <1>0, <1>3 DEF CheckMax, CheckMin, CheckEof, Sleep, Goto, Deliver, Numbers
  <2> QED BY <2>1, <2>2, <2>3, <2>4, SamePos DEF Stuck, Ahead, Reading
<1>4. CASE Interrupted \/ WaitInterrupted
  BY <1>00, <1>4 DEF Interrupted, WaitInterrupted
<1>5. CASE LoadNewb \/ LoadPos
  <2>1. UNCHANGED <<max_filepos, read_filepos, spos, fpc, fLen, fFlush, fRead, fCmd>>
    BY <1>5 DEF LoadNewb, LoadPos
  <2>2. eof' <=> eof
    BY <1>5 DEF LoadNewb, LoadPos
  <2>3. rpc \in {"newb", "pos"} /\ rpc' \in {"pos", "copy"}
    BY <1>5 DEF LoadNewb, LoadPos
  <2> QED BY <2>1, <2>2, <2>3, SamePos DEF Stuck, Ahead, Reading
<1>6. CASE Copy
  <2> USE <1>0 DEF Numbers
  <2>1. rpc = "copy" /\ 0 <= rNewb /\ fpc \notin Early /\ read_filepos + rNewb <= max_filepos
    BY <1>6 DEF Copy, Inside
  <2>2. Copied
    BY <1>6, <2>1 DEF Copy
  <2>3. /\ UNCHANGED <<max_filepos, spos, fpc, fLen, fFlush, fRead, fCmd>>
        /\ read_filepos' = read_filepos + rNewb
    BY <2>2 DEF Copied
  <2>4. eof' <=> eof
    BY <2>2 DEF Copied
  <2>5. fpc \in {"flushOffset", "reposition"} => SamePlace(max_filepos, read_filepos)
    BY DEF StreamPos, FillerInv
  <2>6. rNewb = 0 => rpc' = "chkMax"
    <3> DEFINE bytes == sbuf \o [i \in 1 .. rNewb |-> Cell(rPos + i - 1)]
    <3>1. rNewb \in Nat /\ Len(bytes) = Len(sbuf) + rNewb
      BY <2>1
    <3>2. Len(bytes) # SectorSize => rpc' = "chkMax"
      BY <2>2 DEF Copied
    <3>3. Len(sbuf) < SectorSize
      BY <2>1 DEF Inside, Reading
    <3> HIDE DEF bytes
    <3> QED BY <3>1, <3>2, <3>3
  <2>7. fpc \in {"flushOffset", "reposition"} =>
          \/ read_filepos' = read_filepos /\ rpc' = "chkMax"
          \/ FileSize <= read_filepos /\ FileSize <= read_filepos'
    BY <2>1, <2>3, <2>5, <2>6 DEF SamePlace
  <2>8. fpc \in {"ctlEof"} \union Flushing /\ fCmd # None => FALSE
    BY <2>1 DEF CmdInv
  <2>9. fpc # "ctlEof"
    BY <2>1 DEF CmdInv, Serving
  <2>10. fpc \in Flushing \union {"reposition"} => fpc \in {"flushOffset", "reposition"}
    BY <2>1 DEF Flushing, Early
  <2>11. read_filepos' <= max_filepos
    BY <2>1, <2>3
  <2>12. Stuck /\ rpc' = "chkMax" => Stuck'
    BY <2>1, <2>4 DEF Stuck, Reading
  <2> QED BY <2>3, <2>7, <2>8, <2>9, <2>10, <2>11, <2>12 DEF StreamPos, Flushing, SamePlace
<1>7. CASE StartFill
  <2>1. ~Stuck /\ ~Ahead
    BY <1>7 DEF StartFill, Stuck, Ahead, Reading
  <2> QED BY <1>7, <2>1, SamePos DEF StartFill
<1>8. CASE SeekEof
  <2>1. rpc' = "chkMax" /\ ~eof'
    BY <1>8 DEF SeekEof
  <2>2. Stuck' /\ Ahead'
    BY <2>1 DEF Stuck, Ahead, Reading
  <2> QED BY <1>8, <2>2, SamePos DEF SeekEof
<1>9. CASE SeekLong
  <2>1. UNCHANGED <<max_filepos, spos, fpc, fLen, fFlush, fRead, fCmd>> /\ rpc = "idle" /\ rpc' = "seekEof"
    BY <1>9 DEF SeekLong
  <2>2. ~Stuck /\ Ahead'
    BY <2>1 DEF Stuck, Ahead, Reading
  <2>3. fCmd # None => fpc \notin Flushing \union {"ctlEof"}
    BY <2>1 DEF CmdInv
  <2>4. fpc \in Flushing \union {"reposition"} =>
          fCmd = None /\ FileSize <= read_filepos /\ FileSize <= fRead
    BY <2>1, <2>2, <2>3 DEF StreamPos, CmdInv, Serving
  <2>5. read_filepos' \in Int /\ (fpc # "snapshot" => read_filepos <= read_filepos')
    BY <1>0, <1>9, AlignType DEF SeekLong, Tidy, Numbers
  <2>6. fpc # "ctlEof"
    BY <2>1, <2>3 DEF CmdInv, Serving
  <2>7. fpc \in Flushing \union {"reposition"} => FileSize <= read_filepos'
    BY <1>0, <2>4, <2>5 DEF Numbers, Flushing
  <2> QED BY <2>1, <2>2, <2>4, <2>6, <2>7 DEF StreamPos, Flushing, SamePlace
<1>10. CASE Answered \/ AskQuit \/ DoControl
  <2>1. UNCHANGED <<max_filepos, read_filepos, spos, fpc, fLen, fFlush, fRead, fCmd>>
    BY <1>10 DEF Answered, AskQuit, DoControl, Ask
  <2>2. ~Stuck /\ ~Ahead
    BY <1>10 DEF Answered, AskQuit, DoControl, Stuck, Ahead, Reading
  <2> QED BY <2>1, <2>2, SamePos
<1>11. CASE Kill \/ Die
  BY <1>11 DEF Kill, Die, Alive
<1>12. CASE UNCHANGED vars
  <2>1. (Stuck' <=> Stuck) /\ (Ahead' <=> Ahead)
    BY <1>12, StuckFrame DEF vars, reader
  <2> QED BY <1>12, <2>1, SamePos DEF vars
<1> QED
  BY <1>2, <1>3, <1>4, <1>5, <1>6, <1>7, <1>8, <1>9, <1>10, <1>11, <1>12 DEF ReaderNext, Requests

(* What memcpy appends to the sector are the next bytes of the file.        *)
LEMMA CopiedBytes ==
  ASSUME TypeOK, FillerInv, Alive, Behind, Inside, PosInv, Contents, Handed, rpc = "copy"
  PROVE  LET bytes == sbuf \o [i \in 1 .. rNewb |-> Cell(rPos + i - 1)]
         IN  /\ bytes \in Seq(Int) /\ Len(bytes) = Len(sbuf) + rNewb
             /\ \A i \in 1 .. Len(bytes) : bytes[i] = pos + i - 1
<1> DEFINE new == [i \in 1 .. rNewb |-> Cell(rPos + i - 1)]
           bytes == sbuf \o new
<1>0. Numbers
  BY NumbersHold
<1> USE <1>0 DEF Numbers
<1>1. /\ 0 <= rNewb /\ read_filepos + rNewb <= max_filepos /\ min_filepos <= read_filepos
      /\ fpc \notin Early
      /\ 0 < rNewb => /\ 0 <= rPos /\ rPos + rNewb <= BufferSize
                      /\ \/ rPos = read_filepos - offset
                         \/ rPos = read_filepos - offset + BufferSize
                         \/ rPos = read_filepos - offset - BufferSize
  BY DEF Inside
<1>2. rNewb \in Nat /\ bytes \in Seq(Int) /\ Len(bytes) = Len(sbuf) + rNewb
  BY <1>1, CopyTypes
<1>3. pos + Len(sbuf) = read_filepos
  BY DEF PosInv, Reading
<1>4. ASSUME NEW k \in 1 .. rNewb PROVE Cell(rPos + k - 1) = read_filepos + k - 1
  <2> DEFINE q == read_filepos + k - 1
  <2>1. q \in min_filepos .. max_filepos - 1 /\ q \in Int
    BY <1>1, <1>2
  <2>2. fpc # "flushMin"
    BY <1>1 DEF Early
  <2>3. buffer[RingPos(q - offset)] = q
    BY <2>1, <2>2 DEF Contents
  <2>4. RingPos(q - offset) = rPos + k - 1
    BY <1>1, <1>2 DEF RingPos, Unwrap
  <2>5. rPos + k - 1 \in Cells
    BY <1>1, <1>2 DEF Cells
  <2> QED BY <2>3, <2>4, <2>5 DEF Cell
<1>5. ASSUME NEW i \in 1 .. Len(bytes) PROVE bytes[i] = pos + i - 1
  <2>1. CASE i <= Len(sbuf)
    <3>1. bytes[i] = sbuf[i]
      BY <2>1, <1>2
    <3>2. sbuf[i] = pos + i - 1
      BY <2>1 DEF Handed, Reading
    <3> QED BY <3>1, <3>2
  <2>2. CASE i > Len(sbuf)
    <3> DEFINE k == i - Len(sbuf)
    <3>1. k \in 1 .. rNewb
      BY <1>2, <1>5, <2>2
    <3>2. bytes[i] = new[k]
      BY <1>2, <2>2
    <3>3. new[k] = Cell(rPos + k - 1)
      BY <3>1
    <3>4. Cell(rPos + k - 1) = read_filepos + k - 1
      BY <1>4, <3>1
    <3> HIDE DEF new, bytes
    <3> QED BY <1>3, <3>1, <3>2, <3>3, <3>4
  <2> QED BY <2>1, <2>2, <1>2
<1> HIDE DEF bytes
<1>6. /\ bytes \in Seq(Int) /\ Len(bytes) = Len(sbuf) + rNewb
      /\ \A i \in 1 .. Len(bytes) : bytes[i] = pos + i - 1
  BY <1>2, <1>5
<1> QED BY <1>6 DEF bytes

(* Nothing but memcpy adds to what a read has collected.                    *)
LEMMA KeepsHanded ==
  ASSUME TypeOK, FillerInv, Alive, Behind, Inside, PosInv, Contents, Handed, Next \/ UNCHANGED vars
  PROVE  Handed'
<1> USE DEF Handed, Reading
<1>1. CASE Copy
  <2> DEFINE bytes == sbuf \o [i \in 1 .. rNewb |-> Cell(rPos + i - 1)]
  <2>1. rpc = "copy" /\ 0 <= rNewb /\ rNewb \in Int
    BY <1>1, NumbersHold DEF Copy, Inside, Numbers
  <2>2. \A i \in 1 .. Len(bytes) : bytes[i] = pos + i - 1
    BY <2>1, CopiedBytes
  <2>3. Copied
    BY <1>1, <2>1 DEF Copy
  <2>4. rpc' = "idle" \/ (sbuf' = bytes /\ pos' = pos)
    BY <2>3 DEF Copied, Deliver
  <2> HIDE DEF bytes
  <2> QED BY <2>2, <2>4
<1>2. CASE SeekEof \/ StartFill
  <2>1. sbuf' = <<>>
    BY <1>2 DEF SeekEof, StartFill
  <2> QED BY <2>1
<1>3. CASE UNCHANGED <<pos, sbuf>> /\ (rpc' \in Reading => rpc \in Reading)
  BY <1>3
<1>4. FillerNext => UNCHANGED <<pos, sbuf, rpc>>
  BY DEF FillerNext, CacheFill, CacheControl, Snapshot, FlushLoad, FlushMax, FlushMin, FlushOffset,
     Reposition, PlanNone, PlanBlock, Fetch, StoreEof, StoreMax, StoreOffset, ControlRefuse,
     ParentGone, ControlEnter, Refused, NothingAsked, Switch, Call, ApplyPos, ApplyEof, ControlDone,
     reader
<1>5. CASE CheckEof \/ Interrupted \/ SeekLong \/ Answered \/ WaitInterrupted
  BY <1>3, <1>5 DEF CheckEof, Interrupted, Deliver, Goto, rFixed, SeekLong, Answered, Resume,
     WaitInterrupted
<1>6. CASE PrefillCheck \/ PrefillEof \/ PrefillSleep \/ CheckMax \/ CheckMin \/ Sleep \/ StartUninit
  BY <1>3, <1>6 DEF PrefillCheck, PrefillEof, PrefillSleep, CheckMax, CheckMin, Sleep, StartUninit,
     Goto, rFixed
<1>7. CASE LoadNewb \/ LoadPos \/ AskQuit \/ DoControl \/ Kill \/ Die
  BY <1>3, <1>7 DEF LoadNewb, LoadPos, AskQuit, DoControl, Ask, Kill, Die, rFixed
<1>8. CASE UNCHANGED vars
  BY <1>3, <1>8 DEF vars, reader
<1> QED
  BY <1>1, <1>2, <1>3, <1>4, <1>5, <1>6, <1>7, <1>8 DEF Next, ReaderNext, Requests, Finished

LEMMA DataInvariant == Tidy => (Spec => []DataInv)
<1> SUFFICES ASSUME Tidy PROVE Spec => []DataInv
  OBVIOUS
<1>1. Init => DataInv
  <2> SUFFICES ASSUME Init PROVE Contents /\ StreamPos /\ Handed
    BY DEF DataInv
  <2> QED BY SizesAssumption
     DEF Init, Contents, StreamPos, SamePlace, Handed, Stuck, Ahead, Moving, Flushing, Reading,
         SizesAssumption
<1>2. TypeOK /\ FillerInv /\ CmdInv /\ ReachInv /\ PosInv /\ DataInv /\ [Next]_vars => DataInv'
  <2> SUFFICES ASSUME TypeOK, FillerInv, CmdInv, ReachInv, PosInv, DataInv, [Next]_vars, Alive'
               PROVE  Contents' /\ StreamPos' /\ Handed'
    BY DEF DataInv
  <2>1. Alive
    BY DEF Alive, Next, FillerNext, CacheFill, CacheControl, Snapshot, FlushLoad, FlushMax, FlushMin,
       FlushOffset, Reposition, PlanNone, PlanBlock, Fetch, StoreEof, StoreMax, StoreOffset,
       ControlRefuse, ParentGone, ControlEnter, Refused, NothingAsked, Switch, Call, ApplyPos,
       ApplyEof, ControlDone, ReaderNext, PrefillCheck, PrefillEof, PrefillSleep, CheckMax, CheckMin,
       CheckEof, Sleep, Interrupted, LoadNewb, LoadPos, Copy, SeekEof, Answered, WaitInterrupted,
       AskQuit, Kill, Requests, StartFill, SeekLong, DoControl, StartUninit, Die, Finished, vars,
       reader
  <2>2. Behind /\ Inside /\ Contents /\ StreamPos /\ Handed
    BY <2>1 DEF ReachInv, DataInv
  <2>3. \/ CacheFill \/ CacheControl
        \/ ReaderNext \/ Requests \/ Die \/ UNCHANGED vars
    BY DEF Next, FillerNext, Finished
  <2>4. Contents'
    BY <2>1, <2>2, <2>3, FillContents, RestContents
  <2>5. StreamPos'
    BY <2>1, <2>2, <2>3, FillStreamPos, ControlStreamPos, ReaderStreamPos
  <2>6. Handed'
    BY <2>1, <2>2, KeepsHanded
  <2> QED BY <2>4, <2>5, <2>6
<1>3. Careful /\ ~Interrupts
  BY DEF Careful, Tidy
<1> QED
  BY <1>1, <1>2, <1>3, TypeCorrect, FillerInvariant, CmdInvariant, ReachInvariant, PosInvariant, PTL
     DEF Spec

(* The window holds the bytes of the file, those the player has passed and  *)
(* may come back to included, for every ring, file and interleaving of a    *)
(* tidy environment.                                                        *)
THEOREM WindowKeepsFile == Tidy => (Spec => []WindowIsFile)
<1> SUFFICES ASSUME Tidy PROVE Spec => []WindowIsFile
  OBVIOUS
<1>1. DataInv => WindowIsFile
  BY DEF DataInv, Contents, Alive, WindowIsFile
<1> QED BY <1>1, DataInvariant, PTL

(* Every byte memcpy hands to the player is the byte of the file at its     *)
(* position, whatever the filler does meanwhile: for every buffer, file,    *)
(* read size and sequence of seeks and controls of a tidy environment.      *)
THEOREM FileBytesDelivered == Tidy => (Spec => DeliversFileBytes)
<1> SUFFICES ASSUME Tidy PROVE Spec => DeliversFileBytes
  OBVIOUS
<1>1. TypeOK /\ FillerInv /\ ReachInv /\ PosInv /\ DataInv /\ [Next]_vars
        => [rpc = "copy" => \A i \in 1 .. Len(sbuf') : sbuf'[i] = pos + i - 1]_vars
  <2> SUFFICES ASSUME TypeOK, FillerInv, ReachInv, PosInv, DataInv, Next, rpc = "copy"
               PROVE  \A i \in 1 .. Len(sbuf') : sbuf'[i] = pos + i - 1
    OBVIOUS
  <2>1. Alive /\ Behind /\ Inside /\ Contents /\ Handed
    BY DEF Alive, ReachInv, DataInv
  <2>2. \A i \in 1 .. Len(sbuf) : sbuf[i] = pos + i - 1
    BY <2>1 DEF Handed, Reading
  <2>3. CASE Copy
    <3> DEFINE bytes == sbuf \o [i \in 1 .. rNewb |-> Cell(rPos + i - 1)]
    <3>1. 0 <= rNewb /\ rNewb \in Int
      BY <2>1, NumbersHold DEF Inside, Numbers
    <3>2. \A i \in 1 .. Len(bytes) : bytes[i] = pos + i - 1
      BY <2>1, CopiedBytes
    <3>3. sbuf' = bytes
      BY <2>3, <3>1 DEF Copy, Copied, Deliver
    <3> HIDE DEF bytes
    <3> QED BY <3>2, <3>3
  <2>4. CASE FillerNext
    <3>1. UNCHANGED sbuf
      BY <2>4 DEF FillerNext, CacheFill, CacheControl, Snapshot, FlushLoad, FlushMax, FlushMin,
         FlushOffset, Reposition, PlanNone, PlanBlock, Fetch, StoreEof, StoreMax, StoreOffset,
         ControlRefuse, ParentGone, ControlEnter, Refused, NothingAsked, Switch, Call, ApplyPos,
         ApplyEof, ControlDone, reader
    <3> QED BY <2>2, <3>1
  <2>5. CASE Die
    BY <2>2, <2>5 DEF Die, rFixed
  <2>6. ReaderNext => Copy
    BY DEF ReaderNext, PrefillCheck, PrefillEof, PrefillSleep, CheckMax, CheckMin, CheckEof, Sleep,
       Interrupted, LoadNewb, LoadPos, SeekEof, Answered, WaitInterrupted, AskQuit, Kill
  <2>7. ~Requests /\ ~Finished
    BY DEF Requests, StartFill, SeekLong, DoControl, StartUninit, Finished
  <2> QED BY <2>3, <2>4, <2>5, <2>6, <2>7 DEF Next
<1>2. Careful /\ ~Interrupts
  BY DEF Careful, Tidy
<1> QED
  BY <1>1, <1>2, TypeCorrect, FillerInvariant, ReachInvariant, PosInvariant, DataInvariant, PTL
     DEF Spec, DeliversFileBytes

----------------------------------------------------------------------------
(* A position change that a control made, and that the player is about to   *)
(* take over, is one it asked for.                                          *)
TargetInv ==
  /\ control = "seek_time" => control_arg \in Targets
  /\ fCmd = "seek_time" => fArg \in Targets
  /\ fpc = "ctlApply" => spos \in Targets
  /\ fpc = "ctlEof" \/ (fpc \in Flushing /\ fCmd # None) => read_filepos \in Targets
  /\ fpc = "ctlDone" /\ fCmd = "seek_time" /\ control_res.ok => read_filepos \in Targets
  /\ rpc = "wait" /\ control = None /\ rCmd = "seek_time" /\ control_res.ok
       => read_filepos \in Targets

LEMMA TargetSteps == TypeOK /\ MailInv /\ TargetInv /\ [Next]_vars => TargetInv'
<1> SUFFICES ASSUME TypeOK, MailInv, TargetInv, [Next]_vars PROVE TargetInv'
  OBVIOUS
<1>0. control_res \in [ok : BOOLEAN, to : AllCommands]
  BY DEF TypeOK, SharedTypes
<1> USE DEF TargetInv, MailInv, Asked, Taken, Flushing, Serving, shared, mailbox, reader, filler,
            fStream, fLocals
<1>1. CASE Snapshot \/ FlushLoad \/ Reposition \/ PlanNone \/ PlanBlock \/ Fetch
  BY <1>1 DEF Snapshot, FlushLoad, Reposition, PlanNone, PlanBlock, Fetch, ToControl, fFill
<1>2. CASE FlushMax \/ FlushMin \/ FlushOffset \/ StoreEof \/ StoreMax \/ StoreOffset
  BY <1>2 DEF FlushMax, FlushMin, FlushOffset, StoreEof, StoreMax, StoreOffset, ToControl, fFill
<1>3. CASE ControlRefuse \/ ParentGone \/ ControlEnter \/ NothingAsked \/ Switch
  BY <1>3 DEF ControlRefuse, ParentGone, ControlEnter, NothingAsked, Switch, fFill
<1>4. CASE Refused
  BY <1>4 DEF Refused
<1>5. CASE Call
  BY <1>0, <1>5 DEF Call
<1>6. CASE ApplyPos \/ ApplyEof \/ ControlDone
  BY <1>6 DEF ApplyPos, ApplyEof, ControlDone, fFill
<1>7. CASE PrefillCheck \/ PrefillEof \/ PrefillSleep \/ CheckMax \/ CheckMin \/ Sleep \/ StartUninit
  BY <1>7 DEF PrefillCheck, PrefillEof, PrefillSleep, CheckMax, CheckMin, Sleep, StartUninit, Goto
<1>8. CASE CheckEof \/ Interrupted
  BY <1>8 DEF CheckEof, Interrupted, Deliver, Goto
<1>9. CASE LoadNewb \/ LoadPos \/ SeekEof \/ StartFill
  BY <1>9 DEF LoadNewb, LoadPos, SeekEof, StartFill
<1>10. CASE Copy
  BY <1>10 DEF Copy, Copied, CopyCrash, Deliver
<1>11. CASE SeekLong
  BY <1>11 DEF SeekLong
<1>12. CASE Answered \/ WaitInterrupted
  BY <1>12 DEF Answered, WaitInterrupted, Resume
<1>13. CASE AskQuit \/ DoControl
  BY <1>13 DEF AskQuit, DoControl, Ask
<1>14. CASE Kill \/ Die \/ UNCHANGED vars
  BY <1>14 DEF Kill, Die, vars
<1> QED
  BY <1>1, <1>2, <1>3, <1>4, <1>5, <1>6, <1>7, <1>8, <1>9, <1>10, <1>11, <1>12, <1>13, <1>14
     DEF Next, FillerNext, CacheFill, CacheControl, ReaderNext, Requests, Finished

(* What the player sees of the stream: no bytes while a read is under way,  *)
(* and none after its death.                                                *)
Shown == IF rpc \in Reading \union {"dead"} THEN <<>> ELSE sbuf

TakenOver ==
  rpc = "wait" /\ control = None /\ rCmd = "seek_time" /\ control_res.ok => read_filepos \in Targets

LEMMA TakenOverInvariant == Tidy => (Spec => []TakenOver)
<1> SUFFICES ASSUME Tidy PROVE Spec => []TakenOver
  OBVIOUS
<1>1. ~Interrupts
  BY DEF Tidy
<1>2. CASE HasControl
  <2>1. Init => TargetInv
    BY DEF Init, TargetInv, NoAnswer, None, Flushing
  <2>2. TargetInv => TakenOver
    BY DEF TargetInv, TakenOver
  <2> QED BY <1>1, <1>2, <2>1, <2>2, TargetSteps, TypeCorrect, MailInvariant, PTL DEF Spec
<1>3. CASE ~HasControl
  <2>1. NoSeekInv => TakenOver
    BY DEF NoSeekInv, TakenOver
  <2> QED BY <1>3, <2>1, NoSeekInvariant, PTL
<1> QED BY <1>2, <1>3

(* A read that hands over n bytes of the file is the read of a stream.      *)
LEMMA DeliveredBytes ==
  ASSUME TypeOK, NEW b \in Seq(Int), Len(b) <= SectorSize,
         \A i \in 1 .. Len(b) : b[i] = pos + i - 1,
         Shown = <<>>, Shown' = b, pos' = pos + Len(b), ueof' = (b = <<>>)
  PROVE  [Stream!Next]_(Stream!vars)
<1>0. pos \in Int /\ Len(b) \in Nat /\ SectorSize \in Nat
  BY SizesAssumption DEF SizesAssumption, TypeOK, ReaderTypes
<1>1. CASE b = <<>>
  <2>1. pos' = pos
    BY <1>0, <1>1
  <2>2. UNCHANGED Shown
    BY <1>1
  <2>3. ueof' = TRUE
    BY <1>1
  <2> QED BY <2>1, <2>2, <2>3 DEF Stream!Next, Stream!ReadNothing, Shown
<1>2. CASE b # <<>>
  <2>1. Len(b) \in 1 .. SectorSize
    BY <1>0, <1>2
  <2>2. b = Stream!Bytes(pos, Len(b))
    BY <1>0 DEF Stream!Bytes
  <2>3. ueof' = FALSE
    BY <1>2
  <2>4. Stream!Read
    BY <2>1, <2>2, <2>3 DEF Stream!Read, Shown
  <2> QED BY <2>4 DEF Stream!Next
<1> QED BY <1>1, <1>2

(* What each step of the cache is to the player: a step of a stream or none.*)
LEMMA ReaderStep ==
  ASSUME TypeOK, ~Interrupts, ReachInv, TakenOver, FillerInv, PosInv, DataInv,
         ReaderNext \/ Requests \/ Die
  PROVE  [Stream!Next]_(Stream!vars)
<1> DEFINE Same == UNCHANGED <<pos, ueof, Shown>>
<1>0. Same => [Stream!Next]_(Stream!vars)
  BY DEF Stream!vars, Shown
<1>1. CASE PrefillCheck \/ PrefillEof \/ PrefillSleep \/ CheckMax \/ CheckMin \/ Sleep \/ StartUninit
  <2>1. Same
    BY <1>1 DEF PrefillCheck, PrefillEof, PrefillSleep, CheckMax, CheckMin, Sleep, StartUninit, Goto,
       rFixed, Shown, Reading
  <2> QED BY <1>0, <2>1
<1>2. CASE LoadNewb \/ LoadPos \/ AskQuit \/ DoControl \/ Kill
  <2>1. Same
    BY <1>2 DEF LoadNewb, LoadPos, AskQuit, DoControl, Ask, Kill, rFixed, Shown, Reading
  <2> QED BY <1>0, <2>1
<1>3. CASE Interrupted \/ WaitInterrupted
  BY <1>3 DEF Interrupted, WaitInterrupted
<1>4. CASE StartFill \/ SeekEof
  <2>1. Shown' = <<>> /\ UNCHANGED <<pos, ueof>>
    BY <1>4 DEF StartFill, SeekEof, Shown, Reading
  <2> QED BY <2>1 DEF Stream!Next, Stream!Drop, Shown
<1>5. CASE Die
  <2>1. Shown' = <<>> /\ UNCHANGED <<pos, ueof>>
    BY <1>5 DEF Die, rFixed, Shown, Reading
  <2> QED BY <2>1 DEF Stream!Next, Stream!Drop, Shown
<1>6. CASE SeekLong
  <2>1. PICK p \in Targets : pos' = Align(p)
    BY <1>6 DEF SeekLong
  <2>2. UNCHANGED <<ueof, Shown>>
    BY <1>6 DEF SeekLong, Shown, Reading
  <2>3. ueof \in BOOLEAN
    BY DEF TypeOK, ReaderTypes
  <2>4. pos' \in Targets \union {Align(q) : q \in Targets}
    BY <2>1
  <2> QED BY <2>2, <2>3, <2>4 DEF Stream!Next, Stream!Seek, Shown
<1>7. CASE Answered
  <2>1. UNCHANGED Shown
    BY <1>7 DEF Answered, Resume, Shown, Reading
  <2>2. CASE control_res.ok /\ rCmd = "seek_time"
    <3>1. pos' = read_filepos /\ ueof' = eof
      BY <1>7, <2>2 DEF Answered
    <3>2. read_filepos \in Targets
      BY <1>7, <2>2 DEF Answered, TakenOver
    <3>3. eof \in BOOLEAN
      BY DEF TypeOK, SharedTypes
    <3>4. ueof' \in BOOLEAN
      BY <3>1, <3>3
    <3> QED BY <2>1, <3>1, <3>2, <3>4 DEF Stream!Next, Stream!Seek, Shown
  <2>3. CASE ~(control_res.ok /\ rCmd = "seek_time")
    BY <1>0, <1>7, <2>1, <2>3 DEF Answered
  <2> QED BY <2>2, <2>3
<1>8. CASE CheckEof
  <2>1. CASE ~eof
    <3>1. Same
      BY <1>8, <2>1 DEF CheckEof, Goto, rFixed, Shown, Reading
    <3> QED BY <1>0, <3>1
  <2>2. CASE eof
    <3>1. /\ rpc = "chkEof" /\ rpc' = "idle"
          /\ sbuf' = sbuf /\ pos' = pos + Len(sbuf) /\ ueof' = (sbuf = <<>>)
      BY <1>8, <2>2 DEF CheckEof, Deliver
    <3>2. /\ sbuf \in Seq(Int) /\ Len(sbuf) \in Nat /\ Len(sbuf) < SectorSize
          /\ SectorSize \in Int /\ \A i \in 1 .. Len(sbuf) : sbuf[i] = pos + i - 1
      BY <3>1, SizesAssumption
         DEF Alive, ReachInv, Inside, DataInv, Handed, Reading, TypeOK, ReaderTypes, SizesAssumption
    <3>3. Shown = <<>> /\ Shown' = sbuf
      BY <3>1 DEF Shown, Reading
    <3> QED BY <3>1, <3>2, <3>3, DeliveredBytes
  <2> QED BY <2>1, <2>2
<1>9. CASE Copy
  <2>1. Alive /\ Behind /\ Inside /\ Contents /\ Handed /\ 0 <= rNewb /\ rNewb \in Int
    BY <1>9, NumbersHold DEF Copy, Alive, ReachInv, DataInv, Inside, Numbers
  <2> DEFINE bytes == sbuf \o [i \in 1 .. rNewb |-> Cell(rPos + i - 1)]
  <2>2. /\ bytes \in Seq(Int) /\ Len(bytes) \in Nat
        /\ \A i \in 1 .. Len(bytes) : bytes[i] = pos + i - 1
    BY <1>9, <2>1, CopiedBytes DEF Copy
  <2>3. rpc = "copy" /\ Copied
    BY <1>9, <2>1 DEF Copy
  <2>4. SectorSize \in Nat /\ 0 < SectorSize
    BY SizesAssumption DEF SizesAssumption
  <2>5. CASE Len(bytes) = SectorSize
    <3>1. rpc' = "idle" /\ sbuf' = bytes /\ pos' = pos + Len(bytes) /\ ueof' = (bytes = <<>>)
      BY <2>3, <2>5 DEF Copied, Deliver
    <3>2. Shown = <<>> /\ Shown' = bytes
      BY <2>3, <3>1 DEF Shown, Reading
    <3> HIDE DEF bytes
    <3> QED BY <2>2, <2>4, <2>5, <3>1, <3>2, DeliveredBytes
  <2>6. CASE Len(bytes) # SectorSize
    <3>1. rpc' = "chkMax" /\ UNCHANGED <<pos, ueof>>
      BY <2>3, <2>6 DEF Copied
    <3>2. Same
      BY <2>3, <3>1 DEF Shown, Reading
    <3> QED BY <1>0, <3>2
  <2> QED BY <2>5, <2>6
<1> QED
  BY <1>1, <1>2, <1>3, <1>4, <1>5, <1>6, <1>7, <1>8, <1>9 DEF ReaderNext, Requests

(* In a tidy environment the cache is a stream: whatever the filler does,   *)
(* the demuxer reads the consecutive bytes of the file from where the last  *)
(* seek or read left it, and the position moves by nothing else.            *)
THEOREM CacheIsStream == Tidy => (Spec => ReadsAsStream)
<1> SUFFICES ASSUME Tidy PROVE Spec => ReadsAsStream
  OBVIOUS
<1>1. ~Interrupts /\ Careful
  BY DEF Tidy, Careful
<1>2. Init => Stream!Init
  BY DEF Init, Stream!Init, Reading
<1>3. ASSUME FillerNext \/ Finished \/ UNCHANGED vars PROVE UNCHANGED Stream!vars
  <2>1. UNCHANGED <<pos, ueof, sbuf, rpc>>
    BY <1>3 DEF FillerNext, CacheFill, CacheControl, Snapshot, FlushLoad, FlushMax, FlushMin,
       FlushOffset, Reposition, PlanNone, PlanBlock, Fetch, StoreEof, StoreMax, StoreOffset,
       ControlRefuse, ParentGone, ControlEnter, Refused, NothingAsked, Switch, Call, ApplyPos,
       ApplyEof, ControlDone, Finished, vars, reader
  <2> QED BY <2>1 DEF Stream!vars
<1>4. TypeOK /\ FillerInv /\ ReachInv /\ PosInv /\ DataInv /\ TakenOver /\ [Next]_vars
        => [Stream!Next]_(Stream!vars)
  BY <1>1, <1>3, ReaderStep DEF Next
<1> QED
  BY <1>1, <1>2, <1>4, TypeCorrect, FillerInvariant, ReachInvariant, PosInvariant, DataInvariant,
     TakenOverInvariant, PTL DEF Spec, ReadsAsStream, Stream!Spec
============================================================================
