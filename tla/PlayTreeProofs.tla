--------------------------- MODULE PlayTreeProofs ---------------------------
(***************************************************************************)
(* Proofs about Options and PlayTree, for all trees and every sequence of  *)
(* commands: levels of options are pushed and popped in pairs, the         *)
(* iterator stays in the tree, entries have the options of their lists and *)
(* a step that was tried and accepted plays an entry.                      *)
(***************************************************************************)
EXTENDS PlayTree, DataLemmas, FiniteSetTheorems

\* What m_config keeps of an option: a slot for the defaults and one per level.
InOrder(c) ==
  /\ DOMAIN c = {"lvl", "slots", "var"}
  /\ c.lvl \in Nat \ {0} /\ c.slots \in Seq(Range(c.slots)) /\ Len(c.slots) = c.lvl + 1

\* m_config_pop undoes m_config_push, whatever the entry set in between under
\* the option's first name, and whatever commands made of the variable before.
\* The option is in order whenever the player runs: SlotsInOrder.
THEOREM PopUndoesPush ==
  ASSUME NEW c, InOrder(c), NEW ps, ps = <<>> \/ ~ps[1].alias, NEW v
  PROVE  LET in == [Apply(Push(c), ps) EXCEPT !.var = v]
         IN /\ Pop(in).var = c.var /\ Pop(in).lvl = c.lvl
            /\ Pop(in).slots = [c.slots EXCEPT ![Len(c.slots)] = c.var]
<1> DEFINE S     == Range(c.slots) \union {c.var, v, ps[1].val}
           n     == Len(c.slots)
           saved == [c.slots EXCEPT ![n] = c.var]
           in    == [Apply(Push(c), ps) EXCEPT !.var = v]
<1>1. n \in Nat /\ n >= 2 /\ c.lvl \in Nat /\ n = c.lvl + 1 /\ c.slots \in Seq(S) /\ c.var \in S
      /\ ps[1].val \in S
  BY LenProperties, SeqMonotonic DEF InOrder
<1> HIDE DEF S
<1>2. saved \in Seq(S) /\ Len(saved) = n /\ saved[n] = c.var
  BY <1>1, ExceptSeq
<1>3. PICK x \in S :
        in.lvl = c.lvl + 1 /\ in.slots = Append(saved, x) /\ in.var = v
  <2>1. Push(c) = [lvl |-> c.lvl + 1, slots |-> Append(saved, c.var), var |-> c.var]
    BY DEF Push
  <2>2. CASE ps = <<>>
    BY <1>1, <2>1, <2>2 DEF Apply
  <2>3. CASE ps # <<>>
    <3>1. SlotOf(Push(c), ps[1].alias) = n + 1
      BY <1>1, <1>2, <2>1, <2>3, AppendProperties DEF SlotOf
    <3>2. [Append(saved, c.var) EXCEPT ![n + 1] = ps[1].val] = Append(saved, ps[1].val)
      <4> DEFINE s == Append(saved, c.var)
                 t == Append(saved, ps[1].val)
      <4>1. /\ s \in Seq(S) /\ Len(s) = n + 1 /\ t \in Seq(S) /\ Len(t) = n + 1
            /\ \A i \in 1 .. n : s[i] = saved[i] /\ t[i] = saved[i]
            /\ t[n + 1] = ps[1].val
        BY <1>1, <1>2, <2>3, AppendProperties
      <4>2. [s EXCEPT ![n + 1] = ps[1].val] \in Seq(S)
            /\ Len([s EXCEPT ![n + 1] = ps[1].val]) = n + 1
        BY <1>1, <2>3, <4>1, ExceptSeq
      <4> HIDE DEF s, t
      <4>3. \A i \in 1 .. n + 1 : [s EXCEPT ![n + 1] = ps[1].val][i] = t[i]
        BY <1>1, <4>1
      <4>4. [s EXCEPT ![n + 1] = ps[1].val] = t
        BY <1>1, <4>1, <4>2, <4>3, SeqEqual
      <4> QED BY <4>4 DEF s, t
    <3> DEFINE p == Push(c)
    <3>3. Apply(p, ps) = [p EXCEPT !.slots[n + 1] = ps[1].val, !.var = ps[1].val]
      BY <2>3, <3>1 DEF Apply, Assign
    <3>4. p.slots = Append(saved, c.var) /\ p.lvl = c.lvl + 1 /\ DOMAIN p = {"lvl", "slots", "var"}
      BY <2>1
    <3> HIDE DEF p, saved
    <3>5. Apply(p, ps).slots = Append(saved, ps[1].val) /\ Apply(p, ps).lvl = c.lvl + 1
          /\ DOMAIN Apply(p, ps) = {"lvl", "slots", "var"}
      BY <3>2, <3>3, <3>4
    <3> QED BY <1>1, <2>3, <3>5 DEF p
  <2> QED BY <2>2, <2>3
<1>4. Len(in.slots) = n + 1 /\ SubSeq(in.slots, 1, in.lvl) = saved
  <2>1. Append(saved, x) \in Seq(S) /\ Len(Append(saved, x)) = n + 1
        /\ \A i \in 1 .. n : Append(saved, x)[i] = saved[i]
    BY <1>1, <1>2, AppendProperties
  <2>2. SubSeq(Append(saved, x), 1, n) \in Seq(S) /\ Len(SubSeq(Append(saved, x), 1, n)) = n
        /\ \A i \in 1 .. n : SubSeq(Append(saved, x), 1, n)[i] = Append(saved, x)[i]
    BY <1>1, <2>1, SubSeqProperties
  <2> HIDE DEF saved
  <2>3. SubSeq(Append(saved, x), 1, n) = saved
    BY <1>1, <1>2, <2>1, <2>2, SeqEqual
  <2> QED BY <1>1, <1>3, <2>1, <2>3
<1> HIDE DEF saved, in
<1>5. Pop(in).var = c.var /\ Pop(in).lvl = c.lvl /\ Pop(in).slots = saved
  BY <1>1, <1>2, <1>3, <1>4 DEF Pop
<1> QED BY <1>5 DEF saved, in

----------------------------------------------------------------------------
\* What LevelsBalanced rests on: an iterator's fields and a stack that is a
\* sequence.
Balanced(c, i, f) == c.lvl = f + Len(i.stack) + i.pushed
IsIter(i) ==
  /\ DOMAIN i = DOMAIN NewIter
  /\ i.stack \in Seq(Range(i.stack))
  /\ i.pushed \in {0, 1}
HasLevel(c) == "lvl" \in DOMAIN c
LevelsInv ==
  /\ HasLevel(cfg) /\ cfg.lvl \in Int /\ floor \in Int
  /\ IsIter(iter)
  /\ Live => Balanced(cfg, iter, floor)

LEMMA Fields ==
  DOMAIN NewIter = {"tree", "file", "nfiles", "loop", "stack", "pushed", "rnd"}
  BY DEF NewIter

LEMMA NewIterIsIter ==
  IsIter(NewIter) /\ NewIter.pushed = 0 /\ Len(NewIter.stack) = 0 /\ IsIter(NoIter)
<1>1. <<>> \in Seq(Range(<<>>)) /\ Len(<<>>) = 0
  BY EmptySeq
<1> QED BY <1>1 DEF IsIter, NewIter, NoIter

LEMMA Appended ==
  ASSUME NEW s, s \in Seq(Range(s)), NEW x
  PROVE  Append(s, x) \in Seq(Range(Append(s, x))) /\ Len(Append(s, x)) = Len(s) + 1
<1> DEFINE S == Range(s) \union {x}
<1>1. s \in Seq(S) /\ x \in S
  BY SeqMonotonic
<1>2. Append(s, x) \in Seq(S) /\ Len(Append(s, x)) = Len(s) + 1
  BY <1>1, AppendProperties
<1> QED BY <1>2, SeqOfRange

LEMMA Front ==
  ASSUME NEW S, NEW s \in Seq(S), s # <<>>
  PROVE  LET t == SubSeq(s, 1, Len(s) - 1)
         IN t \in Seq(S) /\ Len(t) = Len(s) - 1 /\ Len(t) \in Nat
<1> DEFINE m == Len(s) - 1
<1>1. m \in Nat /\ \A i \in 1 .. m : s[i] \in S
  BY EmptySeq, LenProperties
<1> HIDE DEF m
<1>2. SubSeq(s, 1, m) \in Seq(S) /\ Len(SubSeq(s, 1, m)) = m
  BY <1>1, SubSeqProperties
<1> QED BY <1>1, <1>2 DEF m

LEMMA Shortened ==
  ASSUME NEW s, s \in Seq(Range(s)), s # <<>>
  PROVE  LET t == SubSeq(s, 1, Len(s) - 1)
         IN t \in Seq(Range(t)) /\ Len(t) = Len(s) - 1 /\ Len(t) \in Nat
  BY Front, SeqOfRange

----------------------------------------------------------------------------
\* Options are assigned without a change of level; a pop takes one away and a
\* push adds one.
LEMMA PopLevel == ASSUME NEW c PROVE Pop(c).lvl = c.lvl - 1 /\ HasLevel(Pop(c))
  BY DEF Pop, HasLevel

LEMMA PushLevel == ASSUME NEW c, NEW n PROVE PushParams(c, n).lvl = c.lvl + 1 /\ HasLevel(PushParams(c, n))
<1>1. Push(c).lvl = c.lvl + 1 /\ "lvl" \in DOMAIN Push(c)
  BY DEF Push
<1>2. Apply(Push(c), params[n]).lvl = Push(c).lvl /\ HasLevel(Apply(Push(c), params[n]))
  BY <1>1 DEF Apply, Assign, HasLevel
<1> QED BY <1>1, <1>2 DEF PushParams

\* A step that goes on with the iterator's levels as they are.
Kept ==
  /\ IsIter(iter') /\ iter'.stack = iter.stack /\ iter'.pushed = iter.pushed
  /\ HasLevel(cfg') /\ cfg'.lvl = cfg.lvl /\ floor' = floor

LEMMA KeptPreserves == ASSUME LevelsInv, Kept, pc' # "idle" => pc # "idle" PROVE LevelsInv'
  BY DEF LevelsInv, Kept, Live, Balanced

LEMMA FreedPreserves == ASSUME LevelsInv, Freed, cfg' = cfg, floor' = floor PROVE LevelsInv'
  BY NewIterIsIter DEF LevelsInv, Freed, Live

----------------------------------------------------------------------------
\* The iterator's own steps.

\* An iterator whose stack, number of pushed entries and other fields are those of j.
LEMMA SameLevels ==
  ASSUME NEW j, IsIter(j),
         NEW i, DOMAIN i = DOMAIN j, i.stack = j.stack, i.pushed = j.pushed
  PROVE  IsIter(i)
  BY DEF IsIter

\* After the first lines of a step the entry's level is popped.
LEMMA LeftLevels ==
  ASSUME LevelsInv, Live, Real
  PROVE  /\ IsIter(Left) /\ Left.stack = iter.stack /\ Left.pushed = 0
         /\ HasLevel(LeftCfg) /\ LeftCfg.lvl \in Int /\ LeftCfg.lvl = floor + Len(iter.stack)
<1>1. It = iter /\ Left = LeftAt(iter)
  BY DEF It, Left
<1>2. IsIter(Left) /\ Left.stack = iter.stack /\ Left.pushed = 0
  BY <1>1, Fields DEF LevelsInv, IsIter, LeftAt
<1>3. HasLevel(cfg) /\ cfg.lvl \in Int /\ floor \in Int /\ cfg.lvl = floor + Len(iter.stack) + iter.pushed
      /\ iter.pushed \in {0, 1} /\ Len(iter.stack) \in Nat
  BY LenProperties DEF LevelsInv, IsIter, Balanced
<1>4. CASE iter.pushed = 1
  <2>1. LeftCfg = Pop(cfg)
    BY <1>1, <1>4 DEF LeftCfg
  <2>2. Pop(cfg).lvl = cfg.lvl - 1 /\ HasLevel(Pop(cfg))
    BY PopLevel
  <2> QED BY <1>2, <1>3, <1>4, <2>1, <2>2
<1>5. CASE iter.pushed = 0
  BY <1>1, <1>2, <1>3, <1>5 DEF LeftCfg
<1> QED BY <1>3, <1>4, <1>5

\* A step of the copy leaves the player's iterator and options alone.
LEMMA CopyStep ==
  ASSUME LevelsInv, ~Real, IterStep
  PROVE  iter' = iter /\ cfg' = cfg /\ floor' = floor /\ pc # "idle"
<1>1. pc # "idle"
  BY DEF IterStep, StepEnter, StepRoundOver, StepAround, StepUp, StepList, StepInvalid, StepEntry,
         UpEnd, UpStep, DownStep, Stepping, Calling
<1>2. floor' = floor
  BY DEF IterStep, StepEnter, StepRoundOver, StepAround, StepUp, StepList, StepInvalid, StepEntry,
         UpEnd, UpStep, DownStep, Outside
<1>3. iter' = iter
  BY DEF IterStep, StepEnter, StepRoundOver, StepAround, StepUp, StepList, StepInvalid, StepEntry,
         UpEnd, UpStep, DownStep, SetIt
<1>4. cfg' = cfg
  BY DEF IterStep, StepEnter, StepRoundOver, StepAround, StepUp, StepList, StepInvalid, StepEntry,
         UpEnd, UpStep, DownStep, LeftCfg
<1> QED BY <1>1, <1>2, <1>3, <1>4

\* A step that only leaves the entry.
LEMMA LeavingPreserves ==
  ASSUME LevelsInv, Live, Real,
         DOMAIN iter' = DOMAIN Left, iter'.stack = Left.stack, iter'.pushed = Left.pushed,
         cfg' = LeftCfg, floor' = floor
  PROVE  LevelsInv'
<1>1. IsIter(iter')
  BY LeftLevels, SameLevels
<1>2. Len(iter.stack) \in Nat
  BY LenProperties DEF LevelsInv, IsIter
<1>3. HasLevel(cfg') /\ cfg'.lvl \in Int /\ floor' \in Int /\ cfg'.lvl = floor' + Len(iter'.stack) + iter'.pushed
  BY <1>2, LeftLevels DEF LevelsInv
<1> QED BY <1>1, <1>3 DEF LevelsInv, Balanced

LEMMA IterStepPreserves ==
  ASSUME LevelsInv, IterStep
  PROVE  LevelsInv'
<1>1. CASE ~Real
  <2>1. Kept
    BY <1>1, CopyStep DEF Kept, LevelsInv
  <2> QED BY <1>1, <2>1, CopyStep, KeptPreserves
<1>2. CASE Real
  <2>1. Live /\ IsIter(iter) /\ floor' = floor
    BY DEF LevelsInv, Live, IterStep, StepEnter, StepRoundOver, StepAround, StepUp, StepList,
           StepInvalid, StepEntry, UpEnd, UpStep, DownStep, Stepping, Calling, Outside
  <2>2. IsIter(Left) /\ Left.stack = iter.stack /\ Left.pushed = 0
    BY <1>2, <2>1, LeftLevels
  <2>3. It = iter
    BY <1>2 DEF It
  <2>4. CASE StepEnter
    <3>1. iter' = [iter EXCEPT !.tree = Root] /\ cfg' = cfg
      BY <1>2, <2>3, <2>4 DEF StepEnter, SetIt
    <3>2. Kept
      BY <2>1, <3>1, Fields, SameLevels DEF Kept, IsIter, LevelsInv
    <3> QED BY <2>1, <3>2, KeptPreserves DEF Live
  <2>5. CASE StepRoundOver \/ StepUp \/ \E n \in Nodes : StepInvalid(n)
    <3>1. iter' = Left /\ cfg' = LeftCfg
      BY <1>2, <2>5 DEF StepRoundOver, StepUp, StepInvalid, SetIt
    <3> QED BY <1>2, <2>1, <3>1, LeavingPreserves
  <2>6. CASE StepAround
    <3>1. iter' = Around(call.d) /\ cfg' = LeftCfg
      BY <1>2, <2>6 DEF StepAround, SetIt
    <3>2. DOMAIN iter' = DOMAIN Left /\ iter'.stack = Left.stack /\ iter'.pushed = Left.pushed
      BY <2>2, <3>1, Fields DEF Around, IsIter
    <3> QED BY <1>2, <2>1, <3>1, <3>2, LeavingPreserves
  <2>7. ASSUME NEW n \in Nodes, StepList(n) PROVE LevelsInv'
    <3>1. iter' = [Left EXCEPT !.tree = n] /\ cfg' = LeftCfg
      BY <1>2, <2>7 DEF StepList, SetIt
    <3>2. DOMAIN iter' = DOMAIN Left /\ iter'.stack = Left.stack /\ iter'.pushed = Left.pushed
      BY <2>2, <3>1, Fields DEF IsIter
    <3> QED BY <1>2, <2>1, <3>1, <3>2, LeavingPreserves
  <2>8. ASSUME NEW n \in Nodes, StepEntry(n) PROVE LevelsInv'
    <3>1. iter' = AtEntry(n) /\ cfg' = PushParams(LeftCfg, n)
      BY <1>2, <2>8 DEF StepEntry, SetIt
    <3>2. DOMAIN iter' = DOMAIN Left /\ iter'.stack = Left.stack /\ iter'.pushed = 1
      BY <1>2, <2>2, <3>1, Fields DEF AtEntry, IsIter
    <3>3. IsIter(iter')
      BY <2>2, <3>2 DEF IsIter
    <3>4. LeftCfg.lvl \in Int /\ LeftCfg.lvl = floor + Len(iter.stack) /\ Len(iter.stack) \in Nat
          /\ floor \in Int
      BY <1>2, <2>1, LeftLevels, LenProperties DEF IsIter, LevelsInv
    <3>5. cfg'.lvl = LeftCfg.lvl + 1 /\ HasLevel(cfg')
      BY <3>1, PushLevel
    <3> QED BY <2>1, <2>2, <3>2, <3>3, <3>4, <3>5 DEF LevelsInv, Balanced
  <2>9. CASE UpEnd
    <3>1. iter' = [iter EXCEPT !.file = -1] /\ cfg' = cfg
      BY <1>2, <2>3, <2>9 DEF UpEnd, SetIt
    <3>2. Kept
      BY <2>1, <3>1, Fields, SameLevels DEF Kept, IsIter, LevelsInv
    <3> QED BY <2>1, <3>2, KeptPreserves DEF Live
  <2>10. CASE UpStep
    <3>1. iter' = Above(iter) /\ iter.stack # <<>> /\ cfg' = Pop(cfg)
      BY <1>2, <2>3, <2>10 DEF UpStep, SetIt
    <3>2. DOMAIN iter' = DOMAIN iter /\ iter'.pushed = iter.pushed
          /\ iter'.stack = SubSeq(iter.stack, 1, Len(iter.stack) - 1)
      BY <2>1, <3>1, Fields DEF Above, IsIter
    <3>3. IsIter(iter') /\ Len(iter'.stack) = Len(iter.stack) - 1
      BY <2>1, <3>1, <3>2, Shortened DEF IsIter
    <3>4. HasLevel(cfg') /\ cfg'.lvl = cfg.lvl - 1 /\ cfg.lvl = floor + Len(iter.stack) + iter.pushed
          /\ Len(iter.stack) \in Nat /\ cfg.lvl \in Int /\ floor \in Int /\ iter.pushed \in {0, 1}
      BY <2>1, <3>1, PopLevel, LenProperties DEF IsIter, LevelsInv, Balanced
    <3> QED BY <2>1, <3>2, <3>3, <3>4 DEF LevelsInv, Balanced
  <2>11. CASE DownStep
    <3>1. iter' = Below(iter, call.d) /\ cfg' = PushParams(cfg, iter.tree)
      BY <1>2, <2>3, <2>11 DEF DownStep, SetIt
    <3>2. DOMAIN iter' = DOMAIN iter /\ iter'.pushed = iter.pushed
          /\ iter'.stack = Append(iter.stack, iter.loop)
      BY <2>1, <3>1, Fields DEF Below, IsIter
    <3>3. IsIter(iter') /\ Len(iter'.stack) = Len(iter.stack) + 1
      BY <2>1, <3>2, Appended DEF IsIter
    <3>4. HasLevel(cfg') /\ cfg'.lvl = cfg.lvl + 1 /\ cfg.lvl = floor + Len(iter.stack) + iter.pushed
          /\ Len(iter.stack) \in Nat /\ cfg.lvl \in Int /\ floor \in Int /\ iter.pushed \in {0, 1}
      BY <2>1, <3>1, PushLevel, LenProperties DEF IsIter, LevelsInv, Balanced
    <3> QED BY <2>1, <3>2, <3>3, <3>4 DEF LevelsInv, Balanced
  <2> QED BY <2>4, <2>5, <2>6, <2>7, <2>8, <2>9, <2>10, <2>11 DEF IterStep
<1> QED BY <1>1, <1>2

----------------------------------------------------------------------------
\* The player's steps: but for a new iterator and a freed one, they move at most
\* the iterator's file or node, and set the variable of the option.
LEMMA MovedIter ==
  ASSUME LevelsInv, HasLevel(cfg'), cfg'.lvl = cfg.lvl, floor' = floor,
         \/ iter' = iter
         \/ \E f : iter' = [iter EXCEPT !.file = f]
         \/ \E t : iter' = [iter EXCEPT !.tree = t]
  PROVE  Kept
<1>1. DOMAIN iter' = DOMAIN iter /\ iter'.stack = iter.stack /\ iter'.pushed = iter.pushed
  BY Fields DEF LevelsInv, IsIter
<1> QED BY <1>1, SameLevels DEF Kept, LevelsInv

LEMMA GoingPreserves ==
  ASSUME LevelsInv, Going
  PROVE  LevelsInv'
<1> USE DEF Leave, Call, Went, told, plays
<1>1. Live /\ cfg' = cfg /\ floor' = floor
  BY DEF Live, Going, Started, OpenFails, Opens, OpenList, ListRead, Tried, Rewound, Headed, Stopping,
         NextFile, Stepped, GetFile, NextAgain
<1>2. CASE Freed
  BY <1>1, <1>2, FreedPreserves
<1>3. CASE ~Freed
  <2>1. \/ iter' = iter
        \/ \E f : iter' = [iter EXCEPT !.file = f]
        \/ \E t : iter' = [iter EXCEPT !.tree = t]
    <3>1. CASE Started
      BY <1>3, <3>1 DEF Started
    <3>2. CASE OpenFails \/ Opens \/ OpenList \/ ListRead \/ Tried
      BY <3>2 DEF OpenFails, Opens, OpenList, ListRead, Tried
    <3>3. CASE Rewound
      BY <3>3 DEF Rewound
    <3>4. CASE Headed \/ Stopping \/ Stepped
      BY <1>3, <3>4 DEF Headed, Stopping, Stepped
    <3>5. CASE NextFile
      BY <1>3, <3>5 DEF NextFile
    <3>6. CASE GetFile
      BY <3>6 DEF GetFile
    <3>7. CASE NextAgain
      BY <1>3, <3>7 DEF NextAgain
    <3> QED BY <3>1, <3>2, <3>3, <3>4, <3>5, <3>6, <3>7 DEF Going
  <2>2. Kept
    BY <1>1, <2>1, MovedIter DEF LevelsInv
  <2> QED BY <1>1, <2>2, KeptPreserves DEF Live
<1> QED BY <1>2, <1>3

LEMMA ToldPreserves ==
  ASSUME LevelsInv, NEW c,
         \/ IdleLoad(c) \/ IdleSet(c) \/ PtStep(c) \/ PtUpStep(c) \/ AltSrcStep(c)
         \/ LoadAppend(c) \/ Load(c) \/ Stop(c) \/ SetOption(c)
  PROVE  LevelsInv'
<1>1. CASE IdleLoad(c)
  <2>1. cfg' = cfg
    BY <1>1 DEF IdleLoad
  <2>2. CASE iter' = NewIter /\ floor' = cfg.lvl
    BY <2>1, <2>2, NewIterIsIter DEF LevelsInv, Balanced
  <2>3. CASE iter' = iter /\ floor' = floor /\ pc' = "idle"
    BY <2>1, <2>3 DEF LevelsInv, Live
  <2> QED BY <1>1, <2>2, <2>3 DEF IdleLoad
<1>2. CASE IdleSet(c)
  <2>1. iter' = iter /\ floor' = floor /\ pc' = pc /\ cfg' = [cfg EXCEPT !.var = c.val]
    BY <1>2 DEF IdleSet
  <2>2. HasLevel(cfg') /\ cfg'.lvl = cfg.lvl
    BY <2>1 DEF LevelsInv, HasLevel
  <2> QED BY <2>1, <2>2, MovedIter, KeptPreserves
<1>3. CASE PtStep(c) \/ PtUpStep(c) \/ AltSrcStep(c) \/ LoadAppend(c) \/ Load(c) \/ Stop(c) \/ SetOption(c)
  <2>1. Live /\ floor' = floor
    BY <1>3 DEF PtStep, PtUpStep, AltSrcStep, LoadAppend, Load, Stop, SetOption, Obey, Live
  <2>2. iter' = iter
    BY <1>3 DEF PtStep, PtUpStep, AltSrcStep, LoadAppend, Load, Stop, SetOption, iters
  <2>3. cfg' = cfg \/ cfg' = [cfg EXCEPT !.var = c.val]
    BY <1>3 DEF PtStep, PtUpStep, AltSrcStep, LoadAppend, Load, Stop, SetOption, iters
  <2>4. HasLevel(cfg') /\ cfg'.lvl = cfg.lvl
    BY <2>3 DEF LevelsInv, HasLevel
  <2> QED BY <2>1, <2>2, <2>4, MovedIter, KeptPreserves DEF Live
<1> QED BY <1>1, <1>2, <1>3

----------------------------------------------------------------------------
\* The slots: each operation of m_config keeps them in order.
LEMMA PutSlot ==
  ASSUME NEW s, s \in Seq(Range(s)), NEW i \in 1 .. Len(s), NEW x
  PROVE  LET t == [s EXCEPT ![i] = x] IN t \in Seq(Range(t)) /\ Len(t) = Len(s)
<1> DEFINE S == Range(s) \union {x}
<1>1. s \in Seq(S) /\ x \in S
  BY SeqMonotonic
<1>2. [s EXCEPT ![i] = x] \in Seq(S) /\ Len([s EXCEPT ![i] = x]) = Len(s)
  BY <1>1, ExceptSeq
<1> QED BY <1>2, SeqOfRange

LEMMA PushInOrder ==
  ASSUME NEW c, InOrder(c), NEW n
  PROVE  InOrder(PushParams(c, n))
<1> DEFINE saved == [c.slots EXCEPT ![Len(c.slots)] = c.var]
           p     == Push(c)
           ps    == params[n]
<1>1. c.lvl \in Nat \ {0} /\ c.slots \in Seq(Range(c.slots)) /\ Len(c.slots) = c.lvl + 1
  BY DEF InOrder
<1>2. saved \in Seq(Range(saved)) /\ Len(saved) = Len(c.slots)
  BY <1>1, PutSlot
<1> HIDE DEF saved
<1>3. Append(saved, c.var) \in Seq(Range(Append(saved, c.var))) /\ Len(Append(saved, c.var)) = c.lvl + 2
  BY <1>1, <1>2, Appended
<1>4. p = [lvl |-> c.lvl + 1, slots |-> Append(saved, c.var), var |-> c.var]
  BY DEF Push, saved
<1>5. InOrder(p)
  BY <1>1, <1>3, <1>4 DEF InOrder
<1> HIDE DEF p, ps
<1>6. CASE ps = <<>>
  BY <1>5, <1>6 DEF PushParams, Apply, p, ps
<1>7. CASE ps # <<>>
  <2> DEFINE i == SlotOf(p, ps[1].alias)
             t == [p.slots EXCEPT ![i] = ps[1].val]
  <2>1. i \in 1 .. Len(p.slots)
    BY <1>5 DEF SlotOf, InOrder
  <2>2. t \in Seq(Range(t)) /\ Len(t) = Len(p.slots)
    BY <1>5, <2>1, PutSlot DEF InOrder
  <2>3. PushParams(c, n) = [p EXCEPT !.slots[i] = ps[1].val, !.var = ps[1].val]
    BY <1>7 DEF PushParams, Apply, Assign, p, ps
  <2> HIDE DEF i
  <2>4. DOMAIN PushParams(c, n) = DOMAIN p /\ PushParams(c, n).slots = t /\ PushParams(c, n).lvl = p.lvl
    BY <1>5, <2>3 DEF InOrder
  <2> HIDE DEF t
  <2> QED BY <1>5, <2>2, <2>4 DEF InOrder
<1> QED BY <1>6, <1>7

LEMMA PopInOrder ==
  ASSUME NEW c, InOrder(c), c.lvl > 1
  PROVE  InOrder(Pop(c))
<1> DEFINE S    == Range(c.slots)
           kept == SubSeq(c.slots, 1, c.lvl)
<1>1. c.lvl \in Nat /\ c.slots \in Seq(S) /\ Len(c.slots) = c.lvl + 1
      /\ \A i \in 1 .. c.lvl : c.slots[i] \in S
  BY LenProperties DEF InOrder
<1> HIDE DEF S
<1>2. kept \in Seq(S) /\ Len(kept) = c.lvl
  BY <1>1, SubSeqProperties
<1>3. kept \in Seq(Range(kept))
  BY <1>2, SeqOfRange
<1> HIDE DEF kept
<1>4. DOMAIN Pop(c) = {"lvl", "slots", "var"} /\ Pop(c).slots = kept /\ Pop(c).lvl = c.lvl - 1
  BY DEF Pop, kept
<1> QED BY <1>1, <1>2, <1>3, <1>4 DEF InOrder

\* The first level is never popped: floor, the level an iterator starts at, is
\* at least 1.
SlotsInv == InOrder(cfg) /\ floor >= 1

LEMMA IterStepSlots ==
  ASSUME LevelsInv, SlotsInv, IterStep
  PROVE  SlotsInv'
<1>1. CASE ~Real
  BY <1>1, CopyStep DEF SlotsInv, InOrder
<1>2. CASE Real
  <2>1. Live /\ floor' = floor
    BY DEF Live, IterStep, StepEnter, StepRoundOver, StepAround, StepUp, StepList,
           StepInvalid, StepEntry, UpEnd, UpStep, DownStep, Stepping, Calling, Outside
  <2>2. It = iter
    BY <1>2 DEF It
  <2>3. /\ cfg.lvl = floor + Len(iter.stack) + iter.pushed /\ Len(iter.stack) \in Nat
        /\ iter.pushed \in {0, 1} /\ floor \in Int /\ floor >= 1 /\ IsIter(iter)
    BY <2>1, LenProperties DEF LevelsInv, SlotsInv, IsIter, Balanced
  <2>4. InOrder(LeftCfg)
    <3>1. CASE It.pushed > 0
      <4>1. cfg.lvl > 1 /\ LeftCfg = Pop(cfg)
        BY <1>2, <2>2, <2>3, <3>1 DEF LeftCfg
      <4> QED BY <4>1, PopInOrder DEF SlotsInv
    <3>2. CASE ~(It.pushed > 0)
      BY <3>2 DEF LeftCfg, SlotsInv
    <3> QED BY <3>1, <3>2
  <2>5. CASE UpStep
    <3>1. cfg' = Pop(cfg) /\ iter.stack # <<>>
      BY <1>2, <2>2, <2>5 DEF UpStep
    <3>2. Len(iter.stack) # 0
      BY <2>3, <3>1, EmptySeq DEF IsIter
    <3>3. InOrder(Pop(cfg))
      BY <2>3, <3>2, PopInOrder DEF SlotsInv
    <3> QED BY <2>1, <2>3, <3>1, <3>3 DEF SlotsInv
  <2>6. CASE ~UpStep
    <3>1. \/ cfg' = cfg \/ cfg' = LeftCfg
          \/ \E n : cfg' = PushParams(LeftCfg, n) \/ cfg' = PushParams(cfg, n)
      BY <1>2, <2>6 DEF IterStep, StepEnter, StepRoundOver, StepAround, StepUp, StepList,
           StepInvalid, StepEntry, UpEnd, DownStep
    <3>2. InOrder(cfg)'
      BY <2>4, <3>1, PushInOrder DEF SlotsInv
    <3> QED BY <2>1, <2>3, <3>2 DEF SlotsInv
  <2> QED BY <2>5, <2>6
<1> QED BY <1>1, <1>2

\* The shapes of the iterator, its stack and the option's level, with the balance
\* of the levels, hold in every state of the player.
THEOREM LevelsInvariant == Spec => []LevelsInv
<1>1. Init => LevelsInv
  BY NewIterIsIter DEF Init, Fresh, LevelsInv, Balanced, HasLevel
<1>2. LevelsInv /\ [Next]_vars => LevelsInv'
  <2>1. ASSUME LevelsInv, FileEnds PROVE LevelsInv'
    <3>1. Live /\ iter' = iter /\ floor' = floor /\ cfg' = cfg
      BY <2>1 DEF FileEnds, Live, told
    <3> QED BY <2>1, <3>1, MovedIter, KeptPreserves DEF Live, LevelsInv
  <2>2. ASSUME LevelsInv, UNCHANGED vars PROVE LevelsInv'
    BY <2>2 DEF vars, iters, told, LevelsInv, Live, Balanced
  <2> QED BY <2>1, <2>2, IterStepPreserves, GoingPreserves, ToldPreserves DEF Next, Told
<1> QED BY <1>1, <1>2, PTL DEF Spec

LEMMA SlotsInvariant == Spec => []SlotsInv
<1>1. Init => SlotsInv
  <2> SUFFICES ASSUME Init PROVE SlotsInv
    OBVIOUS
  <2>1. cfg = [lvl |-> 1, slots |-> <<Default, Default>>, var |-> Default] /\ floor = 1
    BY DEF Init, Fresh
  <2>2. <<Default, Default>> \in Seq({Default}) /\ Len(<<Default, Default>>) = 2
    OBVIOUS
  <2>3. <<Default, Default>> \in Seq(Range(<<Default, Default>>))
    BY <2>2, SeqOfRange
  <2> QED BY <2>1, <2>2, <2>3 DEF SlotsInv, InOrder
<1>2. LevelsInv /\ SlotsInv /\ [Next]_vars => SlotsInv'
  <2> SUFFICES ASSUME LevelsInv, SlotsInv, [Next]_vars, ~IterStep PROVE SlotsInv'
    BY IterStepSlots
  <2>1. cfg' = cfg \/ \E v : cfg' = [cfg EXCEPT !.var = v]
    BY DEF Next, Going, Told, FileEnds, Started, OpenFails, Opens, OpenList, ListRead, Tried, Rewound,
           Headed, Stopping, NextFile, Stepped, GetFile, NextAgain, IdleLoad, IdleSet, PtStep, PtUpStep,
           AltSrcStep, LoadAppend, Load, Stop, SetOption, iters, vars
  <2>2. floor' = floor \/ floor' = cfg.lvl
    BY DEF Next, Going, Told, FileEnds, Started, OpenFails, Opens, OpenList, ListRead, Tried, Rewound,
           Headed, Stopping, NextFile, Stepped, GetFile, NextAgain, IdleLoad, IdleSet, PtStep, PtUpStep,
           AltSrcStep, LoadAppend, Load, Stop, SetOption, Obey, told, vars
  <2>3. DOMAIN cfg' = DOMAIN cfg /\ cfg'.slots = cfg.slots /\ cfg'.lvl = cfg.lvl
    BY <2>1 DEF SlotsInv, InOrder
  <2> QED BY <2>2, <2>3 DEF SlotsInv, InOrder
<1> QED BY <1>1, <1>2, LevelsInvariant, PTL DEF Spec

\* In every state of the player, whatever was pushed, popped and set, the option
\* has a slot for the defaults and one for each level, and a level to stand on.
THEOREM SlotsInOrder == Spec => []InOrder(cfg)
<1>1. SlotsInv => InOrder(cfg)
  BY DEF SlotsInv
<1> QED BY <1>1, SlotsInvariant, PTL

\* As long as the player has an iterator, the levels of options above the one it
\* started at are those of the lists it is in and of its entry: each push of a step
\* down or onto an entry is popped by the step that leaves it.
THEOREM LevelsAreBalanced == Spec => []LevelsBalanced
<1>1. LevelsInv => LevelsBalanced
  BY DEF LevelsInv, Balanced, LevelsBalanced
<1> QED BY <1>1, LevelsInvariant, PTL

----------------------------------------------------------------------------
\* Levels and subtrees of children k.
Children(k, s) == UNION {Set(k[m]) : m \in s}
Closed(k, s)   == Children(k, s) \subseteq s
FloorOf(k, n) ==
  LET Level[d \in Nat] == IF d = 0 THEN {Root} ELSE UNION {Set(k[m]) : m \in Level[d - 1]}
  IN Level[n]

LEMMA SetIs == ASSUME NEW S, NEW s \in Seq(S) PROVE Set(s) \subseteq S /\ (s # <<>> <=> Set(s) # {})
<1>1. Len(s) \in Nat /\ DOMAIN s = 1 .. Len(s) /\ \A i \in 1 .. Len(s) : s[i] \in S
  BY LenProperties, ElementOfSeq
<1>2. Set(s) \subseteq S
  BY <1>1 DEF Set
<1>3. s # <<>> <=> Len(s) >= 1
  BY <1>1, EmptySeq
<1>4. Set(s) # {} <=> Len(s) >= 1
  <2>1. ASSUME Len(s) >= 1 PROVE s[1] \in Set(s)
    BY <1>1, <2>1 DEF Set
  <2>2. ASSUME ~(Len(s) >= 1) PROVE Set(s) = {}
    BY <1>1, <2>2 DEF Set
  <2> QED BY <2>1, <2>2
<1> QED BY <1>2, <1>3, <1>4

LEMMA ChildrenIs ==
  ASSUME NEW k \in [Nodes -> Seq(Nodes)], NEW s \in SUBSET Nodes
  PROVE  Children(k, s) \in SUBSET Nodes
<1> SUFFICES ASSUME NEW m \in s, NEW c \in Set(k[m]) PROVE c \in Nodes
  BY DEF Children
<1> QED BY SetIs

LEMMA FloorIs ==
  ASSUME NEW k \in [Nodes -> Seq(Nodes)]
  PROVE  /\ FloorOf(k, 0) = {Root}
         /\ \A n \in Nat : FloorOf(k, n) \in SUBSET Nodes /\ FloorOf(k, n + 1) = Children(k, FloorOf(k, n))
<1> DEFINE V == SUBSET Nodes
           step == [s \in V |-> Children(k, s)]
           Def(g) == [d \in Nat |-> IF d = 0 THEN {Root} ELSE Children(k, g[d - 1])]
           level == CHOOSE g : g = Def(g)
<1>1. {Root} \in V
  BY TreeAssumption
<1>2. step \in [V -> V] /\ \A s \in V : step[s] = Children(k, s)
  BY ChildrenIs
<1>3. Nat \in SUBSET Nat /\ \A n \in Nat : n # 0 => n - 1 \in Nat
  OBVIOUS
<1> HIDE DEF V, step
<1>4. PICK f \in [Nat -> V] : Iterated(f, Nat, {Root}, step)
  BY <1>1, <1>2, <1>3, Iteration
<1>5. \A n \in Nat : f[n] = IF n = 0 THEN {Root} ELSE Children(k, f[n - 1])
  <2> SUFFICES ASSUME NEW n \in Nat PROVE f[n] = IF n = 0 THEN {Root} ELSE Children(k, f[n - 1])
    OBVIOUS
  <2>1. f[n] = IF n = 0 THEN {Root} ELSE step[f[n - 1]]
    BY <1>4 DEF Iterated
  <2>2. n # 0 => f[n - 1] \in V
    BY <1>3, <1>4
  <2> QED BY <1>2, <2>1, <2>2
<1>6. f = Def(f)
  BY <1>4, <1>5
<1>7. \A n : FloorOf(k, n) = level[n]
  BY DEF FloorOf, Children
<1> HIDE DEF Def
<1>8. level = Def(level)
  BY <1>6
<1> HIDE DEF level
<1>9. \A n \in Nat : level[n] = IF n = 0 THEN {Root} ELSE Children(k, level[n - 1])
  BY <1>8 DEF Def
<1>10. \A n \in Nat : level[n] = f[n]
  <2> DEFINE T == {n \in Nat : level[n] # f[n]}
  <2>1. SUFFICES ASSUME T # {} PROVE FALSE
    OBVIOUS
  <2>2. PICK n \in T : \A m \in T : n <= m
    BY <2>1, LeastNatural
  <2>3. n \in Nat /\ level[n] # f[n]
    OBVIOUS
  <2>4. n # 0
    BY <1>5, <1>9, <2>3
  <2>5. n - 1 \in Nat /\ ~(n <= n - 1)
    BY <2>3, <2>4
  <2>6. level[n - 1] = f[n - 1]
    BY <2>2, <2>5
  <2> QED BY <1>5, <1>9, <2>3, <2>4, <2>6
<1>11. \A n \in Nat : level[n] \in SUBSET Nodes
  BY <1>4, <1>10 DEF V
<1>12. \A n \in Nat : level[n + 1] = Children(k, level[n])
  <2> SUFFICES ASSUME NEW n \in Nat PROVE level[n + 1] = Children(k, level[n])
    OBVIOUS
  <2>1. n + 1 \in Nat /\ n + 1 # 0 /\ (n + 1) - 1 = n
    OBVIOUS
  <2> QED BY <1>9, <2>1
<1>13. level[0] = {Root}
  BY <1>9
<1> QED BY <1>7, <1>11, <1>12, <1>13

LEMMA SubtreeIs ==
  ASSUME NEW k \in [Nodes -> Seq(Nodes)], NEW n \in Nodes
  PROVE  \E down \in [0 .. MaxDepth -> SUBSET Nodes] :
           /\ Subtree(k, n) = down[MaxDepth] /\ down[0] = {n}
           /\ \A d \in 1 .. MaxDepth : down[d] = down[d - 1] \union Children(k, down[d - 1])
<1> DEFINE V == SUBSET Nodes
           S == 0 .. MaxDepth
           step == [s \in V |-> s \union Children(k, s)]
           Def(g) == [d \in S |-> IF d = 0 THEN {n} ELSE g[d - 1] \union Children(k, g[d - 1])]
           down == CHOOSE g : g = Def(g)
<1>0. MaxDepth \in Nat /\ S \in SUBSET Nat /\ \A d \in S : d # 0 => d - 1 \in S
  BY TreeAssumption
<1>1. {n} \in V
  OBVIOUS
<1>2. step \in [V -> V] /\ \A s \in V : step[s] = s \union Children(k, s)
  BY ChildrenIs
<1>3. \A d \in 1 .. MaxDepth : d \in S /\ d # 0
  BY <1>0
<1>4. 0 \in S
  BY <1>0
<1> HIDE DEF V, step, S
<1>5. PICK f \in [S -> V] : Iterated(f, S, {n}, step)
  BY <1>0, <1>1, <1>2, Iteration
<1>6. \A d \in S : f[d] = IF d = 0 THEN {n} ELSE f[d - 1] \union Children(k, f[d - 1])
  <2> SUFFICES ASSUME NEW d \in S
               PROVE  f[d] = IF d = 0 THEN {n} ELSE f[d - 1] \union Children(k, f[d - 1])
    OBVIOUS
  <2>1. f[d] = IF d = 0 THEN {n} ELSE step[f[d - 1]]
    BY <1>5 DEF Iterated
  <2>2. d # 0 => f[d - 1] \in V
    BY <1>0, <1>5
  <2> QED BY <1>2, <2>1, <2>2
<1>7. f = Def(f)
  BY <1>5, <1>6
<1>8. Subtree(k, n) = down[MaxDepth]
  BY DEF Subtree, Children, S
<1> HIDE DEF Def
<1>9. down = Def(down)
  BY <1>7
<1> HIDE DEF down
<1>10. \A d \in S : down[d] = IF d = 0 THEN {n} ELSE down[d - 1] \union Children(k, down[d - 1])
  BY <1>9 DEF Def
<1>11. \A d \in S : down[d] \in SUBSET Nodes
  <2> DEFINE T == {d \in S : down[d] \notin SUBSET Nodes}
  <2>1. SUFFICES ASSUME T # {} PROVE FALSE
    OBVIOUS
  <2>2. T \in SUBSET Nat
    BY <1>0
  <2>3. PICK d \in T : \A e \in T : d <= e
    BY <2>1, <2>2, LeastNatural
  <2>4. d \in Nat /\ d \in S /\ down[d] \notin SUBSET Nodes
    BY <2>2
  <2>5. d # 0
    BY <1>10, <2>4
  <2>6. d - 1 \in S /\ ~(d <= d - 1)
    BY <1>0, <2>4, <2>5
  <2>7. down[d - 1] \in SUBSET Nodes
    BY <2>3, <2>6
  <2> QED BY <1>10, <2>4, <2>5, <2>7, ChildrenIs
<1>12. down \in [S -> SUBSET Nodes]
  BY <1>9, <1>11 DEF Def
<1>13. down[0] = {n} /\ \A d \in 1 .. MaxDepth : down[d] = down[d - 1] \union Children(k, down[d - 1])
  BY <1>3, <1>4, <1>10
<1> QED BY <1>8, <1>12, <1>13 DEF S

LEMMA SubtreeLeast ==
  ASSUME NEW k \in [Nodes -> Seq(Nodes)], NEW n \in Nodes, NEW C \in SUBSET Nodes, n \in C, Closed(k, C)
  PROVE  Subtree(k, n) \subseteq C
<1>1. PICK down \in [0 .. MaxDepth -> SUBSET Nodes] :
           /\ Subtree(k, n) = down[MaxDepth] /\ down[0] = {n}
           /\ \A d \in 1 .. MaxDepth : down[d] = down[d - 1] \union Children(k, down[d - 1])
  BY SubtreeIs
<1>2. \A d \in 0 .. MaxDepth : down[d] \subseteq C
  <2> DEFINE T == {d \in 0 .. MaxDepth : ~(down[d] \subseteq C)}
  <2>1. SUFFICES ASSUME T # {} PROVE FALSE
    OBVIOUS
  <2>2. T \in SUBSET Nat
    OBVIOUS
  <2>3. PICK d \in T : \A e \in T : d <= e
    BY <2>1, <2>2, LeastNatural
  <2>4. d \in 0 .. MaxDepth /\ ~(down[d] \subseteq C) /\ MaxDepth \in Nat
    BY <2>2, TreeAssumption
  <2>5. d # 0
    BY <1>1, <2>4
  <2>6. d - 1 \in 0 .. MaxDepth /\ ~(d <= d - 1) /\ d \in 1 .. MaxDepth
    BY <2>4, <2>5
  <2>7. down[d - 1] \subseteq C
    BY <2>3, <2>6
  <2>8. Children(k, down[d - 1]) \subseteq Children(k, C)
    BY <2>7 DEF Children
  <2> QED BY <1>1, <2>4, <2>6, <2>7, <2>8 DEF Closed
<1>3. MaxDepth \in 0 .. MaxDepth
  BY TreeAssumption
<1> QED BY <1>1, <1>2, <1>3

LEMMA SubtreeClosed ==
  ASSUME NEW k \in [Nodes -> Seq(Nodes)], NEW rank \in [Nodes -> 0 .. MaxDepth], Falling(rank, k),
         NEW n \in Nodes
  PROVE  Subtree(k, n) \in SUBSET Nodes /\ n \in Subtree(k, n) /\ Closed(k, Subtree(k, n))
<1>0. MaxDepth \in Nat
  BY TreeAssumption
<1>1. PICK down \in [0 .. MaxDepth -> SUBSET Nodes] :
           /\ Subtree(k, n) = down[MaxDepth] /\ down[0] = {n}
           /\ \A d \in 1 .. MaxDepth : down[d] = down[d - 1] \union Children(k, down[d - 1])
  BY SubtreeIs
<1>2. \A d \in 0 .. MaxDepth : \A e \in 0 .. MaxDepth : d <= e => down[d] \subseteq down[e]
  <2> SUFFICES ASSUME NEW d \in 0 .. MaxDepth
               PROVE  \A e \in 0 .. MaxDepth : d <= e => down[d] \subseteq down[e]
    OBVIOUS
  <2> DEFINE T == {e \in 0 .. MaxDepth : d <= e /\ ~(down[d] \subseteq down[e])}
  <2>1. SUFFICES ASSUME T # {} PROVE FALSE
    OBVIOUS
  <2>2. T \in SUBSET Nat
    OBVIOUS
  <2>3. PICK e \in T : \A x \in T : e <= x
    BY <2>1, <2>2, LeastNatural
  <2>4. e \in 0 .. MaxDepth /\ d <= e /\ ~(down[d] \subseteq down[e])
    BY <2>2
  <2>5. e # d
    BY <2>4
  <2>6. e - 1 \in 0 .. MaxDepth /\ ~(e <= e - 1) /\ d <= e - 1 /\ e \in 1 .. MaxDepth
    BY <1>0, <2>4, <2>5
  <2>7. down[d] \subseteq down[e - 1]
    BY <2>3, <2>6
  <2> QED BY <1>1, <2>4, <2>6, <2>7
<1>3. \A d \in 0 .. MaxDepth : \A m \in down[d] :
        \E e \in 0 .. MaxDepth : m \in down[e] /\ e + rank[m] <= rank[n]
  <2> DEFINE Near(m) == \E e \in 0 .. MaxDepth : m \in down[e] /\ e + rank[m] <= rank[n]
             T == {d \in 0 .. MaxDepth : \E m \in down[d] : ~Near(m)}
  <2>1. SUFFICES ASSUME T # {} PROVE FALSE
    OBVIOUS
  <2>2. T \in SUBSET Nat
    OBVIOUS
  <2>3. PICK d \in T : \A x \in T : d <= x
    BY <2>1, <2>2, LeastNatural
  <2>4. d \in 0 .. MaxDepth
    BY <2>2
  <2>5. PICK m \in down[d] : ~Near(m)
    OBVIOUS
  <2>6. d # 0
    <3>1. rank[n] \in Nat /\ 0 + rank[n] <= rank[n] /\ 0 \in 0 .. MaxDepth /\ n \in down[0]
      BY <1>0, <1>1
    <3>2. Near(n)
      BY <3>1
    <3> QED BY <1>1, <2>5, <3>2
  <2>7. d - 1 \in 0 .. MaxDepth /\ ~(d <= d - 1) /\ d \in 1 .. MaxDepth
    BY <1>0, <2>4, <2>6
  <2>8. d - 1 \notin T
    BY <2>3, <2>7
  <2>9. \A x \in down[d - 1] : Near(x)
    BY <2>7, <2>8
  <2>10. PICK p \in down[d - 1] : m \in Set(k[p])
    <3>1. m \notin down[d - 1]
      BY <2>5, <2>9
    <3>2. m \in Children(k, down[d - 1])
      BY <1>1, <2>7, <3>1
    <3> QED BY <3>2 DEF Children
  <2>11. PICK e \in 0 .. MaxDepth : p \in down[e] /\ e + rank[p] <= rank[n]
    BY <2>9, <2>10
  <2>12. p \in Nodes /\ m \in Nodes /\ rank[m] < rank[p] /\ rank[p] \in 0 .. MaxDepth
         /\ rank[m] \in 0 .. MaxDepth /\ rank[n] \in 0 .. MaxDepth
    <3>1. p \in Nodes
      BY <2>7, <2>10
    <3>2. m \in Nodes
      BY <2>4, <2>5
    <3> QED BY <2>10, <3>1, <3>2 DEF Falling
  <2>13. e + 1 \in 1 .. MaxDepth /\ (e + 1) - 1 = e /\ e + 1 + rank[m] <= rank[n] /\ e + 1 \in 0 .. MaxDepth
    BY <1>0, <2>11, <2>12
  <2>14. m \in down[e + 1]
    BY <1>1, <2>10, <2>11, <2>13 DEF Children
  <2> QED BY <2>5, <2>13, <2>14
<1>4. MaxDepth \in 0 .. MaxDepth /\ 0 \in 0 .. MaxDepth
  BY <1>0
<1>5. n \in Subtree(k, n) /\ Subtree(k, n) \in SUBSET Nodes
  BY <1>0, <1>1, <1>2, <1>4
<1>6. ASSUME NEW m \in Subtree(k, n), NEW c \in Set(k[m]) PROVE c \in Subtree(k, n)
  <2>1. PICK e \in 0 .. MaxDepth : m \in down[e] /\ e + rank[m] <= rank[n]
    BY <1>1, <1>3, <1>4
  <2>2. m \in Nodes /\ c \in Nodes
    BY <1>5, <1>6, SetIs
  <2>3. rank[c] < rank[m] /\ rank[c] \in 0 .. MaxDepth /\ rank[m] \in 0 .. MaxDepth
        /\ rank[n] \in 0 .. MaxDepth
    BY <1>6, <2>2 DEF Falling
  <2>4. e + 1 \in 1 .. MaxDepth /\ (e + 1) - 1 = e /\ e + 1 \in 0 .. MaxDepth /\ e + 1 <= MaxDepth
    BY <1>0, <2>1, <2>3
  <2>5. c \in down[e + 1]
    BY <1>1, <1>6, <2>1, <2>4 DEF Children
  <2> QED BY <1>1, <1>2, <1>4, <2>4, <2>5
<1>7. Closed(k, Subtree(k, n))
  BY <1>6 DEF Closed, Children
<1> QED BY <1>5, <1>7

LEMMA FloorsInTree ==
  ASSUME NEW k \in [Nodes -> Seq(Nodes)], NEW rank \in [Nodes -> 0 .. MaxDepth], Falling(rank, k)
  PROVE  \A n \in Nat : FloorOf(k, n) \subseteq Subtree(k, Root)
<1> DEFINE T == {n \in Nat : ~(FloorOf(k, n) \subseteq Subtree(k, Root))}
<1>1. SUFFICES ASSUME T # {} PROVE FALSE
  OBVIOUS
<1>2. PICK n \in T : \A m \in T : n <= m
  BY <1>1, LeastNatural
<1>3. n \in Nat /\ ~(FloorOf(k, n) \subseteq Subtree(k, Root))
  OBVIOUS
<1>4. Root \in Nodes /\ Root \in Subtree(k, Root) /\ Closed(k, Subtree(k, Root))
  BY SubtreeClosed, TreeAssumption
<1>5. n # 0
  BY <1>3, <1>4, FloorIs
<1>6. n - 1 \in Nat /\ ~(n <= n - 1) /\ (n - 1) + 1 = n
  BY <1>3, <1>5
<1>7. FloorOf(k, n - 1) \subseteq Subtree(k, Root)
  BY <1>2, <1>6
<1>8. FloorOf(k, n) = Children(k, FloorOf(k, n - 1))
  BY <1>6, FloorIs
<1> QED BY <1>3, <1>4, <1>7, <1>8 DEF Closed, Children

\* No node is at two levels.
LEMMA FloorsApart ==
  ASSUME NEW k \in [Nodes -> Seq(Nodes)], OneParent(k), RootOnTop(k)
  PROVE  \A i \in Nat : \A j \in Nat : i < j => FloorOf(k, i) \cap FloorOf(k, j) = {}
<1> DEFINE T == {i \in Nat : \E j \in Nat : i < j /\ FloorOf(k, i) \cap FloorOf(k, j) # {}}
<1>1. SUFFICES ASSUME T # {} PROVE FALSE
  OBVIOUS
<1>2. PICK i \in T : \A m \in T : i <= m
  BY <1>1, LeastNatural
<1>3. PICK j \in Nat : i < j /\ FloorOf(k, i) \cap FloorOf(k, j) # {}
  OBVIOUS
<1>4. PICK c : c \in FloorOf(k, i) /\ c \in FloorOf(k, j)
  BY <1>3
<1>5. i \in Nat /\ j - 1 \in Nat /\ (j - 1) + 1 = j
  BY <1>3
<1>6. FloorOf(k, j) = Children(k, FloorOf(k, j - 1)) /\ FloorOf(k, j - 1) \in SUBSET Nodes
  BY <1>5, FloorIs
<1>7. PICK q \in FloorOf(k, j - 1) : c \in Set(k[q])
  BY <1>4, <1>6 DEF Children
<1>8. i # 0
  BY <1>4, <1>6, <1>7, FloorIs DEF RootOnTop
<1>9. i - 1 \in Nat /\ ~(i <= i - 1) /\ (i - 1) + 1 = i /\ i - 1 < j - 1
  BY <1>3, <1>5, <1>8
<1>10. FloorOf(k, i) = Children(k, FloorOf(k, i - 1)) /\ FloorOf(k, i - 1) \in SUBSET Nodes
  BY <1>9, FloorIs
<1>11. PICK p \in FloorOf(k, i - 1) : c \in Set(k[p])
  BY <1>4, <1>10 DEF Children
<1>12. p = q
  BY <1>6, <1>7, <1>10, <1>11 DEF OneParent
<1>13. i - 1 \in T
  BY <1>5, <1>7, <1>9, <1>11, <1>12
<1> QED BY <1>2, <1>9, <1>13

LEMMA FloorsGrow ==
  ASSUME NEW k \in [Nodes -> Seq(Nodes)], NEW h \in [Nodes -> Seq(Nodes)],
         \A x \in Nodes : Set(k[x]) \subseteq Set(h[x])
  PROVE  \A n \in Nat : FloorOf(k, n) \subseteq FloorOf(h, n)
<1> DEFINE T == {n \in Nat : ~(FloorOf(k, n) \subseteq FloorOf(h, n))}
<1>1. SUFFICES ASSUME T # {} PROVE FALSE
  OBVIOUS
<1>2. PICK n \in T : \A m \in T : n <= m
  BY <1>1, LeastNatural
<1>3. n \in Nat /\ ~(FloorOf(k, n) \subseteq FloorOf(h, n))
  OBVIOUS
<1>4. n # 0
  BY <1>3, FloorIs
<1>5. n - 1 \in Nat /\ ~(n <= n - 1) /\ (n - 1) + 1 = n
  BY <1>3, <1>4
<1>6. FloorOf(k, n - 1) \subseteq FloorOf(h, n - 1)
  BY <1>2, <1>5
<1>7. /\ FloorOf(k, n) = Children(k, FloorOf(k, n - 1)) /\ FloorOf(k, n - 1) \in SUBSET Nodes
      /\ FloorOf(h, n) = Children(h, FloorOf(h, n - 1))
  BY <1>5, FloorIs
<1> QED BY <1>3, <1>6, <1>7 DEF Children

----------------------------------------------------------------------------
\* Where a node is.
LEMMA ParentIs ==
  ASSUME NEW rank, Grows(rank, kids), NEW p \in Nodes, NEW n \in Set(kids[p])
  PROVE  n \in Nodes /\ n # Root /\ Parent(n) = p
<1>1. n \in Nodes /\ n # Root
  BY SetIs DEF Grows, RootOnTop
<1>2. \A q \in Nodes : n \in Set(kids[q]) => q = p
  BY DEF Grows, OneParent
<1> QED BY <1>1, <1>2 DEF Parent

LEMMA FloorParent ==
  ASSUME NEW rank, Grows(rank, kids), NEW j \in Nat, NEW n \in FloorOf(kids, j), n # Root
  PROVE  /\ j - 1 \in Nat /\ Parent(n) \in FloorOf(kids, j - 1) /\ Parent(n) \in Nodes
         /\ n \in Set(kids[Parent(n)])
<1>0. kids \in [Nodes -> Seq(Nodes)]
  BY DEF Grows
<1>1. j # 0
  BY <1>0, FloorIs
<1>2. j - 1 \in Nat /\ (j - 1) + 1 = j
  BY <1>1
<1>3. FloorOf(kids, j) = Children(kids, FloorOf(kids, j - 1)) /\ FloorOf(kids, j - 1) \in SUBSET Nodes
  BY <1>0, <1>2, FloorIs
<1>4. PICK p \in FloorOf(kids, j - 1) : n \in Set(kids[p])
  BY <1>3 DEF Children
<1>5. p \in Nodes /\ Parent(n) = p
  BY <1>3, <1>4, ParentIs
<1> QED BY <1>2, <1>4, <1>5

LEMMA FloorChild ==
  ASSUME NEW rank, Grows(rank, kids), NEW j \in Nat, NEW n \in FloorOf(kids, j), NEW c \in Set(kids[n])
  PROVE  j + 1 \in Nat /\ c \in FloorOf(kids, j + 1)
<1>1. FloorOf(kids, j + 1) = Children(kids, FloorOf(kids, j))
  BY FloorIs DEF Grows
<1> QED BY <1>1 DEF Children

LEMMA FloorRoot ==
  ASSUME NEW rank, Grows(rank, kids), NEW j \in Nat, Root \in FloorOf(kids, j)
  PROVE  j = 0
<1>1. Root \in FloorOf(kids, 0)
  BY FloorIs DEF Grows
<1>2. 0 < j => FloorOf(kids, 0) \cap FloorOf(kids, j) = {}
  BY FloorsApart DEF Grows
<1> QED BY <1>1, <1>2

LEMMA FloorSibling ==
  ASSUME NEW rank, Grows(rank, kids), NEW j \in Nat, NEW n \in FloorOf(kids, j)
  PROVE  /\ n \in Nodes /\ n \in Set(Siblings(n)) /\ Siblings(n) \in Seq(Nodes)
         /\ Place(n) \in DOMAIN Siblings(n) /\ Siblings(n)[Place(n)] = n
         /\ \A m \in Set(Siblings(n)) : m \in FloorOf(kids, j)
         /\ \A d : \A m \in NthFrom(n, d) : m \in Set(Siblings(n))
<1>1. n \in Nodes /\ n \in Set(Siblings(n)) /\ Siblings(n) \in Seq(Nodes)
      /\ \A m \in Set(Siblings(n)) : m \in FloorOf(kids, j)
  <2>1. CASE n = Root
    <3>1. Siblings(n) = <<Root>> /\ Root \in Nodes
      BY <2>1, TreeAssumption DEF Siblings
    <3>2. Set(<<Root>>) = {Root} /\ <<Root>> \in Seq(Nodes)
      BY <3>1 DEF Set
    <3> QED BY <2>1, <3>1, <3>2
  <2>2. CASE n # Root
    <3>1. j - 1 \in Nat /\ Parent(n) \in FloorOf(kids, j - 1) /\ Parent(n) \in Nodes
          /\ n \in Set(kids[Parent(n)])
      BY <2>2, FloorParent
    <3>2. Siblings(n) = kids[Parent(n)] /\ (j - 1) + 1 = j
      BY <2>2 DEF Siblings
    <3>3. Siblings(n) \in Seq(Nodes) /\ n \in Set(Siblings(n))
      BY <3>1, <3>2 DEF Grows
    <3>4. n \in Nodes
      BY <3>3, SetIs
    <3> QED BY <3>1, <3>2, <3>3, <3>4, FloorChild
  <2> QED BY <2>1, <2>2
<1>2. Place(n) \in DOMAIN Siblings(n) /\ Siblings(n)[Place(n)] = n
  <2>1. \E i \in DOMAIN Siblings(n) : Siblings(n)[i] = n
    BY <1>1 DEF Set
  <2> QED BY <2>1 DEF Place
<1>3. \A d : \A m \in NthFrom(n, d) : m \in Set(Siblings(n))
  BY DEF NthFrom, Set
<1> QED BY <1>1, <1>2, <1>3

----------------------------------------------------------------------------
\* How the tree changes.
\* What is put into the tree is not in it yet, nor are the children it brings.
LEMMA NewIs ==
  ASSUME NEW rank \in [Nodes -> 0 .. MaxDepth], FitContent(rank), Grows(rank, kids),
         NEW l \in Nodes, IsNew(l)
  PROVE  /\ Grown(kids, l) \in [Nodes -> Seq(Nodes)]
         /\ l \in New(l) /\ Set(Content[l]) \subseteq New(l) /\ New(l) \in SUBSET Nodes
         /\ l \notin Set(Content[l])
         /\ \A n \in New(l) : n # Root /\ kids[n] = <<>> /\ \A p \in Nodes : n \notin Set(kids[p])
<1> DEFINE g == Grown(kids, l)
<1>1. g \in [Nodes -> Seq(Nodes)] /\ g[l] = Content[l] /\ \A n \in Nodes \ {l} : g[n] = kids[n]
  BY DEF Grown, FitContent, Grows, Distinct
<1>2. Falling(rank, g)
  BY <1>1 DEF FitContent, Grows, Falling, Distinct
<1>3. New(l) = Subtree(g, l)
  BY DEF New
<1> HIDE DEF g
<1>4. l \in New(l) /\ New(l) \in SUBSET Nodes /\ Closed(g, New(l))
  BY <1>1, <1>2, <1>3, SubtreeClosed
<1>5. Set(Content[l]) \subseteq New(l)
  BY <1>1, <1>4 DEF Closed, Children
<1>6. l \notin Set(Content[l])
  <2>1. rank[l] \in Int
    BY TreeAssumption
  <2> QED BY <2>1 DEF FitContent, Distinct
<1>7. InTree = Subtree(kids, Root) /\ Root \in InTree /\ Closed(kids, InTree)
  BY SubtreeClosed, TreeAssumption DEF Grows, InTree
<1>8. ASSUME NEW n \in New(l)
      PROVE  n # Root /\ kids[n] = <<>> /\ \A p \in Nodes : n \notin Set(kids[p])
  <2>1. n \notin InTree /\ n \in Nodes
    BY <1>4 DEF IsNew
  <2>2. n # Root /\ kids[n] = <<>>
    BY <1>7, <2>1 DEF Grows, Planted
  <2>3. ASSUME NEW p \in Nodes, n \in Set(kids[p]) PROVE FALSE
    <3>1. kids[p] # <<>>
      BY <2>3, SetIs DEF Grows
    <3>2. p \in InTree
      BY <1>7, <3>1 DEF Grows, Planted
    <3> QED BY <1>7, <2>1, <2>3, <3>2 DEF Closed, Children
  <2> QED BY <2>2, <2>3
<1> QED BY <1>1, <1>4, <1>5, <1>6, <1>8 DEF g

\* h has the children of kids, and l, with its content, as one more child of p.
Attached(h, p, l) ==
  /\ h \in [Nodes -> Seq(Nodes)]
  /\ Set(h[p]) = Set(kids[p]) \union {l}
  /\ Distinct(h[p])
  /\ h[l] = Content[l]
  /\ \A x \in Nodes \ {p, l} : h[x] = kids[x]

LEMMA AttachGrows ==
  ASSUME NEW rank \in [Nodes -> 0 .. MaxDepth], FitContent(rank), Grows(rank, kids),
         NEW l \in Nodes, IsNew(l), NEW p \in InTree, p \notin Entries, rank[l] < rank[p],
         NEW h, Attached(h, p, l)
  PROVE  Grows(rank, h) /\ \A x \in Nodes : Set(kids[x]) \subseteq Set(h[x])
<1>1. /\ l \in New(l) /\ Set(Content[l]) \subseteq New(l) /\ New(l) \in SUBSET Nodes /\ l \notin Set(Content[l])
      /\ \A n \in New(l) : n # Root /\ kids[n] = <<>> /\ \A q \in Nodes : n \notin Set(kids[q])
  BY NewIs
<1>2. InTree = Subtree(kids, Root) /\ Root \in InTree /\ Closed(kids, InTree) /\ InTree \in SUBSET Nodes
      /\ Root \in Nodes /\ kids \in [Nodes -> Seq(Nodes)]
  BY SubtreeClosed, TreeAssumption DEF Grows, InTree
<1>3. l # p /\ p \in Nodes
  BY <1>1, <1>2 DEF IsNew
<1>4. /\ h \in [Nodes -> Seq(Nodes)] /\ Set(h[p]) = Set(kids[p]) \union {l} /\ h[l] = Content[l]
      /\ \A x \in Nodes \ {p, l} : h[x] = kids[x]
  BY DEF Attached, Distinct
<1>5. Set(<<>>) = {}
  BY DEF Set
<1>6. kids[l] = <<>>
  BY <1>1
<1>7. \A x \in Nodes : Set(kids[x]) \subseteq Set(h[x])
  <2> SUFFICES ASSUME NEW x \in Nodes PROVE Set(kids[x]) \subseteq Set(h[x])
    OBVIOUS
  <2> QED BY <1>4, <1>5, <1>6
<1>8. \A x \in Nodes : \A c \in Set(h[x]) :
        \/ c \in Set(kids[x]) /\ x # l
        \/ c = l /\ x = p
        \/ x = l /\ c \in Set(Content[l])
  BY <1>4, <1>5, <1>6
<1>9. Falling(rank, h)
  <2> SUFFICES ASSUME NEW x \in Nodes, NEW c \in Set(h[x]) PROVE rank[c] < rank[x]
    BY DEF Falling
  <2>1. CASE c \in Set(kids[x])
    BY <2>1 DEF Grows, Falling
  <2>2. CASE c = l /\ x = p
    BY <2>2
  <2>3. CASE x = l /\ c \in Set(Content[l])
    BY <2>3 DEF FitContent, Distinct
  <2> QED BY <1>8, <2>1, <2>2, <2>3
<1>10. OneParent(h)
  <2> SUFFICES ASSUME NEW x \in Nodes, NEW y \in Nodes, NEW c \in Set(h[x]), c \in Set(h[y]) PROVE x = y
    BY DEF OneParent
  <2>1. CASE c \in New(l)
    <3>1. c \notin Set(kids[x]) /\ c \notin Set(kids[y])
      BY <1>1, <2>1
    <3> QED BY <1>1, <1>8, <3>1
  <2>2. CASE c \notin New(l)
    <3>1. c \in Set(kids[x]) /\ c \in Set(kids[y])
      BY <1>1, <1>8, <2>2
    <3> QED BY <3>1 DEF Grows, OneParent
  <2> QED BY <2>1, <2>2
<1>11. OnePlace(h)
  <2> SUFFICES ASSUME NEW x \in Nodes PROVE \A i, j \in DOMAIN h[x] : h[x][i] = h[x][j] => i = j
    BY DEF OnePlace, Distinct
  <2>1. CASE x = p
    BY <2>1 DEF Attached, Distinct
  <2>2. CASE x = l
    BY <1>4, <2>2 DEF FitContent, Distinct
  <2>3. CASE x # p /\ x # l
    <3>1. h[x] = kids[x]
      BY <1>4, <2>3
    <3> QED BY <3>1 DEF Grows, OnePlace, Distinct
  <2> QED BY <2>1, <2>2, <2>3
<1>12. RootOnTop(h)
  BY <1>1, <1>8 DEF Grows, RootOnTop
<1>13. Leaves(h)
  <2> SUFFICES ASSUME NEW x \in Entries PROVE h[x] = <<>>
    BY DEF Leaves
  <2>1. x \in Nodes /\ x # p
    BY DEF Entries
  <2>2. CASE x = l
    BY <1>4, <2>2 DEF FitContent, Distinct
  <2>3. CASE x # l
    <3>1. h[x] = kids[x]
      BY <1>4, <2>1, <2>3
    <3> QED BY <3>1 DEF Grows, Leaves
  <2> QED BY <2>2, <2>3
<1> DEFINE T == Subtree(h, Root)
<1>14. Root \in T /\ Closed(h, T) /\ T \in SUBSET Nodes
  BY <1>2, <1>4, <1>9, SubtreeClosed
<1> HIDE DEF T
<1>15. Closed(kids, T)
  BY <1>7, <1>14 DEF Closed, Children
<1>16. InTree \subseteq T
  BY <1>2, <1>14, <1>15, SubtreeLeast
<1>17. Planted(h)
  <2> SUFFICES ASSUME NEW x \in Nodes, h[x] # <<>> PROVE x \in T
    BY DEF Planted, T
  <2>1. CASE x = p
    BY <1>16, <2>1
  <2>2. CASE x = l
    <3>1. l \in Set(h[p]) /\ p \in T
      BY <1>4, <1>16
    <3> QED BY <1>14, <2>2, <3>1 DEF Closed, Children
  <2>3. CASE x # p /\ x # l
    <3>1. h[x] = kids[x]
      BY <1>4, <2>3
    <3> QED BY <1>2, <1>16, <3>1 DEF Grows, Planted
  <2> QED BY <2>1, <2>2, <2>3
<1> QED BY <1>4, <1>7, <1>9, <1>10, <1>11, <1>12, <1>13, <1>17 DEF Grows

----------------------------------------------------------------------------

LEMMA CutIs ==
  ASSUME NEW S, NEW s \in Seq(S), NEW a \in 1 .. Len(s) + 1
  PROVE  LET u == SubSeq(s, 1, a - 1)
             w == SubSeq(s, a, Len(s))
         IN /\ u \in Seq(S) /\ Len(u) = a - 1 /\ \A i \in 1 .. a - 1 : u[i] = s[i]
            /\ w \in Seq(S) /\ Len(w) = Len(s) - a + 1
            /\ \A i \in 1 .. Len(s) - a + 1 : w[i] = s[a + i - 1]
<1> DEFINE u == SubSeq(s, 1, a - 1)
           w == SubSeq(s, a, Len(s))
<1>1. Len(s) \in Nat /\ a \in Int /\ a >= 1 /\ a <= Len(s) + 1 /\ a - 1 \in Int
  OBVIOUS
<1>2. \A i \in 1 .. a - 1 : s[i] \in S
  BY <1>1
<1>3. \A i \in a .. Len(s) : s[i] \in S
  BY <1>1
<1>4. /\ u \in Seq(S) /\ Len(u) = IF 1 <= a - 1 THEN (a - 1) - 1 + 1 ELSE 0
      /\ \A i \in 1 .. (a - 1) - 1 + 1 : u[i] = s[1 + i - 1]
  BY <1>1, <1>2, SubSeqProperties
<1>5. /\ w \in Seq(S) /\ Len(w) = IF a <= Len(s) THEN Len(s) - a + 1 ELSE 0
      /\ \A i \in 1 .. Len(s) - a + 1 : w[i] = s[a + i - 1]
  BY <1>1, <1>3, SubSeqProperties
<1> HIDE DEF u, w
<1>6. Len(u) = a - 1 /\ \A i \in 1 .. a - 1 : u[i] = s[i]
  <2>1. (a - 1) - 1 + 1 = a - 1 /\ \A i \in 1 .. a - 1 : 1 + i - 1 = i
    BY <1>1
  <2> QED BY <1>1, <1>4, <2>1
<1>7. Len(w) = Len(s) - a + 1
  BY <1>1, <1>5
<1> QED BY <1>4, <1>5, <1>6, <1>7 DEF u, w

\* A sequence without its element at i.
LEMMA CutOut ==
  ASSUME NEW S, NEW s \in Seq(S), NEW i \in 1 .. Len(s), Distinct(s)
  PROVE  LET t == SubSeq(s, 1, i - 1) \o SubSeq(s, i + 1, Len(s))
         IN t \in Seq(S) /\ Set(t) = Set(s) \ {s[i]} /\ Distinct(t)
<1> DEFINE u == SubSeq(s, 1, i - 1)
           w == SubSeq(s, i + 1, Len(s))
           t == u \o w
           n == Len(s)
<1>0. n \in Nat /\ i \in Int /\ 1 <= i /\ i <= n /\ DOMAIN s = 1 .. n
  OBVIOUS
<1>1. /\ u \in Seq(S) /\ Len(u) = i - 1 /\ \A j \in 1 .. i - 1 : u[j] = s[j]
  BY CutIs
<1>2. /\ w \in Seq(S) /\ Len(w) = n - i /\ \A j \in 1 .. n - i : w[j] = s[i + j]
  <2>1. i + 1 \in 1 .. n + 1 /\ n - (i + 1) + 1 = n - i
    BY <1>0
  <2> HIDE DEF n
  <2>2. /\ w \in Seq(S) /\ Len(w) = n - (i + 1) + 1 /\ \A j \in 1 .. n - (i + 1) + 1 : w[j] = s[(i + 1) + j - 1]
    BY <2>1, CutIs DEF n
  <2>3. \A j \in 1 .. n - i : (i + 1) + j - 1 = i + j
    BY <1>0
  <2> HIDE DEF w
  <2> QED BY <2>1, <2>2, <2>3
<1> HIDE DEF u, w, n
<1>3. t \in Seq(S) /\ Len(t) = (i - 1) + (n - i)
      /\ \A j \in 1 .. (i - 1) + (n - i) : t[j] = IF j <= i - 1 THEN u[j] ELSE w[j - (i - 1)]
  <2>1. t \in Seq(S) /\ Len(t) = Len(u) + Len(w)
        /\ \A j \in 1 .. Len(u) + Len(w) : t[j] = IF j <= Len(u) THEN u[j] ELSE w[j - Len(u)]
    BY <1>1, <1>2, ConcatProperties
  <2> HIDE DEF t
  <2> QED BY <1>1, <1>2, <2>1
<1> HIDE DEF t
<1>4. Len(t) = n - 1 /\ DOMAIN t = 1 .. n - 1
  BY <1>0, <1>3, LenProperties
<1>5. ASSUME NEW j \in 1 .. n - 1 PROVE t[j] = IF j < i THEN s[j] ELSE s[j + 1]
  <2>0. j \in 1 .. (i - 1) + (n - i) /\ j \in Int /\ 1 <= j /\ j <= n - 1
    BY <1>0
  <2>1. CASE j < i
    <3>1. j <= i - 1 /\ j \in 1 .. i - 1
      BY <1>0, <2>0, <2>1
    <3> QED BY <1>1, <1>3, <2>0, <2>1, <3>1
  <2>2. CASE ~(j < i)
    <3>1. ~(j <= i - 1) /\ j - (i - 1) \in 1 .. n - i /\ i + (j - (i - 1)) = j + 1
      BY <1>0, <2>0, <2>2
    <3> QED BY <1>2, <1>3, <2>0, <2>2, <3>1
  <2> QED BY <2>1, <2>2
<1>6. \A j \in 1 .. n - 1 : (IF j < i THEN j ELSE j + 1) \in (1 .. n) \ {i}
  BY <1>0
<1>7. Distinct(t)
  <2> SUFFICES ASSUME NEW j \in 1 .. n - 1, NEW k \in 1 .. n - 1, t[j] = t[k] PROVE j = k
    BY <1>4 DEF Distinct
  <2> DEFINE x == IF j < i THEN j ELSE j + 1
             y == IF k < i THEN k ELSE k + 1
  <2>1. t[j] = s[x] /\ t[k] = s[y] /\ x \in DOMAIN s /\ y \in DOMAIN s
    BY <1>0, <1>5, <1>6
  <2>2. x = y
    BY <2>1 DEF Distinct
  <2> QED BY <1>0, <2>2
<1>8. Set(t) \subseteq Set(s) \ {s[i]}
  <2> SUFFICES ASSUME NEW j \in 1 .. n - 1 PROVE t[j] \in Set(s) /\ t[j] # s[i]
    BY <1>4 DEF Set
  <2> DEFINE x == IF j < i THEN j ELSE j + 1
  <2>1. t[j] = s[x] /\ x \in DOMAIN s /\ i \in DOMAIN s /\ x # i
    BY <1>0, <1>5, <1>6
  <2> HIDE DEF x
  <2> QED BY <2>1 DEF Distinct, Set
<1>9. Set(s) \ {s[i]} \subseteq Set(t)
  <2> SUFFICES ASSUME NEW k \in 1 .. n, s[k] # s[i] PROVE s[k] \in Set(t)
    BY <1>0 DEF Set
  <2>1. k # i
    OBVIOUS
  <2> DEFINE j == IF k < i THEN k ELSE k - 1
  <2>2. j \in 1 .. n - 1 /\ (IF j < i THEN j ELSE j + 1) = k
    BY <1>0, <2>1
  <2>3. t[j] = s[k]
    BY <1>5, <2>2
  <2> HIDE DEF j
  <2> QED BY <1>4, <2>2, <2>3 DEF Set
<1> QED BY <1>3, <1>7, <1>8, <1>9 DEF t, u, w, n

\* A sequence with one more element after the one at i.
LEMMA PutIn ==
  ASSUME NEW S, NEW s \in Seq(S), NEW i \in 1 .. Len(s), Distinct(s), NEW e \in S, e \notin Set(s)
  PROVE  LET t == SubSeq(s, 1, i) \o <<e>> \o SubSeq(s, i + 1, Len(s))
         IN /\ t \in Seq(S) /\ Set(t) = Set(s) \union {e} /\ Distinct(t)
            /\ i \in DOMAIN t /\ t[i] = s[i] /\ i + 1 \in DOMAIN t
<1> DEFINE u == SubSeq(s, 1, i)
           w == SubSeq(s, i + 1, Len(s))
           v == u \o <<e>>
           t == v \o w
           n == Len(s)
<1>0. n \in Nat /\ i \in Int /\ 1 <= i /\ i <= n /\ DOMAIN s = 1 .. n
  OBVIOUS
<1>a. i + 1 \in 1 .. n + 1 /\ n - (i + 1) + 1 = n - i /\ (i + 1) - 1 = i
  BY <1>0
<1> HIDE DEF n
<1>1. /\ u \in Seq(S) /\ Len(u) = i /\ \A j \in 1 .. i : u[j] = s[j]
  <2>1. /\ SubSeq(s, 1, (i + 1) - 1) \in Seq(S) /\ Len(SubSeq(s, 1, (i + 1) - 1)) = (i + 1) - 1
        /\ \A j \in 1 .. (i + 1) - 1 : SubSeq(s, 1, (i + 1) - 1)[j] = s[j]
    BY <1>a, CutIs DEF n
  <2> QED BY <1>a, <2>1
<1>2. /\ w \in Seq(S) /\ Len(w) = n - i /\ \A j \in 1 .. n - i : w[j] = s[i + j]
  <2>2. /\ w \in Seq(S) /\ Len(w) = n - (i + 1) + 1 /\ \A j \in 1 .. n - (i + 1) + 1 : w[j] = s[(i + 1) + j - 1]
    BY <1>a, CutIs DEF n
  <2>3. \A j \in 1 .. n - i : (i + 1) + j - 1 = i + j
    BY <1>0
  <2> HIDE DEF w
  <2> QED BY <1>a, <2>2, <2>3
<1> HIDE DEF u, w
<1>3. v \in Seq(S) /\ Len(v) = i + 1 /\ \A j \in 1 .. i + 1 : v[j] = IF j <= i THEN u[j] ELSE e
  <2>1. <<e>> \in Seq(S) /\ Len(<<e>>) = 1 /\ <<e>>[1] = e
    OBVIOUS
  <2>2. v \in Seq(S) /\ Len(v) = i + 1 /\ \A j \in 1 .. i + 1 : v[j] = IF j <= i THEN u[j] ELSE <<e>>[j - i]
    BY <1>1, <2>1, ConcatProperties
  <2>3. \A j \in 1 .. i + 1 : ~(j <= i) => j - i = 1
    BY <1>0
  <2> HIDE DEF v
  <2> QED BY <2>1, <2>2, <2>3
<1> HIDE DEF v
<1>4. t \in Seq(S) /\ Len(t) = (i + 1) + (n - i)
      /\ \A j \in 1 .. (i + 1) + (n - i) : t[j] = IF j <= i + 1 THEN v[j] ELSE w[j - (i + 1)]
  <2>1. t \in Seq(S) /\ Len(t) = Len(v) + Len(w)
        /\ \A j \in 1 .. Len(v) + Len(w) : t[j] = IF j <= Len(v) THEN v[j] ELSE w[j - Len(v)]
    BY <1>2, <1>3, ConcatProperties
  <2> HIDE DEF t
  <2> QED BY <1>2, <1>3, <2>1
<1> HIDE DEF t
<1>5. Len(t) = n + 1 /\ DOMAIN t = 1 .. n + 1
  BY <1>0, <1>4, LenProperties
<1>6. ASSUME NEW j \in 1 .. n + 1 PROVE t[j] = IF j <= i THEN s[j] ELSE IF j = i + 1 THEN e ELSE s[j - 1]
  <2>0. j \in 1 .. (i + 1) + (n - i) /\ j \in Int /\ 1 <= j /\ j <= n + 1
    BY <1>0
  <2>1. CASE j <= i
    <3>1. j <= i + 1 /\ j \in 1 .. i /\ j \in 1 .. i + 1
      BY <1>0, <2>0, <2>1
    <3> QED BY <1>1, <1>3, <1>4, <2>0, <2>1, <3>1
  <2>2. CASE j = i + 1
    <3>1. j <= i + 1 /\ ~(j <= i) /\ j \in 1 .. i + 1
      BY <1>0, <2>0, <2>2
    <3> QED BY <1>3, <1>4, <2>0, <2>2, <3>1
  <2>3. CASE ~(j <= i + 1)
    <3>1. ~(j <= i) /\ j # i + 1 /\ j - (i + 1) \in 1 .. n - i /\ i + (j - (i + 1)) = j - 1
      BY <1>0, <2>0, <2>3
    <3> QED BY <1>2, <1>4, <2>0, <2>3, <3>1
  <2>4. j <= i \/ j = i + 1 \/ ~(j <= i + 1)
    BY <1>0, <2>0
  <2> QED BY <2>1, <2>2, <2>3, <2>4
<1>7. \A k \in 1 .. n : s[k] \in Set(s) /\ s[k] # e
  BY <1>0 DEF Set
<1>8. \A j \in 1 .. n + 1 : j # i + 1 => (IF j <= i THEN j ELSE j - 1) \in 1 .. n
  BY <1>0
<1>9. \A j \in 1 .. n + 1 : j # i + 1 => t[j] = s[IF j <= i THEN j ELSE j - 1]
  BY <1>6
<1>10. i + 1 \in 1 .. n + 1 /\ ~(i + 1 <= i) /\ i \in 1 .. n + 1 /\ i <= i
  BY <1>0
<1>11. t[i + 1] = e /\ t[i] = s[i]
  BY <1>6, <1>10
<1>12. Distinct(t)
  <2> SUFFICES ASSUME NEW j \in 1 .. n + 1, NEW k \in 1 .. n + 1, t[j] = t[k] PROVE j = k
    BY <1>5 DEF Distinct
  <2> DEFINE x == IF j <= i THEN j ELSE j - 1
             y == IF k <= i THEN k ELSE k - 1
  <2>1. CASE j = i + 1 \/ k = i + 1
    BY <1>7, <1>8, <1>9, <1>11, <2>1
  <2>2. CASE j # i + 1 /\ k # i + 1
    <3>1. t[j] = s[x] /\ t[k] = s[y] /\ x \in DOMAIN s /\ y \in DOMAIN s
      BY <1>0, <1>8, <1>9, <2>2
    <3>2. x = y
      BY <3>1 DEF Distinct
    <3> QED BY <1>0, <2>2, <3>2
  <2> QED BY <2>1, <2>2
<1>13. Set(t) \subseteq Set(s) \union {e}
  <2> SUFFICES ASSUME NEW j \in 1 .. n + 1 PROVE t[j] \in Set(s) \union {e}
    BY <1>5 DEF Set
  <2> QED BY <1>7, <1>8, <1>9, <1>11
<1>14. Set(s) \union {e} \subseteq Set(t)
  <2>1. e \in Set(t)
    BY <1>5, <1>10, <1>11 DEF Set
  <2>2. ASSUME NEW k \in 1 .. n PROVE s[k] \in Set(t)
    <3> DEFINE j == IF k <= i THEN k ELSE k + 1
    <3>1. j \in 1 .. n + 1 /\ j # i + 1 /\ (IF j <= i THEN j ELSE j - 1) = k
      BY <1>0
    <3>2. t[j] = s[k]
      BY <1>9, <3>1
    <3> HIDE DEF j
    <3> QED BY <1>5, <3>1, <3>2 DEF Set
  <2> QED BY <1>0, <2>1, <2>2 DEF Set
<1> QED BY <1>4, <1>5, <1>10, <1>11, <1>12, <1>13, <1>14 DEF t, v, u, w, n

LEMMA AppendIs ==
  ASSUME NEW rank \in [Nodes -> 0 .. MaxDepth], FitContent(rank), Grows(rank, kids),
         NEW l \in Nodes, IsNew(l)
  PROVE  Attached([Grown(kids, l) EXCEPT ![Root] = Append(@, l)], Root, l) /\ Root \in InTree
<1> DEFINE g == Grown(kids, l)
           h == [g EXCEPT ![Root] = Append(@, l)]
           s == kids[Root]
<1>0. Root \in Nodes /\ s \in Seq(Nodes) /\ Root \in InTree
  BY TreeAssumption, SubtreeClosed DEF Grows, InTree
<1>1. /\ g \in [Nodes -> Seq(Nodes)] /\ l # Root /\ \A p \in Nodes : l \notin Set(kids[p])
  BY NewIs
<1>2. g[l] = Content[l] /\ \A x \in Nodes \ {l} : g[x] = kids[x]
  BY DEF Grown, Grows
<1> HIDE DEF g
<1>3. h[Root] = Append(s, l) /\ \A x \in Nodes \ {Root} : h[x] = g[x]
  BY <1>0, <1>1, <1>2
<1>4. Append(s, l) \in Seq(Nodes) /\ Len(Append(s, l)) = Len(s) + 1 /\ Append(s, l)[Len(s) + 1] = l
      /\ \A i \in 1 .. Len(s) : Append(s, l)[i] = s[i]
  BY <1>0, AppendProperties
<1>5. h \in [Nodes -> Seq(Nodes)]
  BY <1>0, <1>1, <1>4, <1>2
<1> DEFINE t == Append(s, l)
<1>6. Distinct(s) /\ l \notin Set(s)
  BY <1>0, <1>1 DEF Grows, OnePlace, Distinct
<1>7. Len(s) \in Nat /\ DOMAIN s = 1 .. Len(s) /\ DOMAIN t = 1 .. Len(s) + 1
      /\ \A i \in 1 .. Len(s) + 1 : i \in 1 .. Len(s) \/ i = Len(s) + 1
  BY <1>0, <1>4, LenProperties
<1> HIDE DEF t, h, s
<1>8. Distinct(t)
  BY <1>4, <1>6, <1>7 DEF Distinct, Set, t
<1>9. Set(t) = Set(s) \union {l}
  BY <1>4, <1>7 DEF Set, t
<1>10. h[l] = Content[l] /\ \A x \in Nodes \ {Root, l} : h[x] = kids[x]
  BY <1>1, <1>2, <1>3
<1> QED BY <1>0, <1>3, <1>5, <1>8, <1>9, <1>10 DEF Attached, Distinct, t, h, s, g

LEMMA InsertIs ==
  ASSUME NEW rank \in [Nodes -> 0 .. MaxDepth], FitContent(rank), Grows(rank, kids),
         NEW l \in Nodes, IsNew(l), NEW j \in Nat, NEW n \in FloorOf(kids, j), n \in Entries
  PROVE  LET h == Insert(Grown(kids, l), n, l)
             p == Parent(n)
         IN /\ Attached(h, p, l)
            /\ p \in InTree /\ p \in Nodes /\ p \notin Entries /\ n \in Set(h[p]) /\ n \in Set(kids[p])
            /\ \E i \in DOMAIN h[p] : h[p][i] = n /\ i + 1 \in DOMAIN h[p]
<1> DEFINE g == Grown(kids, l)
           h == Insert(g, n, l)
           p == Parent(n)
           i == Place(n)
           s == kids[p]
           t == SubSeq(s, 1, i) \o <<l>> \o SubSeq(s, i + 1, Len(s))
<1>0. n # Root /\ kids \in [Nodes -> Seq(Nodes)]
  BY TreeAssumption DEF Entries, Grows
<1>1. j - 1 \in Nat /\ p \in FloorOf(kids, j - 1) /\ p \in Nodes /\ n \in Set(s)
  BY <1>0, FloorParent
<1>2. Siblings(n) = s /\ i \in DOMAIN s /\ s[i] = n
  BY <1>0, FloorSibling DEF Siblings
<1>3. p \in InTree
  BY <1>1, FloorsInTree DEF Grows, InTree
<1>4. p \notin Entries
  <2>1. s # <<>>
    BY <1>0, <1>1, SetIs
  <2> QED BY <2>1 DEF Grows, Leaves
<1>5. /\ g \in [Nodes -> Seq(Nodes)] /\ l \notin Set(s) /\ l \in New(l)
  BY <1>1, NewIs
<1>6. l # p
  BY <1>3, <1>5 DEF IsNew
<1>7. g[l] = Content[l] /\ \A x \in Nodes \ {l} : g[x] = kids[x]
  BY DEF Grown, Grows
<1> HIDE DEF g
<1>8. h = [g EXCEPT ![p] = SubSeq(@, 1, i) \o <<l>> \o SubSeq(@, i + 1, Len(@))]
  BY DEF Insert
<1>9. s \in Seq(Nodes) /\ Distinct(s) /\ DOMAIN s = 1 .. Len(s) /\ i \in 1 .. Len(s)
  BY <1>0, <1>1, <1>2, LenProperties DEF Grows, OnePlace, Distinct
<1> HIDE DEF p, i, h, s
<1>10. /\ t \in Seq(Nodes) /\ Set(t) = Set(s) \union {l} /\ Distinct(t)
       /\ i \in DOMAIN t /\ t[i] = s[i] /\ i + 1 \in DOMAIN t
  BY <1>5, <1>9, PutIn
<1>11. g[p] = s
  BY <1>1, <1>6, <1>7 DEF s
<1>12. h = [g EXCEPT ![p] = t]
  BY <1>1, <1>5, <1>8, <1>11
<1> HIDE DEF t
<1>13. h \in [Nodes -> Seq(Nodes)] /\ h[p] = t /\ h[l] = Content[l] /\ \A x \in Nodes \ {p, l} : h[x] = kids[x]
  BY <1>1, <1>5, <1>6, <1>7, <1>10, <1>12
<1>14. Attached(h, p, l)
  BY <1>10, <1>13 DEF Attached, Distinct, s
<1> QED BY <1>1, <1>2, <1>3, <1>4, <1>10, <1>13, <1>14 DEF p, h, s, g

LEMMA ReplantGrows ==
  ASSUME NEW rank \in [Nodes -> 0 .. MaxDepth], FitContent(rank), Grows(rank, kids),
         NEW l \in Nodes, IsNew(l), rank[l] < rank[Root]
  PROVE  LET h == Replanted(l)
         IN /\ Grows(rank, h) /\ Set(h[Root]) = {l} /\ Root \notin New(l)
            /\ \A x \in Nodes \ ({Root} \union New(l)) : h[x] = <<>>
<1> DEFINE h == Replanted(l)
<1>0. Root \in Nodes /\ Root \notin Entries
  BY TreeAssumption DEF Entries
<1>1. /\ l \in New(l) /\ Set(Content[l]) \subseteq New(l) /\ New(l) \in SUBSET Nodes /\ l \notin Set(Content[l])
      /\ \A n \in New(l) : n # Root /\ kids[n] = <<>>
  BY NewIs
<1>2. Grown(kids, l)[l] = Content[l] /\ \A x \in Nodes \ {l} : Grown(kids, l)[x] = kids[x]
  BY DEF Grown, Grows
<1>3. Content[l] \in Seq(Nodes) /\ (l \in Entries => Content[l] = <<>>)
  BY DEF FitContent, Distinct
<1>4. \A x \in Nodes : h[x] = IF x = Root THEN <<l>> ELSE IF x = l THEN Content[l] ELSE <<>>
  <2> SUFFICES ASSUME NEW x \in Nodes
               PROVE h[x] = IF x = Root THEN <<l>> ELSE IF x = l THEN Content[l] ELSE <<>>
    OBVIOUS
  <2>1. h[x] = IF x = Root THEN <<l>> ELSE IF x \in New(l) THEN Grown(kids, l)[x] ELSE <<>>
    BY DEF Replanted
  <2> QED BY <1>1, <1>2, <2>1
<1>5. h \in [Nodes -> Seq(Nodes)]
  <2>1. \A x \in Nodes : h[x] \in Seq(Nodes)
    <3>1. <<l>> \in Seq(Nodes) /\ <<>> \in Seq(Nodes)
      OBVIOUS
    <3> HIDE DEF h
    <3> QED BY <1>3, <1>4, <3>1
  <2> QED BY <2>1 DEF Replanted
<1> HIDE DEF h
<1>6. Set(<<l>>) = {l} /\ Set(<<>>) = {} /\ Distinct(<<l>>) /\ Distinct(<<>>)
  BY DEF Set, Distinct
<1>7. \A x \in Nodes : \A c \in Set(h[x]) : (x = Root /\ c = l) \/ (x = l /\ c \in Set(Content[l]))
  BY <1>4, <1>6
<1>8. l # Root
  BY <1>1
<1>9. Falling(rank, h)
  BY <1>7 DEF Falling, FitContent, Distinct
<1>10. OneParent(h)
  BY <1>1, <1>7, <1>8 DEF OneParent
<1>11. OnePlace(h)
  <2>1. Distinct(Content[l])
    BY DEF FitContent, Distinct
  <2>2. \A x \in Nodes : Distinct(h[x])
    BY <1>4, <1>6, <2>1
  <2> QED BY <2>2 DEF OnePlace, Distinct
<1>12. RootOnTop(h)
  BY <1>1, <1>7 DEF RootOnTop
<1>13. Leaves(h)
  <2> SUFFICES ASSUME NEW x \in Entries PROVE h[x] = <<>>
    BY DEF Leaves
  <2>1. x \in Nodes
    BY DEF Entries
  <2> QED BY <1>0, <1>3, <1>4, <2>1
<1>14. Planted(h)
  <2> DEFINE T == Subtree(h, Root)
  <2>1. Root \in T /\ Closed(h, T)
    BY <1>0, <1>5, <1>9, SubtreeClosed
  <2> HIDE DEF T
  <2>2. l \in T
    <3>1. l \in Set(h[Root])
      BY <1>0, <1>4, <1>6
    <3> QED BY <2>1, <3>1 DEF Closed, Children
  <2>3. \A x \in Nodes : h[x] # <<>> => x \in T
    BY <1>4, <2>1, <2>2
  <2> QED BY <2>3 DEF Planted, T
<1>15. Grows(rank, h)
  BY <1>5, <1>9, <1>10, <1>11, <1>12, <1>13, <1>14 DEF Grows
<1>16. Set(h[Root]) = {l} /\ Root \notin New(l)
  BY <1>0, <1>1, <1>4, <1>6
<1>17. \A x \in Nodes \ ({Root} \union New(l)) : h[x] = <<>>
  BY <1>1, <1>4
<1> QED BY <1>15, <1>16, <1>17 DEF h

LEMMA RemoveGrows ==
  ASSUME NEW rank \in [Nodes -> 0 .. MaxDepth], Grows(rank, kids),
         NEW j \in Nat, NEW n \in FloorOf(kids, j), n \in Entries
  PROVE  LET h == Remove(kids, n)
         IN /\ Grows(rank, h)
            /\ \A x \in Nodes : Set(h[x]) = Set(kids[x]) \ {n}
            /\ \A d \in Nat : FloorOf(kids, d) \ {n} \subseteq FloorOf(h, d)
<1> DEFINE h == Remove(kids, n)
           p == Parent(n)
           i == Place(n)
           s == kids[p]
           t == SubSeq(s, 1, i - 1) \o SubSeq(s, i + 1, Len(s))
<1>0. n # Root /\ kids \in [Nodes -> Seq(Nodes)] /\ n \in Nodes /\ kids[n] = <<>> /\ Root \in Nodes
  BY TreeAssumption DEF Entries, Grows, Leaves
<1>1. p \in Nodes /\ n \in Set(s)
  BY <1>0, FloorParent
<1>2. Siblings(n) = s /\ i \in DOMAIN s /\ s[i] = n
  BY <1>0, FloorSibling DEF Siblings
<1>3. s # <<>>
  BY <1>0, <1>1, SetIs
<1>4. s \in Seq(Nodes) /\ Distinct(s) /\ i \in 1 .. Len(s)
  BY <1>0, <1>1, <1>2, LenProperties DEF Grows, OnePlace, Distinct
<1>5. Set(<<>>) = {} /\ <<>> \in Seq(Nodes)
  BY DEF Set
<1>6. Subtree(kids, n) = {n}
  <2>1. Closed(kids, {n})
    BY <1>0, <1>5 DEF Closed, Children
  <2>2. Subtree(kids, n) \subseteq {n}
    BY <1>0, <2>1, SubtreeLeast
  <2>3. n \in Subtree(kids, n)
    BY <1>0, SubtreeClosed DEF Grows
  <2> QED BY <2>2, <2>3
<1>7. \A x \in Nodes : h[x] = IF x = n THEN <<>> ELSE IF x = p THEN t ELSE kids[x]
  BY <1>6 DEF Remove
<1>8. h = [x \in Nodes |-> h[x]]
  BY DEF Remove
<1> HIDE DEF h, p, i, s
<1>9. t \in Seq(Nodes) /\ Set(t) = Set(s) \ {n} /\ Distinct(t)
  BY <1>2, <1>4, CutOut
<1> HIDE DEF t
<1>10. h \in [Nodes -> Seq(Nodes)]
  <2>1. \A x \in Nodes : h[x] \in Seq(Nodes)
    BY <1>0, <1>5, <1>7, <1>9
  <2> QED BY <1>8, <2>1
<1>11. \A x \in Nodes : Set(h[x]) = Set(kids[x]) \ {n}
  <2> SUFFICES ASSUME NEW x \in Nodes PROVE Set(h[x]) = Set(kids[x]) \ {n}
    OBVIOUS
  <2>1. CASE x = n
    BY <1>0, <1>5, <1>7, <2>1
  <2>2. CASE x # n /\ x = p
    BY <1>7, <1>9, <2>2 DEF s
  <2>3. CASE x # n /\ x # p
    <3>1. n \notin Set(kids[x])
      BY <1>1, <2>3 DEF Grows, OneParent, s
    <3> QED BY <1>7, <2>3, <3>1
  <2> QED BY <2>1, <2>2, <2>3
<1>12. Falling(rank, h) /\ OneParent(h) /\ RootOnTop(h)
  BY <1>11 DEF Grows, Falling, OneParent, RootOnTop
<1>13. OnePlace(h)
  <2>1. \A x \in Nodes : Distinct(kids[x])
    BY DEF Grows, OnePlace, Distinct
  <2>2. Distinct(<<>>)
    BY DEF Distinct
  <2>3. \A x \in Nodes : Distinct(h[x])
    BY <1>7, <1>9, <2>1, <2>2
  <2> QED BY <2>3 DEF OnePlace, Distinct
<1>14. \A x \in Nodes : h[x] # <<>> => kids[x] # <<>>
  BY <1>3, <1>7 DEF s
<1>15. Leaves(h)
  BY <1>14 DEF Grows, Leaves, Entries
<1> DEFINE T == Subtree(h, Root)
<1>16. Root \in T /\ Closed(h, T) /\ T \in SUBSET Nodes
  BY <1>0, <1>10, <1>12, SubtreeClosed
<1> HIDE DEF T
<1>17. Closed(kids, T \union {n})
  <2> SUFFICES ASSUME NEW x \in T \union {n}, NEW c \in Set(kids[x]), c # n PROVE c \in T
    BY DEF Closed, Children
  <2>1. x # n
    BY <1>0, <1>5
  <2>2. x \in Nodes /\ x \in T
    BY <1>16, <2>1
  <2>3. c \in Set(h[x])
    BY <1>11, <2>2
  <2> QED BY <1>16, <2>2, <2>3 DEF Closed, Children
<1>18. Subtree(kids, Root) \subseteq T \union {n}
  <2>1. T \union {n} \in SUBSET Nodes /\ Root \in T \union {n}
    BY <1>0, <1>16
  <2> QED BY <1>0, <1>17, <2>1, SubtreeLeast
<1>19. Planted(h)
  <2> SUFFICES ASSUME NEW x \in Nodes, h[x] # <<>> PROVE x \in T
    BY DEF Planted, T
  <2>1. x \in Subtree(kids, Root)
    BY <1>14 DEF Grows, Planted
  <2>2. x # n
    BY <1>7
  <2> QED BY <1>18, <2>1, <2>2
<1>20. Grows(rank, h)
  BY <1>10, <1>12, <1>13, <1>15, <1>19 DEF Grows
<1>21. \A d \in Nat : FloorOf(kids, d) \ {n} \subseteq FloorOf(h, d)
  <2> DEFINE B == {d \in Nat : ~(FloorOf(kids, d) \ {n} \subseteq FloorOf(h, d))}
  <2>1. SUFFICES ASSUME B # {} PROVE FALSE
    OBVIOUS
  <2>2. PICK d \in B : \A m \in B : d <= m
    BY <2>1, LeastNatural
  <2>3. PICK c \in FloorOf(kids, d) : d \in Nat /\ c # n /\ c \notin FloorOf(h, d)
    OBVIOUS
  <2>4. d # 0
    BY <1>0, <1>10, <2>3, FloorIs
  <2>5. d - 1 \in Nat /\ ~(d <= d - 1) /\ (d - 1) + 1 = d
    BY <2>3, <2>4
  <2>6. FloorOf(kids, d - 1) \ {n} \subseteq FloorOf(h, d - 1)
    BY <2>2, <2>5
  <2>7. /\ FloorOf(kids, d) = Children(kids, FloorOf(kids, d - 1)) /\ FloorOf(kids, d - 1) \in SUBSET Nodes
        /\ FloorOf(h, d) = Children(h, FloorOf(h, d - 1))
    BY <1>0, <1>10, <2>5, FloorIs
  <2>8. PICK q \in FloorOf(kids, d - 1) : c \in Set(kids[q]) /\ q \in Nodes
    BY <2>3, <2>7 DEF Children
  <2>9. q # n
    BY <1>0, <1>5, <2>8
  <2>10. c \in Set(h[q]) /\ q \in FloorOf(h, d - 1)
    BY <1>11, <2>3, <2>6, <2>8, <2>9
  <2> QED BY <2>3, <2>7, <2>10 DEF Children
<1> QED BY <1>11, <1>20, <1>21 DEF h

----------------------------------------------------------------------------
\* Of some rank, playlists are not empty and fit below their parent, and command
\* lines are trees.
FitLists(rank) ==
  /\ \A n \in Nodes : ListOf[n] # NoNode => rank[ListOf[n]] <= rank[n]
  /\ \A n \in Entries : Kind[n] = "list" => ListOf[n] # NoNode

WellGrownBy(rank) ==
  /\ \A n \in Nodes \ {Root} : rank[n] < rank[Root]
  /\ FitLists(rank) /\ FitContent(rank)
  /\ \A t \in Trees : GrownBy(rank, t)
WellGrown == \E rank \in [Nodes -> 0 .. MaxDepth] : WellGrownBy(rank)
Rank == CHOOSE rank \in [Nodes -> 0 .. MaxDepth] : WellGrownBy(rank)

LEMMA RankIs == WellGrown => Rank \in [Nodes -> 0 .. MaxDepth] /\ WellGrownBy(Rank)
  BY DEF WellGrown, Rank

----------------------------------------------------------------------------
\* What IteratorInTree rests on.
StandsIn(k, i) == i.tree \in FloorOf(k, Len(i.stack))
Stands ==
  Live => \/ /\ iter.tree = NoNode /\ iter.stack = <<>> /\ pc = "call"
             /\ call = Called("step", 0, FALSE, "real", "started")
          \/ StandsIn(kids, iter)
Opening == pc = "open" => iter.tree \in Entries
Calls ==
  /\ DOMAIN call = DOMAIN NoCall
  /\ pc \notin {"emptied", "emptied2"} /\ call.then \notin {"emptied", "emptied2", "open"}
  /\ call.then \in {"rewound", "replaced"} => Real
  /\ Calling("down") /\ Real => kids[iter.tree] # <<>>

\* A rewind goes up from lists to the root and stays at a list where a step ends.
NewAt(k, n) == Subtree(Grown(k, n), n) \intersect Subtree(k, Root) = {}
Climbs(fn, d, k, n) == d = 0 /\ (fn = "up" \/ (fn = "step" /\ k[n] # <<>>))
Rewinds ==
  /\ pc = "call" /\ call.then = "rewound" => call.nodes /\ Climbs(call.fn, call.d, kids, iter.tree)
  /\ pc = "rewound" /\ res = "end" => iter.tree = Root
  /\ pc = "rewound" \/ (pc = "call" /\ call.then = "rewound") =>
       old \in Nodes /\ NewAt(kids, old) /\ (rnd[Root] => Media(old))

\* The step from a playlist goes to the list after it and into that.
NotLast(k, n) == \E p \in Nodes : \E i \in DOMAIN k[p] : k[p][i] = n /\ i + 1 \in DOMAIN k[p]
Passes(fn, d, k, i, n, j) ==
  \/ fn = "step" /\ d = 1 /\ i.tree = n /\ NotLast(k, n)
  \/ fn = "down" /\ Len(i.stack) >= j
  \/ fn = "step" /\ d = 0 /\ Len(i.stack) > j
Replaces ==
  /\ pc = "replaced" \/ (pc = "call" /\ call.then = "replaced") =>
       old \in Entries /\ Kind[old] = "list" /\ \E j \in Nat : old \in FloorOf(kids, j)
  /\ pc = "call" /\ call.then = "replaced" =>
       /\ ~call.nodes
       /\ \A j \in Nat : old \in FloorOf(kids, j) => Passes(call.fn, call.d, kids, iter, old, j)
  /\ pc = "replaced" /\ res = "entry" => iter.tree # old

TreeInv ==
  /\ Grows(Rank, kids) /\ Calm(kids, rnd, sends)
  /\ Stands /\ Opening /\ Calls /\ Rewinds /\ Replaces

SameTree == kids' = kids /\ rnd' = rnd /\ sends' = sends /\ old' = old

LEMMA CallFields == DOMAIN NoCall = {"fn", "d", "nodes", "who", "then"}
  BY DEF NoCall, Called

LEMMA OneFloor ==
  ASSUME Grows(Rank, kids), NEW i \in Nat, NEW j \in Nat, NEW n \in FloorOf(kids, i), n \in FloorOf(kids, j)
  PROVE  i = j
<1>1. i < j => FloorOf(kids, i) \cap FloorOf(kids, j) = {}
  BY FloorsApart DEF Grows
<1>2. j < i => FloorOf(kids, j) \cap FloorOf(kids, i) = {}
  BY FloorsApart DEF Grows
<1> QED BY <1>1, <1>2

\* The three ways a step of the iterator ends.
LEMMA AfterReturn ==
  ASSUME TreeInv, Real, pc = "call", SameTree, NEW r, Return(r), StandsIn(kids, iter'),
         call.then = "rewound" /\ r = "end" => iter'.tree = Root,
         call.then = "replaced" /\ r = "entry" => iter'.tree # old
  PROVE  TreeInv'
<1>1. call' = NoCall /\ pc' = call.then /\ res' = r /\ NoCall.then = "none" /\ NoCall.fn = "none"
  BY DEF Return, NoCall, Called
<1>2. Grows(Rank, kids)' /\ Calm(kids, rnd, sends)'
  BY DEF TreeInv, SameTree
<1>3. Stands' /\ Opening'
  BY <1>1 DEF TreeInv, Stands, Opening, SameTree, Calls
<1>4. Calls'
  BY <1>1 DEF TreeInv, Calls, Calling
<1>5. Rewinds'
  BY <1>1 DEF TreeInv, Rewinds, SameTree
<1>6. Replaces'
  BY <1>1 DEF TreeInv, Replaces, SameTree
<1> QED BY <1>2, <1>3, <1>4, <1>5, <1>6 DEF TreeInv

LEMMA AfterAgain ==
  ASSUME TreeInv, Real, pc = "call", SameTree, NEW fn, NEW d, Again(fn, d), StandsIn(kids, iter'),
         fn = "down" => kids[iter'.tree] # <<>>,
         call.then = "rewound" => Climbs(fn, d, kids, iter'.tree),
         call.then = "replaced" => \A j \in Nat : old \in FloorOf(kids, j) => Passes(fn, d, kids, iter', old, j)
  PROVE  TreeInv'
<1>1. /\ DOMAIN call' = DOMAIN NoCall /\ call'.fn = fn /\ call'.d = d /\ call'.nodes = call.nodes
      /\ call'.who = call.who /\ call'.then = call.then /\ pc' = pc /\ res' = res
  BY CallFields DEF TreeInv, Calls, Again
<1>2. Grows(Rank, kids)' /\ Calm(kids, rnd, sends)'
  BY DEF TreeInv, SameTree
<1>3. Stands' /\ Opening'
  BY <1>1 DEF Stands, Opening, SameTree
<1>4. Calls'
  BY <1>1 DEF TreeInv, Calls, Calling, Real, SameTree
<1>5. Rewinds'
  BY <1>1 DEF TreeInv, Rewinds, SameTree
<1>6. Replaces'
  BY <1>1 DEF TreeInv, Replaces, SameTree
<1> QED BY <1>2, <1>3, <1>4, <1>5, <1>6 DEF TreeInv

LEMMA AfterCrash ==
  ASSUME TreeInv, SameTree, pc' = "crash", UNCHANGED <<call, res>>, StandsIn(kids, iter')
  PROVE  TreeInv'
<1>1. Grows(Rank, kids)' /\ Calm(kids, rnd, sends)'
  BY DEF TreeInv, SameTree
<1>2. Stands' /\ Opening' /\ Rewinds' /\ Replaces'
  BY DEF Stands, Opening, SameTree, Rewinds, Replaces
<1>3. Calls'
  BY DEF TreeInv, Calls, Calling, Real
<1> QED BY <1>1, <1>2, <1>3 DEF TreeInv

----------------------------------------------------------------------------
\* Where a step of the iterator goes.
LEMMA LeftFields ==
  ASSUME LevelsInv, Live, Real
  PROVE  /\ Left.tree = iter.tree /\ Left.stack = iter.stack
         /\ Left.rnd = (iter.tree # Root /\ rnd[Parent(iter.tree)])
         /\ DOMAIN Left = DOMAIN NewIter
<1>1. It = iter /\ Left = LeftAt(iter) /\ DOMAIN iter = DOMAIN NewIter
  BY DEF It, Left, LevelsInv, IsIter
<1> QED BY <1>1, Fields DEF LeftAt, IsIter, LevelsInv

LEMMA StackIs == LevelsInv => Len(iter.stack) \in Nat
  BY LenProperties DEF LevelsInv, IsIter

LEMMA ShuffledIsMedia ==
  ASSUME LevelsInv, TreeInv, Live, Real, StandsIn(kids, iter), Left.rnd
  PROVE  Media(iter.tree)
<1>1. iter.tree # Root /\ rnd[Parent(iter.tree)]
  BY LeftFields
<1>2. Parent(iter.tree) \in Nodes /\ iter.tree \in Set(kids[Parent(iter.tree)])
  BY <1>1, StackIs, FloorParent DEF TreeInv, StandsIn
<1> QED BY <1>1, <1>2 DEF TreeInv, Calm

LEMMA ChoicesStand ==
  ASSUME LevelsInv, TreeInv, Live, Real, StandsIn(kids, iter), NEW d, NEW n \in Choices(d)
  PROVE  n \in FloorOf(kids, Len(iter.stack)) /\ n \in Nodes
<1>1. It = iter
  BY DEF It
<1>2. n \in Set(Siblings(iter.tree))
  <2>1. n \in Set(Siblings(iter.tree)) \/ n \in NthFrom(iter.tree, d)
    BY <1>1 DEF Choices
  <2> QED BY <2>1, StackIs, FloorSibling DEF TreeInv, StandsIn
<1>3. n \in FloorOf(kids, Len(iter.stack))
  BY <1>2, StackIs, FloorSibling DEF TreeInv, StandsIn
<1> QED BY <1>3, StackIs, FloorIs DEF TreeInv, Grows

\* A step by 0 finds the node it is at, and a step by 1 the one after it.
LEMMA StayChoice ==
  ASSUME LevelsInv, TreeInv, Live, Real, StandsIn(kids, iter), ~Left.rnd
  PROVE  Choices(0) = {iter.tree}
<1>1. Choices(0) = NthFrom(iter.tree, 0)
  BY DEF Choices, It
<1>2. Place(iter.tree) \in DOMAIN Siblings(iter.tree) /\ Siblings(iter.tree)[Place(iter.tree)] = iter.tree
      /\ Siblings(iter.tree) \in Seq(Nodes)
  BY StackIs, FloorSibling DEF TreeInv, StandsIn
<1>3. Place(iter.tree) \in Int /\ Place(iter.tree) + 0 = Place(iter.tree)
  BY <1>2, LenProperties
<1> QED BY <1>1, <1>2, <1>3 DEF NthFrom

LEMMA NextChoice ==
  ASSUME LevelsInv, TreeInv, Live, Real, StandsIn(kids, iter), ~Left.rnd, iter.tree # Root,
         NotLast(kids, iter.tree)
  PROVE  Choices(1) # {} /\ iter.tree \notin Choices(1)
<1> DEFINE n == iter.tree
           s == Siblings(n)
           a == Place(n)
<1>1. Choices(1) = NthFrom(n, 1)
  BY DEF Choices, It
<1>2. a \in DOMAIN s /\ s[a] = n /\ s \in Seq(Nodes)
  BY StackIs, FloorSibling DEF TreeInv, StandsIn
<1>3. PICK p \in Nodes : \E i \in DOMAIN kids[p] : kids[p][i] = n /\ i + 1 \in DOMAIN kids[p]
  BY DEF NotLast
<1>4. PICK i \in DOMAIN kids[p] : kids[p][i] = n /\ i + 1 \in DOMAIN kids[p]
  BY <1>3
<1>5. Parent(n) = p
  <2>1. n \in Set(kids[p])
    BY <1>4 DEF Set
  <2> QED BY <2>1, ParentIs DEF TreeInv
<1>6. s = kids[p]
  BY <1>5 DEF Siblings
<1> HIDE DEF a, s, n
<1>7. a = i
  BY <1>2, <1>4, <1>6 DEF TreeInv, Grows, OnePlace, Distinct
<1>8. NthFrom(n, 1) = {s[a + 1]} /\ a + 1 \in DOMAIN s
  BY <1>4, <1>6, <1>7 DEF NthFrom, s, a
<1>9. a \in Int /\ a + 1 # a
  BY <1>2, LenProperties
<1>10. s[a + 1] # n
  BY <1>2, <1>6, <1>8, <1>9 DEF TreeInv, Grows, OnePlace, Distinct
<1> QED BY <1>1, <1>8, <1>10 DEF n

\* A rewind, and the step from a playlist, always find a node.
LEMMA NotStuck ==
  ASSUME LevelsInv, TreeInv, Live, Real, StandsIn(kids, iter), Calling("step"), ~Left.rnd,
         call.then \in {"rewound", "replaced"}
  PROVE  Choices(call.d) # {}
<1>1. CASE call.d = 0
  BY <1>1, StayChoice
<1>2. CASE call.d # 0
  <2>1. call.then = "replaced" /\ pc = "call"
    BY <1>2 DEF TreeInv, Rewinds, Climbs, Calling
  <2>2. old \in Entries /\ call.d = 1 /\ iter.tree = old /\ NotLast(kids, old)
    BY <1>2, <2>1 DEF TreeInv, Replaces, Passes, Calling
  <2>3. old # Root
    BY <2>2, TreeAssumption DEF Entries
  <2> QED BY <2>2, <2>3, NextChoice
<1> QED BY <1>1, <1>2

LEMMA NotNode ==
  ASSUME TreeInv, NEW j \in Nat PROVE NoNode \notin FloorOf(kids, j)
<1>1. FloorOf(kids, j) \in SUBSET Nodes
  BY FloorIs DEF TreeInv, Grows
<1> QED BY <1>1, TreeAssumption

\* The playlist that is being replaced, and how far the step from it is.
LEMMA ReplacedIs ==
  ASSUME TreeInv, pc = "call", call.then = "replaced"
  PROVE  /\ old \in Entries /\ old # Root /\ ~Media(old) /\ ~call.nodes
         /\ \E j \in Nat : old \in FloorOf(kids, j) /\ Passes(call.fn, call.d, kids, iter, old, j)
         /\ \A i \in Nat, j \in Nat : old \in FloorOf(kids, i) /\ old \in FloorOf(kids, j) => i = j
<1>1. /\ old \in Entries /\ Kind[old] = "list" /\ ~call.nodes
      /\ \E j \in Nat : old \in FloorOf(kids, j)
      /\ \A j \in Nat : old \in FloorOf(kids, j) => Passes(call.fn, call.d, kids, iter, old, j)
  BY DEF TreeInv, Replaces
<1>2. old # Root /\ ~Media(old)
  BY <1>1, TreeAssumption DEF Entries, Media
<1>3. \A i \in Nat, j \in Nat : old \in FloorOf(kids, i) /\ old \in FloorOf(kids, j) => i = j
  BY OneFloor DEF TreeInv
<1> QED BY <1>1, <1>2, <1>3

\* The same, of a step that is at a node.
LEMMA PassingStep ==
  ASSUME LevelsInv, TreeInv, Live, Real, StandsIn(kids, iter), Calling("step"), call.then = "replaced"
  PROVE  \/ call.d = 1 /\ iter.tree = old /\ ~Left.rnd /\ NotLast(kids, old) /\ old \in FloorOf(kids, Len(iter.stack))
         \/ call.d = 0 /\ \A j \in Nat : old \in FloorOf(kids, j) => Len(iter.stack) > j
<1>1. PICK j \in Nat : old \in FloorOf(kids, j) /\ Passes(call.fn, call.d, kids, iter, old, j)
  BY ReplacedIs DEF Calling
<1>2. CASE call.d = 1 /\ iter.tree = old /\ NotLast(kids, old)
  <2>1. ~Left.rnd
    BY <1>2, ShuffledIsMedia, ReplacedIs DEF Calling
  <2> QED BY <1>2, <2>1 DEF StandsIn
<1>3. CASE call.d = 0 /\ Len(iter.stack) > j
  BY <1>1, <1>3, ReplacedIs DEF Calling
<1> QED BY <1>1, <1>2, <1>3 DEF Passes, Calling

LEMMA RestIs == Rest(0) = 0 /\ \A n \in Choices(1) : Rest(1) = 1
  BY DEF Rest, Sign

LEMMA SteppingFrom ==
  ASSUME LevelsInv, TreeInv, Real, Stepping
  PROVE  pc = "call" /\ Live /\ It = iter /\ StandsIn(kids, iter) /\ Calling("step")
  BY DEF TreeInv, Stands, Stepping, Calling, Live, It

LEMMA RealEnter ==
  ASSUME LevelsInv, TreeInv, Real, StepEnter
  PROVE  TreeInv'
<1>1. It = iter /\ pc = "call" /\ iter.tree = NoNode /\ SameTree /\ Again("step", 0)
      /\ iter' = [iter EXCEPT !.tree = Root]
  BY DEF StepEnter, It, SetIt, Calling, Outside, player, SameTree
<1>2. ~StandsIn(kids, iter)
  BY <1>1, NotNode, StackIs DEF StandsIn
<1>3. iter.stack = <<>> /\ call.then = "started"
  BY <1>1, <1>2 DEF TreeInv, Stands, Live, Called
<1>4. iter'.tree = Root /\ iter'.stack = <<>>
  BY <1>1, <1>3, Fields DEF LevelsInv, IsIter
<1>5. StandsIn(kids, iter')
  BY <1>4, FloorIs DEF StandsIn, TreeInv, Grows
<1> QED BY <1>1, <1>3, <1>5, AfterAgain

LEMMA RealRoundOver ==
  ASSUME LevelsInv, TreeInv, Real, StepRoundOver
  PROVE  TreeInv'
<1>0. Stepping
  BY DEF StepRoundOver
<1>1. pc = "call" /\ Live /\ StandsIn(kids, iter) /\ Calling("step")
  BY <1>0, SteppingFrom
<1>2. iter' = Left /\ SameTree /\ Left.rnd
  BY DEF StepRoundOver, SetIt, Outside, player, SameTree
<1>3. StandsIn(kids, iter')
  BY <1>1, <1>2, LeftFields DEF StandsIn
<1>4. Media(iter.tree)
  BY <1>1, <1>2, ShuffledIsMedia
<1>5. call.then # "rewound"
  <2>1. kids[iter.tree] = <<>>
    BY <1>4 DEF Media, TreeInv, Grows, Leaves
  <2> QED BY <1>1, <2>1 DEF TreeInv, Rewinds, Climbs, Calling
<1>6. call.then = "replaced" => \A j \in Nat : old \in FloorOf(kids, j) => Passes("step", 0, kids, iter', old, j)
  <2> SUFFICES ASSUME call.then = "replaced", NEW j \in Nat, old \in FloorOf(kids, j)
               PROVE  Len(iter.stack) > j
    BY <1>1, <1>2, LeftFields DEF Passes
  <2> QED BY <1>1, <1>2, PassingStep
<1>7. Return("end") \/ Again("step", 0)
  BY DEF StepRoundOver
<1>8. CASE Return("end")
  BY <1>1, <1>2, <1>3, <1>5, <1>8, AfterReturn
<1>9. CASE Again("step", 0)
  BY <1>1, <1>2, <1>3, <1>5, <1>6, <1>9, AfterAgain
<1> QED BY <1>7, <1>8, <1>9

LEMMA RealAround ==
  ASSUME LevelsInv, TreeInv, Real, StepAround \/ StepUp
  PROVE  TreeInv'
<1>0. Stepping /\ ~Left.rnd /\ Choices(call.d) = {}
  BY DEF StepAround, StepUp
<1>1. pc = "call" /\ Live /\ StandsIn(kids, iter) /\ Calling("step") /\ It = iter
  BY <1>0, SteppingFrom
<1>2. SameTree
  BY DEF StepAround, StepUp, Outside, player, SameTree
<1>3. call.then \notin {"rewound", "replaced"}
  BY <1>0, <1>1, NotStuck
<1>4. CASE StepUp
  <2>1. iter' = Left /\ Again("up", Rest(call.d))
    BY <1>4 DEF StepUp, SetIt
  <2>2. StandsIn(kids, iter')
    BY <1>1, <2>1, LeftFields DEF StandsIn
  <2> QED BY <1>1, <1>2, <1>3, <2>1, <2>2, AfterAgain
<1>5. CASE StepAround
  <2> DEFINE s == Siblings(iter.tree)
  <2>1. iter' = Around(call.d) /\ Again("step", 0)
    BY <1>5 DEF StepAround, SetIt
  <2>2. iter'.stack = iter.stack /\ iter'.tree \in {s[1], s[Len(s)]}
    BY <1>1, <2>1, LeftFields, Fields DEF Around
  <2>3. s \in Seq(Nodes) /\ Place(iter.tree) \in DOMAIN s /\ \A m \in Set(s) : m \in FloorOf(kids, Len(iter.stack))
    BY <1>1, StackIs, FloorSibling DEF TreeInv, StandsIn
  <2>4. 1 \in DOMAIN s /\ Len(s) \in DOMAIN s
    <3> HIDE DEF s
    <3> QED BY <2>3, LenProperties
  <2>5. iter'.tree \in Set(s)
    BY <2>2, <2>4 DEF Set
  <2>6. StandsIn(kids, iter')
    BY <2>2, <2>3, <2>5 DEF StandsIn
  <2> QED BY <1>1, <1>2, <1>3, <2>1, <2>6, AfterAgain
<1> QED BY <1>4, <1>5

LEMMA RealList ==
  ASSUME LevelsInv, TreeInv, Real, NEW n \in Nodes, StepList(n)
  PROVE  TreeInv'
<1>0. Stepping /\ n \in Choices(call.d) /\ kids[n] # <<>>
  BY DEF StepList, IsList
<1>1. pc = "call" /\ Live /\ StandsIn(kids, iter) /\ Calling("step") /\ It = iter
  BY <1>0, SteppingFrom
<1>2. SameTree /\ iter' = [Left EXCEPT !.tree = n]
  BY DEF StepList, SetIt, Outside, player, SameTree
<1>3. iter'.tree = n /\ iter'.stack = iter.stack
  BY <1>1, <1>2, LeftFields, Fields
<1>4. StandsIn(kids, iter')
  BY <1>0, <1>1, <1>3, ChoicesStand DEF StandsIn
<1>5. CASE call.nodes
  <2>1. Return("node")
    BY <1>5 DEF StepList
  <2> QED BY <1>1, <1>2, <1>4, <2>1, AfterReturn
<1>6. CASE ~call.nodes
  <2>1. Again("down", Rest(call.d))
    BY <1>6 DEF StepList
  <2>2. call.then # "rewound"
    BY <1>1, <1>6 DEF TreeInv, Rewinds
  <2>3. ASSUME call.then = "replaced", NEW j \in Nat, old \in FloorOf(kids, j)
        PROVE  Passes("down", Rest(call.d), kids, iter', old, j)
    <3>1. Len(iter.stack) \in Nat
      BY StackIs
    <3>2. CASE old \in FloorOf(kids, Len(iter.stack))
      <4>1. Len(iter.stack) = j
        BY <2>3, <3>1, <3>2, OneFloor DEF TreeInv
      <4> QED BY <1>3, <3>1, <4>1 DEF Passes
    <3>3. CASE Len(iter.stack) > j
      BY <1>3, <3>1, <3>3 DEF Passes
    <3> QED BY <1>1, <2>3, <3>2, <3>3, PassingStep
  <2> QED BY <1>0, <1>1, <1>2, <1>3, <1>4, <2>1, <2>2, <2>3, AfterAgain
<1> QED BY <1>5, <1>6

LEMMA RealInvalid ==
  ASSUME LevelsInv, TreeInv, Real, NEW n \in Nodes, StepInvalid(n)
  PROVE  TreeInv'
<1>0. Stepping /\ n \in Choices(call.d)
  BY DEF StepInvalid
<1>1. pc = "call" /\ Live /\ StandsIn(kids, iter) /\ Calling("step") /\ It = iter
  BY <1>0, SteppingFrom
<1>2. SameTree /\ iter' = Left
  BY DEF StepInvalid, SetIt, Outside, player, SameTree
<1>3. StandsIn(kids, iter') /\ iter'.tree = iter.tree
  BY <1>1, <1>2, LeftFields DEF StandsIn
<1>4. CASE Valid(kids, n)
  <2>1. pc' = "crash" /\ UNCHANGED <<call, res>>
    BY <1>4 DEF StepInvalid
  <2> QED BY <1>2, <1>3, <2>1, AfterCrash
<1>5. CASE ~Valid(kids, n) /\ Rest(call.d) = 0
  <2>1. Return("error")
    BY <1>5 DEF StepInvalid
  <2> QED BY <1>1, <1>2, <1>3, <2>1, AfterReturn
<1>6. CASE ~Valid(kids, n) /\ Rest(call.d) # 0
  <2>1. Again("step", Rest(call.d))
    BY <1>6 DEF StepInvalid
  <2>2. call.d # 0
    BY <1>6, RestIs
  <2>3. call.then # "rewound"
    BY <1>1, <2>2 DEF TreeInv, Rewinds, Climbs
  <2>4. ASSUME call.then = "replaced", NEW j \in Nat, old \in FloorOf(kids, j)
        PROVE  Passes("step", Rest(call.d), kids, iter', old, j)
    <3>1. call.d = 1 /\ iter.tree = old /\ NotLast(kids, old)
      BY <1>1, <2>2, <2>4, PassingStep
    <3>2. Rest(call.d) = 1
      BY <1>0, <3>1, RestIs
    <3> QED BY <1>3, <3>1, <3>2 DEF Passes
  <2> QED BY <1>1, <1>2, <1>3, <2>1, <2>3, <2>4, AfterAgain
<1> QED BY <1>4, <1>5, <1>6

LEMMA RealEntry ==
  ASSUME LevelsInv, TreeInv, Real, NEW n \in Nodes, StepEntry(n)
  PROVE  TreeInv'
<1>0. Stepping /\ n \in Choices(call.d) /\ Return("entry")
  BY DEF StepEntry
<1>1. pc = "call" /\ Live /\ StandsIn(kids, iter) /\ Calling("step") /\ It = iter
  BY <1>0, SteppingFrom
<1>2. SameTree /\ iter' = AtEntry(n)
  BY DEF StepEntry, SetIt, Outside, player, SameTree
<1>3. iter'.tree = n /\ iter'.stack = iter.stack
  BY <1>1, <1>2, LeftFields, Fields DEF AtEntry
<1>4. n \in FloorOf(kids, Len(iter.stack))
  BY <1>0, <1>1, ChoicesStand
<1>5. StandsIn(kids, iter')
  BY <1>3, <1>4 DEF StandsIn
<1>6. ASSUME call.then = "replaced" PROVE n # old
  <2>1. Len(iter.stack) \in Nat /\ old # Root
    BY <1>1, <1>6, StackIs, ReplacedIs
  <2>2. CASE call.d = 1 /\ iter.tree = old /\ ~Left.rnd /\ NotLast(kids, old)
    <3>1. iter.tree \notin Choices(1)
      BY <1>1, <2>1, <2>2, NextChoice
    <3> QED BY <1>0, <2>2, <3>1
  <2>3. CASE \A j \in Nat : old \in FloorOf(kids, j) => Len(iter.stack) > j
    BY <1>4, <2>1, <2>3
  <2> QED BY <1>1, <1>6, <2>2, <2>3, PassingStep
<1> QED BY <1>0, <1>1, <1>2, <1>3, <1>5, <1>6, AfterReturn

LEMMA RealUpDown ==
  ASSUME LevelsInv, TreeInv, Real, UpEnd \/ UpStep \/ DownStep
  PROVE  TreeInv'
<1>1. pc = "call" /\ Live /\ It = iter /\ (Calling("up") \/ Calling("down")) /\ SameTree
  BY DEF UpEnd, UpStep, DownStep, Calling, Live, It, Outside, player, SameTree
<1>2. StandsIn(kids, iter)
  BY <1>1 DEF TreeInv, Stands, Calling, Called
<1>3. Len(iter.stack) \in Nat /\ iter.stack \in Seq(Range(iter.stack)) /\ DOMAIN iter = DOMAIN NewIter
  BY StackIs DEF LevelsInv, IsIter
<1>4. CASE UpEnd
  <2>1. iter' = [iter EXCEPT !.file = -1] /\ iter.tree = Root /\ Return("end")
    BY <1>1, <1>4 DEF UpEnd, SetIt
  <2>2. iter'.tree = Root /\ iter'.stack = iter.stack
    BY <1>3, <2>1, Fields
  <2>3. StandsIn(kids, iter')
    BY <1>2, <2>1, <2>2 DEF StandsIn
  <2> QED BY <1>1, <2>1, <2>2, <2>3, AfterReturn
<1>5. CASE UpStep
  <2>1. iter' = Above(iter) /\ iter.tree # Root /\ iter.stack # <<>> /\ Again("step", call.d) /\ call.fn = "up"
    BY <1>1, <1>5 DEF UpStep, SetIt, Calling
  <2>2. iter'.tree = Parent(iter.tree) /\ iter'.stack = SubSeq(iter.stack, 1, Len(iter.stack) - 1)
    BY <1>3, <2>1, Fields DEF Above
  <2>3. Len(iter'.stack) = Len(iter.stack) - 1
    BY <1>3, <2>1, <2>2, Shortened
  <2>4. Parent(iter.tree) \in FloorOf(kids, Len(iter.stack) - 1) /\ iter.tree \in Set(kids[Parent(iter.tree)])
        /\ Parent(iter.tree) \in Nodes
    BY <1>2, <1>3, <2>1, FloorParent DEF StandsIn, TreeInv
  <2>5. StandsIn(kids, iter')
    BY <2>2, <2>3, <2>4 DEF StandsIn
  <2>6. kids[iter'.tree] # <<>>
    BY <2>2, <2>4, SetIs DEF TreeInv, Grows
  <2>7. call.then = "rewound" => Climbs("step", call.d, kids, iter'.tree)
    BY <1>1, <2>6 DEF TreeInv, Rewinds, Climbs
  <2>8. call.then # "replaced"
    BY <1>1, <2>1, ReplacedIs DEF Passes
  <2> QED BY <1>1, <2>1, <2>5, <2>7, <2>8, AfterAgain
<1>6. CASE DownStep
  <2> DEFINE s == kids[iter.tree]
  <2>1. iter' = Below(iter, call.d) /\ Again("step", 0) /\ call.fn = "down" /\ Calling("down")
    BY <1>1, <1>6 DEF DownStep, SetIt, Calling
  <2>2. iter'.stack = Append(iter.stack, iter.loop) /\ iter'.tree \in {s[1], s[Len(s)]}
    BY <1>3, <2>1, Fields DEF Below
  <2>3. Len(iter'.stack) = Len(iter.stack) + 1
    BY <1>3, <2>2, Appended
  <2>4. s # <<>> /\ s \in Seq(Nodes)
    <3>1. iter.tree \in Nodes
      BY <1>2, <1>3, FloorIs DEF StandsIn, TreeInv, Grows
    <3> QED BY <2>1, <3>1 DEF TreeInv, Calls, Grows
  <2>5. 1 \in DOMAIN s /\ Len(s) \in DOMAIN s
    <3> HIDE DEF s
    <3>1. Len(s) \in Nat /\ Len(s) # 0 /\ DOMAIN s = 1 .. Len(s)
      BY <2>4, EmptySeq, LenProperties
    <3> QED BY <3>1
  <2>6. iter'.tree \in Set(s)
    BY <2>2, <2>5 DEF Set
  <2>7. StandsIn(kids, iter')
    BY <1>2, <1>3, <2>3, <2>6, FloorChild DEF StandsIn, TreeInv
  <2>8. call.then # "rewound"
    BY <1>1, <2>1 DEF TreeInv, Rewinds, Climbs
  <2>9. ASSUME call.then = "replaced", NEW j \in Nat, old \in FloorOf(kids, j)
        PROVE  Passes("step", 0, kids, iter', old, j)
    <3>1. Len(iter.stack) >= j
      <4>1. Passes(call.fn, call.d, kids, iter, old, j)
        BY <1>1, <2>9 DEF TreeInv, Replaces
      <4> QED BY <2>1, <4>1 DEF Passes
    <3> QED BY <1>3, <2>3, <3>1 DEF Passes
  <2> QED BY <1>1, <2>1, <2>7, <2>8, <2>9, AfterAgain
<1> QED BY <1>4, <1>5, <1>6

\* A step of the copy leaves the player's iterator and tree alone.
LEMMA CopyKeepsTree ==
  ASSUME LevelsInv, TreeInv, ~Real, IterStep
  PROVE  TreeInv'
<1>1. iter' = iter /\ pc = "call"
  <2>1. pc = "call"
    BY DEF IterStep, StepEnter, StepRoundOver, StepAround, StepUp, StepList, StepInvalid, StepEntry,
         UpEnd, UpStep, DownStep, Stepping, Calling
  <2> QED BY <2>1, CopyStep
<1>2. SameTree
  BY DEF IterStep, StepEnter, StepRoundOver, StepAround, StepUp, StepList, StepInvalid, StepEntry,
         UpEnd, UpStep, DownStep, Outside, player, SameTree
<1>3. \/ \E fn, d : Again(fn, d)
      \/ \E r : Return(r)
      \/ pc' = "crash" /\ UNCHANGED <<call, res>>
  <2>1. ASSUME NEW n \in Nodes, StepList(n) \/ StepInvalid(n) \/ StepEntry(n)
        PROVE  \/ \E fn, d : Again(fn, d)
               \/ \E r : Return(r)
               \/ pc' = "crash" /\ UNCHANGED <<call, res>>
    BY <2>1 DEF StepList, StepInvalid, StepEntry
  <2>2. CASE StepEnter \/ StepRoundOver \/ StepAround \/ StepUp \/ UpEnd \/ UpStep \/ DownStep
    BY <2>2 DEF StepEnter, StepRoundOver, StepAround, StepUp, UpEnd, UpStep, DownStep
  <2> QED BY <2>1, <2>2 DEF IterStep
<1>4. StandsIn(kids, iter)
  BY <1>1 DEF TreeInv, Stands, Live, Real, Called
<1>5. call.then \notin {"rewound", "replaced"}
  BY DEF TreeInv, Calls
<1>6. Grows(Rank, kids)' /\ Calm(kids, rnd, sends)' /\ StandsIn(kids, iter)'
  BY <1>1, <1>2, <1>4 DEF TreeInv, SameTree, StandsIn
<1>7. ASSUME NEW fn, NEW d, Again(fn, d) PROVE TreeInv'
  <2>1. /\ DOMAIN call' = DOMAIN NoCall /\ call'.who = call.who /\ call'.then = call.then /\ pc' = pc /\ res' = res
    BY <1>7, CallFields DEF TreeInv, Calls, Again
  <2>2. Calls'
    BY <2>1, <1>5 DEF TreeInv, Calls, Calling, Real
  <2>3. Stands' /\ Opening' /\ Rewinds' /\ Replaces'
    BY <1>1, <1>5, <1>6, <2>1 DEF Stands, Opening, Rewinds, Replaces
  <2> QED BY <1>6, <2>2, <2>3 DEF TreeInv
<1>8. ASSUME NEW r, Return(r) PROVE TreeInv'
  <2>1. call' = NoCall /\ pc' = call.then /\ NoCall.then = "none" /\ NoCall.fn = "none"
    BY <1>8 DEF Return, NoCall, Called
  <2>2. Calls'
    BY <2>1 DEF TreeInv, Calls, Calling
  <2>3. Stands' /\ Opening' /\ Rewinds' /\ Replaces'
    BY <1>5, <1>6, <2>1 DEF TreeInv, Calls, Stands, Opening, Rewinds, Replaces
  <2> QED BY <1>6, <2>2, <2>3 DEF TreeInv
<1>9. ASSUME pc' = "crash", UNCHANGED <<call, res>> PROVE TreeInv'
  BY <1>2, <1>6, <1>9, AfterCrash DEF SameTree, StandsIn
<1> QED BY <1>3, <1>7, <1>8, <1>9

LEMMA IterStepInTree ==
  ASSUME LevelsInv, TreeInv, IterStep
  PROVE  TreeInv'
<1>1. CASE ~Real
  BY <1>1, CopyKeepsTree
<1>2. CASE Real
  <2>1. ASSUME NEW n \in Nodes, StepList(n) \/ StepInvalid(n) \/ StepEntry(n) PROVE TreeInv'
    BY <1>2, <2>1, RealList, RealInvalid, RealEntry
  <2>2. CASE StepEnter \/ StepRoundOver \/ StepAround \/ StepUp
    BY <1>2, <2>2, RealEnter, RealRoundOver, RealAround
  <2>3. CASE UpEnd \/ UpStep \/ DownStep
    BY <1>2, <2>3, RealUpDown
  <2> QED BY <2>1, <2>2, <2>3 DEF IterStep
<1> QED BY <1>1, <1>2

----------------------------------------------------------------------------
\* The player's steps.
LEMMA Standing ==
  ASSUME TreeInv, pc \notin {"call", "idle"} PROVE StandsIn(kids, iter)
  BY DEF TreeInv, Stands, Live

LEMMA NewIsNewAt == ASSUME NEW n PROVE IsNew(n) <=> NewAt(kids, n)
  BY DEF IsNew, NewAt, New, InTree

\* A step that calls no step of the iterator.
LEMMA QuietStep ==
  ASSUME TreeInv, Grows(Rank, kids'), Calm(kids', rnd', sends'), call' = call,
         pc' \notin {"call", "replaced", "rewound", "emptied", "emptied2"},
         pc' = "open" => iter'.tree \in Entries,
         pc' = "idle" \/ StandsIn(kids', iter')
  PROVE  TreeInv'
<1>1. Stands' /\ Opening' /\ Rewinds' /\ Replaces'
  BY DEF Stands, Opening, Rewinds, Replaces, Live
<1>2. Calls'
  BY DEF TreeInv, Calls, Calling, Real
<1> QED BY <1>1, <1>2 DEF TreeInv

\* A step that calls one, but for a rewind and for the step from a playlist.
LEMMA CallingStep ==
  ASSUME Grows(Rank, kids'), Calm(kids', rnd', sends'),
         NEW fn, NEW d, NEW nodes, NEW who, NEW then, Call(fn, d, nodes, who, then),
         fn # "down", then \notin {"replaced", "rewound", "emptied", "emptied2", "open"},
         StandsIn(kids', iter')
  PROVE  TreeInv'
<1>1. /\ pc' = "call" /\ call'.fn = fn /\ call'.then = then /\ DOMAIN call' = DOMAIN NoCall
  BY CallFields DEF Call, Called
<1>2. Stands' /\ Opening' /\ Rewinds' /\ Replaces' /\ Calls'
  BY <1>1 DEF Stands, Opening, Rewinds, Replaces, Calls, Calling
<1> QED BY <1>2 DEF TreeInv

LEMMA SourcesEntry ==
  ASSUME LevelsInv, TreeInv, StandsIn(kids, iter), NEW d, NEW f \in Sources(iter, d)
  PROVE  iter.tree \in Entries /\ [iter EXCEPT !.file = f].tree = iter.tree
         /\ StandsIn(kids, [iter EXCEPT !.file = f])
<1>1. iter.tree \in Nodes
  BY StackIs, FloorIs DEF StandsIn, TreeInv, Grows
<1>2. Files[iter.tree] \in Nat /\ Files[iter.tree] # 0
  BY <1>1, TreeAssumption DEF Sources
<1>3. [iter EXCEPT !.file = f].tree = iter.tree /\ [iter EXCEPT !.file = f].stack = iter.stack
  BY Fields DEF LevelsInv, IsIter
<1> QED BY <1>1, <1>2, <1>3 DEF Entries, StandsIn

LEMMA TreeAsItWas ==
  ASSUME TreeInv, UNCHANGED <<kids, rnd, sends>>
  PROVE  Grows(Rank, kids') /\ Calm(kids', rnd', sends')
  BY DEF TreeInv

\* The steps of the player that leave the tree as it is.
PlainGoing ==
  \/ Started \/ OpenFails \/ Opens \/ Tried \/ Headed \/ Stopping \/ NextFile \/ Stepped \/ GetFile
  \/ NextAgain

LEMMA PlainGoingInTree ==
  ASSUME LevelsInv, TreeInv, PlainGoing
  PROVE  TreeInv'
<1> USE DEF Leave, Went, Freed
<1>1. Grows(Rank, kids') /\ Calm(kids', rnd', sends') /\ kids' = kids
  <2>1. UNCHANGED <<kids, rnd, sends>>
    BY DEF PlainGoing, Started, OpenFails, Opens, Tried, Headed, Stopping, NextFile, Stepped, GetFile,
           NextAgain, Sent, tree
  <2> QED BY <2>1, TreeAsItWas
<1>2. StandsIn(kids, iter)
  <2>1. pc \notin {"call", "idle"}
    BY DEF PlainGoing, Started, OpenFails, Opens, Tried, Headed, Stopping, NextFile, Stepped, GetFile,
           NextAgain
  <2> QED BY <2>1, Standing
<1>3. CASE Started
  <2>1. CASE res = "entry"
    <3>1. PICK f \in Sources(iter, 1) : iter' = [iter EXCEPT !.file = f]
      BY <1>3, <2>1 DEF Started
    <3>2. iter'.tree \in Entries /\ StandsIn(kids, iter')
      BY <1>2, <3>1, SourcesEntry
    <3> QED BY <1>1, <1>3, <2>1, <3>2, QuietStep DEF Started
  <2>2. CASE res # "entry"
    BY <1>1, <1>3, <2>2, QuietStep DEF Started
  <2> QED BY <2>1, <2>2
<1>4. CASE OpenFails \/ Opens \/ Tried \/ Headed
  <2>1. iter' = iter /\ call' = call /\ pc' \in {"next", "play"}
    BY <1>4 DEF OpenFails, Opens, Tried, Headed
  <2> QED BY <1>1, <1>2, <2>1, QuietStep
<1>5. CASE Stopping
  <2>1. iter' = iter
    BY <1>5 DEF Stopping
  <2>2. CASE res # "end"
    <3>1. Call("up", 0, TRUE, "real", "stopping")
      BY <1>5, <2>2 DEF Stopping
    <3> QED BY <1>1, <1>2, <2>1, <3>1, CallingStep
  <2>3. CASE res = "end"
    BY <1>1, <1>2, <1>5, <2>1, <2>3, QuietStep DEF Stopping
  <2> QED BY <2>2, <2>3
<1>6. CASE NextFile
  <2>1. \/ Call("step", play_tree_step, FALSE, "real", "stepped") /\ iter' = iter
        \/ Call("up", eof', FALSE, "real", "upped") /\ iter' = iter
        \/ pc' = "idle" /\ call' = call
        \/ pc' = "file" /\ call' = call /\ iter' = iter
    BY <1>6 DEF NextFile
  <2> QED BY <1>1, <1>2, <2>1, CallingStep, QuietStep
<1>7. CASE Stepped \/ NextAgain
  <2>1. call' = call /\ ((pc' = "file" /\ iter' = iter) \/ pc' = "idle")
    BY <1>7 DEF Stepped, NextAgain
  <2> QED BY <1>1, <1>2, <2>1, QuietStep
<1>8. CASE GetFile
  <2>1. CASE Sources(iter, eof) # {}
    <3>1. PICK f \in Sources(iter, eof) : iter' = [iter EXCEPT !.file = f]
      BY <1>8, <2>1 DEF GetFile
    <3>2. iter'.tree \in Entries /\ StandsIn(kids, iter')
      BY <1>2, <3>1, SourcesEntry
    <3> QED BY <1>1, <1>8, <2>1, <3>2, QuietStep DEF GetFile
  <2>2. CASE Sources(iter, eof) = {}
    <3>1. Call("step", eof, FALSE, "real", "again") /\ iter' = iter
      BY <1>8, <2>2 DEF GetFile
    <3> QED BY <1>1, <1>2, <3>1, CallingStep
  <2> QED BY <2>1, <2>2
<1> QED BY <1>3, <1>4, <1>5, <1>6, <1>7, <1>8 DEF PlainGoing

----------------------------------------------------------------------------
\* The steps that change it.

\* A file takes the place of the tree, and the iterator that of the first step.
LEMMA ReplantCalm ==
  ASSUME WellGrown, TreeInv, NEW l \in Nodes, NewAt(kids, l), rnd[Root] => Media(l),
         Replant(l), sends' = sends
  PROVE  Grows(Rank, kids') /\ Calm(kids', rnd', sends')
<1>1. Rank \in [Nodes -> 0 .. MaxDepth] /\ FitContent(Rank) /\ \A n \in Nodes \ {Root} : Rank[n] < Rank[Root]
  BY RankIs DEF WellGrownBy, FitLists, GrownBy
<1>2. IsNew(l) /\ Grows(Rank, kids)
  BY NewIsNewAt DEF TreeInv
<1>3. l # Root /\ l \in New(l)
  BY <1>1, <1>2, NewIs
<1>4. Rank[l] < Rank[Root]
  BY <1>1, <1>3
<1>5. /\ Grows(Rank, kids') /\ Set(kids'[Root]) = {l}
      /\ \A x \in Nodes \ ({Root} \union New(l)) : kids'[x] = <<>>
  BY <1>1, <1>2, <1>4, ReplantGrows DEF Replant
<1>6. rnd' = Anew(rnd, l, FALSE)
  BY DEF Replant
<1>7. rnd \in [Nodes -> BOOLEAN] /\ \A p \in Nodes : rnd[p] => p \notin Entries
  BY DEF TreeInv, Calm
<1>8. rnd' \in [Nodes -> BOOLEAN] /\ \A p \in Nodes : rnd'[p] => p \notin New(l) /\ rnd[p]
  BY <1>6, <1>7 DEF Anew
<1>9. Root \in Nodes /\ Set(<<>>) = {}
  BY TreeAssumption DEF Set
<1>10. \A p \in Nodes : rnd'[p] => p \notin Entries /\ \A c \in Set(kids'[p]) : Media(c)
  <2> SUFFICES ASSUME NEW p \in Nodes, rnd'[p] PROVE p \notin Entries /\ \A c \in Set(kids'[p]) : Media(c)
    OBVIOUS
  <2>1. p \notin New(l) /\ rnd[p] /\ p \notin Entries
    BY <1>7, <1>8
  <2>2. CASE p = Root
    BY <1>5, <2>1, <2>2
  <2>3. CASE p # Root
    BY <1>5, <1>9, <2>1, <2>3
  <2> QED BY <2>1, <2>2, <2>3
<1>11. \A c \in sends : c.id \in {"load", "append"} => c.file \in Nodes /\ (rnd'[Root] => Media(c.file))
  BY <1>8, <1>9 DEF TreeInv, Calm
<1> QED BY <1>5, <1>8, <1>10, <1>11 DEF Calm

LEMMA RewoundInTree ==
  ASSUME WellGrown, LevelsInv, TreeInv, Rewound
  PROVE  TreeInv'
<1>1. pc = "rewound" /\ StandsIn(kids, iter) /\ old' = old /\ sends' = sends
  BY Standing DEF Rewound
<1>2. old \in Nodes /\ NewAt(kids, old) /\ (rnd[Root] => Media(old))
  BY <1>1 DEF TreeInv, Rewinds
<1>3. CASE res # "end"
  <2>1. Call("up", 0, TRUE, "real", "rewound") /\ UNCHANGED <<tree, iter>>
    BY <1>3 DEF Rewound
  <2>2. /\ pc' = "call" /\ call'.fn = "up" /\ call'.then = "rewound" /\ DOMAIN call' = DOMAIN NoCall
        /\ call'.d = 0 /\ call'.nodes = TRUE /\ call'.who = "real" /\ call' = Called("up", 0, TRUE, "real", "rewound")
    BY <2>1, CallFields DEF Call, Called
  <2>3. kids' = kids /\ rnd' = rnd /\ iter' = iter
    BY <2>1 DEF tree
  <2>4. Grows(Rank, kids)' /\ Calm(kids, rnd, sends)' /\ StandsIn(kids', iter')
    BY <1>1, <2>3 DEF TreeInv
  <2>5. Stands' /\ Opening' /\ Replaces' /\ Calls'
    BY <2>2, <2>4 DEF Stands, Opening, Replaces, Calls, Calling, Real
  <2>6. Rewinds'
    BY <1>1, <1>2, <2>2, <2>3 DEF Rewinds, Climbs
  <2> QED BY <2>4, <2>5, <2>6 DEF TreeInv
<1>4. CASE res = "end"
  <2>1. Replant(old) /\ iter' = [iter EXCEPT !.tree = Root] /\ Call("step", 0, FALSE, "real", "headed")
    BY <1>4 DEF Rewound
  <2>2. Grows(Rank, kids') /\ Calm(kids', rnd', sends')
    BY <1>1, <1>2, <2>1, ReplantCalm
  <2>3. Len(iter.stack) = 0
    <3>1. iter.tree = Root
      BY <1>1, <1>4 DEF TreeInv, Rewinds
    <3> QED BY <1>1, <3>1, StackIs, FloorRoot DEF StandsIn, TreeInv
  <2>4. iter'.tree = Root /\ iter'.stack = iter.stack
    BY <2>1, Fields DEF LevelsInv, IsIter
  <2>5. StandsIn(kids', iter')
    BY <2>2, <2>3, <2>4, FloorIs DEF StandsIn, Grows
  <2> QED BY <2>1, <2>2, <2>5, CallingStep
<1> QED BY <1>3, <1>4

\* What is put into the tree brings no shuffled list, and goes into none.
LEMMA AttachCalm ==
  ASSUME WellGrown, TreeInv, NEW l \in Nodes, IsNew(l), NEW p \in InTree, p \in Nodes, p \notin Entries,
         Rank[l] < Rank[p], NEW h, Attached(h, p, l), NEW r \in [Nodes -> BOOLEAN],
         \A n \in Nodes : r[n] => n \notin New(l) /\ rnd[n],
         rnd[p] => Media(l)
  PROVE  Grows(Rank, h) /\ Calm(h, r, sends) /\ \A x \in Nodes : Set(kids[x]) \subseteq Set(h[x])
<1>1. Rank \in [Nodes -> 0 .. MaxDepth] /\ FitContent(Rank) /\ Grows(Rank, kids)
  BY RankIs DEF WellGrownBy, FitLists, GrownBy, TreeInv
<1>2. Grows(Rank, h) /\ \A x \in Nodes : Set(kids[x]) \subseteq Set(h[x])
  BY <1>1, AttachGrows
<1>3. l \in New(l)
  BY <1>1, NewIs
<1>4. \A n \in Nodes : r[n] => n \notin Entries /\ \A c \in Set(h[n]) : Media(c)
  <2> SUFFICES ASSUME NEW n \in Nodes, r[n] PROVE n \notin Entries /\ \A c \in Set(h[n]) : Media(c)
    OBVIOUS
  <2>1. n # l /\ n \notin Entries /\ \A c \in Set(kids[n]) : Media(c)
    BY <1>3 DEF TreeInv, Calm
  <2>2. CASE n = p
    BY <2>1, <2>2 DEF Attached, Distinct
  <2>3. CASE n # p
    BY <2>1, <2>3 DEF Attached, Distinct
  <2> QED BY <2>1, <2>2, <2>3
<1>5. Root \in Nodes
  BY TreeAssumption
<1>6. \A c \in sends : c.id \in {"load", "append"} => c.file \in Nodes /\ (r[Root] => Media(c.file))
  BY <1>5 DEF TreeInv, Calm
<1> QED BY <1>2, <1>4, <1>6 DEF Calm

LEMMA AnewIs ==
  ASSUME TreeInv, NEW l
  PROVE  LET r == Anew(rnd, l, FALSE)
         IN r \in [Nodes -> BOOLEAN] /\ \A n \in Nodes : r[n] => n \notin New(l) /\ rnd[n]
<1>1. rnd \in [Nodes -> BOOLEAN]
  BY DEF TreeInv, Calm
<1> QED BY <1>1 DEF Anew

LEMMA OpenListInTree ==
  ASSUME WellGrown, LevelsInv, TreeInv, OpenList
  PROVE  TreeInv'
<1> DEFINE n == iter.tree
           l == ListOf[n]
           j == Len(iter.stack)
           p == Parent(n)
           h == Insert(Grown(kids, l), n, l)
           r == [Anew(rnd, l, FALSE) EXCEPT ![l] = rnd[n] /\ params[n] # <<>>]
<1>1. pc = "open" /\ Kind[n] = "list" /\ StandsIn(kids, iter) /\ n \in Entries /\ j \in Nat
  BY Standing, StackIs DEF OpenList, TreeInv, Opening
<1>2. n \in FloorOf(kids, j) /\ n \in Nodes
  BY <1>1 DEF StandsIn, Entries
<1>3. /\ Rank \in [Nodes -> 0 .. MaxDepth] /\ FitContent(Rank) /\ Grows(Rank, kids)
      /\ l # NoNode /\ l \in Nodes /\ Rank[l] <= Rank[n]
  BY <1>1, <1>2, RankIs, TreeAssumption DEF WellGrownBy, FitLists, GrownBy, TreeInv
<1>4. /\ IsNew(l) /\ kids' = h /\ rnd' = r /\ old' = n /\ Call("step", 1, FALSE, "real", "replaced")
      /\ iter' = iter /\ sends' = sends
  BY <1>3 DEF OpenList
<1>5. /\ Attached(h, p, l)
      /\ p \in InTree /\ p \in Nodes /\ p \notin Entries /\ n \in Set(kids[p]) /\ n \in Set(h[p])
      /\ \E i \in DOMAIN h[p] : h[p][i] = n /\ i + 1 \in DOMAIN h[p]
  BY <1>1, <1>2, <1>3, <1>4, InsertIs
<1>6. Rank[l] < Rank[p]
  <2>1. Rank[n] < Rank[p] /\ Rank[n] \in Int /\ Rank[p] \in Int /\ Rank[l] \in Int
    BY <1>2, <1>3, <1>5, TreeAssumption DEF Grows, Falling
  <2> QED BY <1>3, <2>1
<1>7. ~rnd[n] /\ ~rnd[p]
  <2>1. ~Media(n)
    BY <1>1 DEF Media
  <2> QED BY <1>1, <1>2, <1>5, <2>1 DEF TreeInv, Calm
<1> DEFINE q == Anew(rnd, l, FALSE)
<1>8. r \in [Nodes -> BOOLEAN] /\ \A m \in Nodes : r[m] => m \notin New(l) /\ rnd[m]
  <2>1. q \in [Nodes -> BOOLEAN] /\ \A m \in Nodes : q[m] => m \notin New(l) /\ rnd[m]
    BY AnewIs
  <2> HIDE DEF q
  <2>2. r = [q EXCEPT ![l] = FALSE]
    BY <1>7 DEF q
  <2> HIDE DEF r
  <2> QED BY <1>3, <2>1, <2>2
<1> HIDE DEF h, r, p, l, n, j, q
<1>9. Grows(Rank, h) /\ Calm(h, r, sends) /\ \A x \in Nodes : Set(kids[x]) \subseteq Set(h[x])
  BY <1>3, <1>4, <1>5, <1>6, <1>7, <1>8, AttachCalm
<1>10. Grows(Rank, kids') /\ Calm(kids', rnd', sends')
  BY <1>4, <1>9
<1>11. \A d \in Nat : FloorOf(kids, d) \subseteq FloorOf(h, d)
  <2>1. kids \in [Nodes -> Seq(Nodes)] /\ h \in [Nodes -> Seq(Nodes)]
    BY <1>3, <1>9 DEF Grows
  <2> QED BY <1>9, <2>1, FloorsGrow
<1>12. n \in FloorOf(kids', j) /\ StandsIn(kids', iter')
  BY <1>1, <1>2, <1>4, <1>11 DEF StandsIn, n, j
<1>13. NotLast(kids', n)
  BY <1>4, <1>5 DEF NotLast
<1>14. /\ pc' = "call" /\ call'.fn = "step" /\ call'.then = "replaced" /\ DOMAIN call' = DOMAIN NoCall
       /\ call'.d = 1 /\ call'.nodes = FALSE /\ call'.who = "real"
  BY <1>4, CallFields DEF Call, Called
<1>15. Stands' /\ Opening' /\ Rewinds' /\ Calls'
  BY <1>12, <1>14 DEF Stands, Opening, Rewinds, Calls, Calling, Real
<1>16. \A i \in Nat : old' \in FloorOf(kids', i) => Passes(call'.fn, call'.d, kids', iter', old', i)
  BY <1>4, <1>13, <1>14 DEF Passes, n
<1>17. Replaces'
  BY <1>1, <1>4, <1>12, <1>14, <1>16 DEF Replaces
<1> QED BY <1>10, <1>15, <1>17 DEF TreeInv

LEMMA ListReadInTree ==
  ASSUME WellGrown, LevelsInv, TreeInv, ListRead
  PROVE  TreeInv'
<1>1. pc = "replaced" /\ StandsIn(kids, iter) /\ Len(iter.stack) \in Nat
  BY Standing, StackIs DEF ListRead, TreeInv, Calls
<1>2. iter' = iter /\ sends' = sends /\ rnd' = rnd /\ call' = call /\ pc' = "next"
  BY <1>1 DEF ListRead, Leave, Went
<1>3. CASE res # "entry"
  <2>1. kids' = kids
    BY <1>3 DEF ListRead
  <2>2. Grows(Rank, kids') /\ Calm(kids', rnd', sends')
    BY <1>2, <2>1, TreeAsItWas
  <2> QED BY <1>1, <1>2, <2>1, <2>2, QuietStep
<1>4. CASE res = "entry"
  <2>1. kids' = Remove(kids, old)
    BY <1>1, <1>4 DEF ListRead
  <2>2. iter.tree # old /\ old \in Entries /\ \E j \in Nat : old \in FloorOf(kids, j)
    BY <1>1, <1>4 DEF TreeInv, Replaces
  <2>3. Rank \in [Nodes -> 0 .. MaxDepth] /\ Grows(Rank, kids)
    BY RankIs DEF TreeInv
  <2>4. /\ Grows(Rank, kids')
        /\ \A x \in Nodes : Set(kids'[x]) = Set(kids[x]) \ {old}
        /\ \A d \in Nat : FloorOf(kids, d) \ {old} \subseteq FloorOf(kids', d)
    BY <2>1, <2>2, <2>3, RemoveGrows
  <2>5. Calm(kids', rnd', sends')
    BY <1>2, <2>4 DEF TreeInv, Calm
  <2>6. StandsIn(kids', iter')
    BY <1>1, <1>2, <2>2, <2>4 DEF StandsIn
  <2> QED BY <1>2, <2>4, <2>5, <2>6, QuietStep
<1> QED BY <1>3, <1>4

LEMMA GoingInTree ==
  ASSUME WellGrown, LevelsInv, TreeInv, Going
  PROVE  TreeInv'
  BY PlainGoingInTree, RewoundInTree, OpenListInTree, ListReadInTree DEF Going, PlainGoing

----------------------------------------------------------------------------
\* The commands of the front end.
LEMMA IdleLoadInTree ==
  ASSUME WellGrown, LevelsInv, TreeInv, NEW c, IdleLoad(c)
  PROVE  TreeInv'
<1>1. c \in sends /\ c.id = "load" /\ IsNew(c.file) /\ Replant(c.file) /\ sends' = sends
  BY DEF IdleLoad, Sent
<1>2. c.file \in Nodes /\ (rnd[Root] => Media(c.file))
  BY <1>1 DEF TreeInv, Calm
<1>3. Grows(Rank, kids') /\ Calm(kids', rnd', sends')
  BY <1>1, <1>2, NewIsNewAt, ReplantCalm
<1>4. CASE pc' = "idle" /\ call' = call
  BY <1>3, <1>4, QuietStep
<1>5. CASE iter' = NewIter /\ Call("step", 0, FALSE, "real", "started")
  <2>1. /\ pc' = "call" /\ call' = Called("step", 0, FALSE, "real", "started")
        /\ iter'.tree = NoNode /\ iter'.stack = <<>>
    BY <1>5 DEF Call, NewIter
  <2>2. call'.fn = "step" /\ call'.then = "started" /\ DOMAIN call' = DOMAIN NoCall
    BY <2>1, CallFields DEF Called
  <2>3. Stands' /\ Opening' /\ Rewinds' /\ Calls' /\ Replaces'
    BY <2>1, <2>2 DEF Stands, Opening, Rewinds, Calls, Calling, Replaces
  <2> QED BY <1>3, <2>3 DEF TreeInv
<1> QED BY <1>4, <1>5 DEF IdleLoad, Went

LEMMA LoadAppendInTree ==
  ASSUME WellGrown, LevelsInv, TreeInv, NEW c, LoadAppend(c)
  PROVE  TreeInv'
<1> DEFINE l == c.file
           h == [Grown(kids, l) EXCEPT ![Root] = Append(@, l)]
           r == Anew(rnd, l, FALSE)
<1>1. /\ pc = "play" /\ c \in sends /\ c.id = "append" /\ IsNew(l) /\ sends' = sends
      /\ kids' = h /\ rnd' = r /\ UNCHANGED iters
  BY DEF LoadAppend, Obey, Sent
<1>2. l \in Nodes /\ (rnd[Root] => Media(l))
  BY <1>1 DEF TreeInv, Calm
<1>3. /\ Rank \in [Nodes -> 0 .. MaxDepth] /\ FitContent(Rank) /\ Grows(Rank, kids)
      /\ \A n \in Nodes \ {Root} : Rank[n] < Rank[Root]
  BY RankIs DEF WellGrownBy, FitLists, GrownBy, TreeInv
<1>4. Attached(h, Root, l) /\ Root \in InTree
  BY <1>1, <1>2, <1>3, AppendIs
<1>5. Rank[l] < Rank[Root]
  <2>1. l \in New(l) /\ \A n \in New(l) : n # Root
    BY <1>1, <1>2, <1>3, NewIs
  <2> QED BY <1>2, <1>3, <2>1
<1>6. Root \in Nodes /\ Root \notin Entries
  BY TreeAssumption DEF Entries
<1>7. r \in [Nodes -> BOOLEAN] /\ \A m \in Nodes : r[m] => m \notin New(l) /\ rnd[m]
  BY AnewIs
<1> HIDE DEF h, r, l
<1>8. Grows(Rank, h) /\ Calm(h, r, sends) /\ \A x \in Nodes : Set(kids[x]) \subseteq Set(h[x])
  BY <1>1, <1>2, <1>4, <1>5, <1>6, <1>7, AttachCalm
<1>9. \A d \in Nat : FloorOf(kids, d) \subseteq FloorOf(h, d)
  <2>1. kids \in [Nodes -> Seq(Nodes)] /\ h \in [Nodes -> Seq(Nodes)]
    BY <1>3, <1>8 DEF Grows
  <2> QED BY <1>8, <2>1, FloorsGrow
<1>10. iter' = iter /\ pc' = pc /\ call' = call
  BY <1>1 DEF iters
<1>11. StandsIn(kids, iter) /\ Len(iter.stack) \in Nat
  BY <1>1, Standing, StackIs
<1>12. StandsIn(kids', iter')
  BY <1>1, <1>9, <1>10, <1>11 DEF StandsIn
<1> QED BY <1>1, <1>8, <1>10, <1>12, QuietStep

LEMMA LoadInTree ==
  ASSUME LevelsInv, TreeInv, NEW c, Load(c)
  PROVE  TreeInv'
<1>1. /\ pc = "play" /\ c \in sends /\ c.id = "load" /\ IsNew(c.file) /\ sends' = sends /\ old' = c.file
      /\ Call("up", 0, TRUE, "real", "rewound") /\ UNCHANGED <<tree, iter>>
  BY DEF Load, Obey, Sent
<1>2. c.file \in Nodes /\ (rnd[Root] => Media(c.file)) /\ NewAt(kids, c.file)
  BY <1>1, NewIsNewAt DEF TreeInv, Calm
<1>3. /\ pc' = "call" /\ call'.fn = "up" /\ call'.then = "rewound" /\ DOMAIN call' = DOMAIN NoCall
      /\ call'.d = 0 /\ call'.nodes = TRUE /\ call'.who = "real"
  BY <1>1, CallFields DEF Call, Called
<1>4. kids' = kids /\ rnd' = rnd /\ iter' = iter
  BY <1>1 DEF tree
<1>5. Grows(Rank, kids)' /\ Calm(kids, rnd, sends)' /\ StandsIn(kids', iter')
  BY <1>1, <1>4, Standing DEF TreeInv
<1>6. Stands' /\ Opening' /\ Replaces' /\ Calls'
  BY <1>3, <1>5 DEF Stands, Opening, Replaces, Calls, Calling, Real
<1>7. Rewinds'
  BY <1>1, <1>2, <1>3, <1>4 DEF Rewinds, Climbs
<1> QED BY <1>5, <1>6, <1>7 DEF TreeInv

LEMMA ToldInTree ==
  ASSUME WellGrown, LevelsInv, TreeInv, Told
  PROVE  TreeInv'
<1> USE DEF Leave, Went
<1>1. PICK c \in sends :
        \/ IdleLoad(c) \/ IdleSet(c) \/ PtStep(c) \/ PtUpStep(c) \/ AltSrcStep(c)
        \/ LoadAppend(c) \/ Load(c) \/ Stop(c) \/ SetOption(c)
  BY DEF Told
<1>2. CASE IdleLoad(c) \/ LoadAppend(c) \/ Load(c)
  BY <1>2, IdleLoadInTree, LoadAppendInTree, LoadInTree
<1>3. CASE IdleSet(c)
  <2>1. UNCHANGED <<kids, rnd, sends>> /\ pc' = "idle" /\ call' = call
    BY <1>3 DEF IdleSet, Sent, tree
  <2> QED BY <2>1, TreeAsItWas, QuietStep
<1>4. CASE PtStep(c) \/ PtUpStep(c) \/ AltSrcStep(c) \/ Stop(c) \/ SetOption(c)
  <2>1. UNCHANGED <<kids, rnd, sends>> /\ iter' = iter /\ pc = "play"
    BY <1>4 DEF PtStep, PtUpStep, AltSrcStep, Stop, SetOption, Obey, Sent, tree
  <2>2. Grows(Rank, kids') /\ Calm(kids', rnd', sends') /\ StandsIn(kids', iter')
    BY <2>1, TreeAsItWas, Standing
  <2>3. \/ pc' \in {"next", "play"} /\ call' = call
        \/ Call("step", StepBy(c), FALSE, "copy", "tried")
        \/ Call("up", StepBy(c), FALSE, "copy", "tried")
        \/ Call("up", 0, TRUE, "real", "stopping")
    BY <1>4, <2>1 DEF PtStep, PtUpStep, AltSrcStep, Stop, SetOption
  <2> QED BY <2>2, <2>3, CallingStep, QuietStep
<1> QED BY <1>1, <1>2, <1>3, <1>4

LEMMA TreeInvariant == WellGrown => (Spec => []TreeInv)
<1> SUFFICES ASSUME WellGrown PROVE Spec => []TreeInv
  OBVIOUS
<1>1. Init => TreeInv
  <2> SUFFICES ASSUME Init PROVE TreeInv
    OBVIOUS
  <2>1. /\ iter = NewIter /\ pc = "call" /\ call = Called("step", 0, FALSE, "real", "started")
        /\ \E t \in Trees : kids = Cleaned(t.kids) /\ rnd = t.rnd /\ sends = t.sends
    BY DEF Init
  <2>2. Grows(Rank, kids) /\ Calm(kids, rnd, sends)
    BY <2>1, RankIs DEF WellGrownBy, FitLists, GrownBy
  <2>3. iter.tree = NoNode /\ iter.stack = <<>>
    BY <2>1 DEF NewIter
  <2>4. call.fn = "step" /\ call.then = "started" /\ DOMAIN call = DOMAIN NoCall
    BY <2>1, CallFields DEF Called
  <2>5. Stands /\ Opening /\ Rewinds /\ Calls /\ Replaces
    BY <2>1, <2>3, <2>4 DEF Stands, Opening, Rewinds, Calls, Calling, Replaces
  <2> QED BY <2>2, <2>5 DEF TreeInv
<1>2. LevelsInv /\ TreeInv /\ [Next]_vars => TreeInv'
  <2>1. ASSUME TreeInv, FileEnds PROVE TreeInv'
    <3>1. pc = "play" /\ UNCHANGED <<kids, rnd, sends>> /\ iter' = iter /\ pc' = "next" /\ call' = call
      BY <2>1 DEF FileEnds, Leave, Went, tree
    <3> QED BY <2>1, <3>1, TreeAsItWas, Standing, QuietStep
  <2>2. ASSUME TreeInv, UNCHANGED vars PROVE TreeInv'
    <3>1. UNCHANGED <<kids, rnd, sends, iter, pc, call, res, old>>
      BY <2>2 DEF vars, tree, iters, player
    <3>2. Grows(Rank, kids)' /\ Calm(kids, rnd, sends)'
      BY <2>2, <3>1, TreeAsItWas
    <3>3. Stands' /\ Opening' /\ Rewinds' /\ Calls' /\ Replaces'
      BY <2>2, <3>1 DEF TreeInv, Stands, Opening, Rewinds, Calls, Calling, Real, Replaces, Live
    <3> QED BY <3>2, <3>3 DEF TreeInv
  <2> QED BY <2>1, <2>2, IterStepInTree, GoingInTree, ToldInTree DEF Next
<1> QED BY <1>1, <1>2, LevelsInvariant, PTL DEF Spec

\* IteratorInTree for every command line that grows a tree and keeps it one, and
\* for every playlist that is not empty: whatever commands replace, append and
\* unlink, while the player rewinds and steps, the iterator stands on a node that
\* can be reached by the places it has on its stack.
THEOREM IteratorStaysInTree == WellGrown => (Spec => []IteratorInTree)
<1> SUFFICES ASSUME WellGrown PROVE Spec => []IteratorInTree
  OBVIOUS
<1>1. LevelsInv /\ TreeInv => IteratorInTree
  <2> SUFFICES ASSUME LevelsInv, TreeInv, Live, iter.tree # NoNode
               PROVE  iter.tree \in Floors(Len(iter.stack))
    BY DEF IteratorInTree
  <2>1. Floors(Len(iter.stack)) = FloorOf(kids, Len(iter.stack))
    BY DEF Floors, FloorOf
  <2> QED BY <2>1 DEF TreeInv, Stands, StandsIn
<1> QED BY <1>1, LevelsInvariant, TreeInvariant, PTL

----------------------------------------------------------------------------
\* The option at a level, which is the variable or what was saved of it, and what
\* a node with parameters ps makes of value v.
ValueAt(c, l) == IF l = c.lvl THEN c.var ELSE c.slots[l + 1]
Chosen(ps, n, v) == IF ps[n] # <<>> THEN ps[n][1].val ELSE v

LEMMA PopValues ==
  ASSUME NEW c, InOrder(c), c.lvl > 1
  PROVE  \A l \in 0 .. c.lvl - 1 : ValueAt(Pop(c), l) = ValueAt(c, l)
<1> DEFINE kept == SubSeq(c.slots, 1, c.lvl)
           n == c.lvl
<1>1. n \in Nat /\ n > 1 /\ c.slots \in Seq(Range(c.slots)) /\ Len(c.slots) = n + 1
  BY DEF InOrder
<1>2. \A i \in 1 .. n : c.slots[i] \in Range(c.slots)
  BY <1>1, LenProperties
<1>3. Len(kept) = n /\ \A i \in 1 .. n : kept[i] = c.slots[i]
  BY <1>1, <1>2, SubSeqProperties
<1> HIDE DEF kept
<1>4. Pop(c).lvl = n - 1 /\ Pop(c).slots = kept /\ Pop(c).var = kept[n]
  BY <1>1, <1>3 DEF Pop, kept
<1> SUFFICES ASSUME NEW l \in 0 .. n - 1 PROVE ValueAt(Pop(c), l) = ValueAt(c, l)
  OBVIOUS
<1>5. ValueAt(c, l) = c.slots[l + 1] /\ kept[l + 1] = c.slots[l + 1] /\ (l = n - 1 => l + 1 = n)
  BY <1>1, <1>3 DEF ValueAt
<1>6. CASE l = n - 1
  BY <1>4, <1>5, <1>6 DEF ValueAt
<1>7. CASE l # n - 1
  BY <1>4, <1>5, <1>7 DEF ValueAt
<1> QED BY <1>6, <1>7

LEMMA PushValues ==
  ASSUME NEW c, InOrder(c), NEW n, params[n] # <<>> => ~params[n][1].alias
  PROVE  /\ PushParams(c, n).lvl = c.lvl + 1
         /\ \A l \in 0 .. c.lvl : ValueAt(PushParams(c, n), l) = ValueAt(c, l)
         /\ ValueAt(PushParams(c, n), c.lvl + 1) = Chosen(params, n, c.var)
<1> DEFINE S     == Range(c.slots) \union {c.var, params[n][1].val}
           k     == c.lvl
           saved == [c.slots EXCEPT ![Len(c.slots)] = c.var]
           t     == Append(saved, c.var)
           p     == Push(c)
           ps    == params[n]
<1>1. k \in Nat /\ k >= 1 /\ c.slots \in Seq(S) /\ Len(c.slots) = k + 1 /\ c.var \in S /\ params[n][1].val \in S
  BY SeqMonotonic DEF InOrder
<1>2. saved \in Seq(S) /\ Len(saved) = k + 1 /\ saved[k + 1] = c.var
      /\ \A i \in 1 .. k : saved[i] = c.slots[i]
  <2>1. \A i \in 1 .. k + 1 : saved[i] = IF i = k + 1 THEN c.var ELSE c.slots[i]
    BY <1>1, LenProperties
  <2> QED BY <1>1, <2>1, ExceptSeq
<1> HIDE DEF S, saved
<1>3. t \in Seq(S) /\ Len(t) = k + 2 /\ t[k + 2] = c.var /\ \A i \in 1 .. k + 1 : t[i] = saved[i]
  BY <1>1, <1>2, AppendProperties
<1>4. p = [lvl |-> k + 1, slots |-> t, var |-> c.var]
  BY DEF Push, saved
<1>5. \A l \in 0 .. k : t[l + 1] = ValueAt(c, l)
  <2> SUFFICES ASSUME NEW l \in 0 .. k PROVE t[l + 1] = ValueAt(c, l)
    OBVIOUS
  <2>1. CASE l = k
    BY <1>1, <1>2, <1>3, <2>1 DEF ValueAt
  <2>2. CASE l # k
    <3>1. l + 1 \in 1 .. k /\ l + 1 \in 1 .. k + 1
      BY <1>1, <2>2
    <3> QED BY <1>2, <1>3, <2>2, <3>1 DEF ValueAt
  <2> QED BY <2>1, <2>2
<1> HIDE DEF t
<1>6. CASE ps = <<>>
  <2>1. PushParams(c, n) = p
    BY <1>6 DEF PushParams, Apply
  <2> HIDE DEF p, ps
  <2>2. ValueAt(p, k + 1) = c.var
    BY <1>4 DEF ValueAt
  <2>3. \A l \in 0 .. k : ValueAt(p, l) = t[l + 1]
    BY <1>1, <1>4 DEF ValueAt
  <2>4. Chosen(params, n, c.var) = c.var
    BY <1>6 DEF Chosen, ps
  <2> QED BY <1>4, <1>5, <2>1, <2>2, <2>3, <2>4
<1>7. CASE ps # <<>>
  <2> DEFINE v == ps[1].val
             s == [t EXCEPT ![k + 2] = v]
  <2>1. SlotOf(p, ps[1].alias) = k + 2
    BY <1>3, <1>4, <1>7 DEF SlotOf
  <2>2. PushParams(c, n) = [p EXCEPT !.slots[k + 2] = v, !.var = v]
    BY <1>7, <2>1 DEF PushParams, Apply, Assign
  <2> HIDE DEF p, ps
  <2>3. PushParams(c, n) = [lvl |-> k + 1, slots |-> s, var |-> v]
    BY <1>4, <2>2
  <2>4. \A i \in 1 .. k + 1 : s[i] = t[i]
    BY <1>1, <1>3, LenProperties
  <2> HIDE DEF s, v
  <2>5. ValueAt(PushParams(c, n), k + 1) = v /\ PushParams(c, n).lvl = k + 1
    BY <2>3 DEF ValueAt
  <2>6. \A l \in 0 .. k : ValueAt(PushParams(c, n), l) = s[l + 1] /\ l + 1 \in 1 .. k + 1
    BY <1>1, <2>3 DEF ValueAt
  <2>7. Chosen(params, n, c.var) = v
    BY <1>7 DEF Chosen, ps, v
  <2> QED BY <1>5, <2>4, <2>5, <2>6, <2>7
<1> QED BY <1>6, <1>7

----------------------------------------------------------------------------
\* w is the way from the root down to t, and each list on it, but t, has pushed a
\* level with its options; t itself pushes one when it is an entry that plays.
Way(k, n, t, w) ==
  /\ w \in [0 .. n -> Nodes]
  /\ w[0] = Root /\ w[n] = t
  /\ \A d \in 0 .. n - 1 : w[d + 1] \in Set(k[w[d]])
Pushed(ps, f, n, w, c) ==
  \A d \in 0 .. n - 1 : ValueAt(c, f + d + 1) = Chosen(ps, w[d], ValueAt(c, f + d))
OnTop(ps, f, n, t, o, c) ==
  ValueAt(c, f + n + 1) = IF t \in Entries /\ o # NoValue THEN o ELSE Chosen(ps, t, ValueAt(c, f + n))
Stacked(k, ps, f, n, t, o, c, top) ==
  /\ top = 1 => OnTop(ps, f, n, t, o, c)
  /\ \E w : Way(k, n, t, w) /\ Pushed(ps, f, n, w, c)

LEMMA PushedSame ==
  ASSUME NEW ps, NEW f \in Nat, NEW n \in Nat, NEW m \in 0 .. n, NEW w, NEW x, NEW c, NEW e,
         Pushed(ps, f, n, w, c),
         \A l \in f .. f + m : ValueAt(e, l) = ValueAt(c, l),
         \A d \in 0 .. m - 1 : x[d] = w[d]
  PROVE  Pushed(ps, f, m, x, e)
<1> SUFFICES ASSUME NEW d \in 0 .. m - 1
             PROVE  ValueAt(e, f + d + 1) = Chosen(ps, x[d], ValueAt(e, f + d))
  BY DEF Pushed
<1>1. f + d + 1 \in f .. f + m /\ f + d \in f .. f + m /\ d \in 0 .. n - 1
  OBVIOUS
<1>2. ValueAt(e, f + d + 1) = ValueAt(c, f + d + 1) /\ ValueAt(e, f + d) = ValueAt(c, f + d)
  BY <1>1
<1>3. ValueAt(c, f + d + 1) = Chosen(ps, w[d], ValueAt(c, f + d))
  BY <1>1 DEF Pushed
<1> QED BY <1>2, <1>3

\* The way to a sibling and up to the parent.
LEMMA WayToSibling ==
  ASSUME NEW rank, Grows(rank, kids), NEW n \in Nat, NEW t, NEW w, Way(kids, n, t, w), NEW s \in Set(Siblings(t))
  PROVE  \E x : Way(kids, n, s, x) /\ \A d \in 0 .. n - 1 : x[d] = w[d]
<1>0. n \in 0 .. n /\ 0 \in 0 .. n
  OBVIOUS
<1>1. CASE n = 0
  <2>1. t = Root
    BY <1>1 DEF Way
  <2>2. s = Root
    BY <2>1 DEF Siblings, Set
  <2> QED BY <1>1, <2>1, <2>2
<1>2. CASE n # 0
  <2> DEFINE p == w[n - 1]
  <2>1. n - 1 \in 0 .. n - 1 /\ n - 1 \in 0 .. n /\ (n - 1) + 1 = n
    BY <1>2
  <2>2. p \in Nodes /\ t \in Set(kids[p])
    BY <2>1 DEF Way
  <2>3. Parent(t) = p /\ t # Root
    BY <2>2, ParentIs
  <2>4. s \in Set(kids[p])
    BY <2>3 DEF Siblings
  <2>5. s \in Nodes
    BY <2>2, <2>4, ParentIs
  <2> DEFINE x == [d \in 0 .. n |-> IF d = n THEN s ELSE w[d]]
  <2>6. x \in [0 .. n -> Nodes] /\ x[n] = s /\ \A d \in 0 .. n - 1 : x[d] = w[d]
    BY <2>5 DEF Way
  <2>7. x[0] = Root
    BY <1>2, <2>6 DEF Way
  <2>8. ASSUME NEW d \in 0 .. n - 1 PROVE x[d + 1] \in Set(kids[x[d]])
    <3>1. CASE d = n - 1
      BY <2>1, <2>4, <2>6, <3>1
    <3>2. CASE d # n - 1
      <4>1. d + 1 \in 0 .. n - 1
        BY <3>2
      <4> QED BY <2>6, <4>1 DEF Way
    <3> QED BY <3>1, <3>2
  <2> HIDE DEF x
  <2>9. Way(kids, n, s, x)
    BY <2>6, <2>7, <2>8 DEF Way
  <2> QED BY <2>6, <2>9
<1> QED BY <1>1, <1>2

LEMMA WayUp ==
  ASSUME NEW rank, Grows(rank, kids), NEW n \in Nat, n # 0, NEW t, NEW w, Way(kids, n, t, w)
  PROVE  /\ w[n - 1] = Parent(t) /\ w[n - 1] \in Nodes /\ t \in Set(kids[w[n - 1]])
         /\ \E x : Way(kids, n - 1, w[n - 1], x) /\ \A d \in 0 .. n - 1 : x[d] = w[d]
<1> DEFINE m == n - 1
           x == [d \in 0 .. m |-> w[d]]
<1>1. m \in Nat /\ m + 1 = n /\ m \in 0 .. m /\ 0 \in 0 .. m /\ m \in 0 .. n - 1
  OBVIOUS
<1>2. w[m] \in Nodes /\ t \in Set(kids[w[m]])
  BY <1>1 DEF Way
<1>3. w[m] = Parent(t)
  BY <1>2, ParentIs
<1>4. x \in [0 .. m -> Nodes] /\ \A d \in 0 .. m : x[d] = w[d]
  BY DEF Way
<1> HIDE DEF x
<1>5. \A d \in 0 .. m - 1 : x[d + 1] \in Set(kids[x[d]])
  <2> SUFFICES ASSUME NEW d \in 0 .. m - 1 PROVE x[d + 1] \in Set(kids[x[d]])
    OBVIOUS
  <2>1. d \in 0 .. m /\ d + 1 \in 0 .. m /\ d \in 0 .. n - 1
    OBVIOUS
  <2> QED BY <1>4, <2>1 DEF Way
<1>6. x[0] = Root
  BY <1>1, <1>4 DEF Way
<1>7. x[m] = w[m]
  BY <1>1, <1>4
<1> HIDE DEF m
<1>8. Way(kids, m, w[m], x)
  BY <1>4, <1>5, <1>6, <1>7 DEF Way
<1> QED BY <1>1, <1>2, <1>3, <1>4, <1>8 DEF m

\* Nobody plays a list on the way, and the whole way is in the tree.
LEMMA WayIsLists ==
  ASSUME NEW k, Leaves(k), NEW n \in Nat, NEW t, NEW w, Way(k, n, t, w)
  PROVE  \A d \in 0 .. n - 1 : w[d] \notin Entries /\ k[w[d]] # <<>>
<1> SUFFICES ASSUME NEW d \in 0 .. n - 1 PROVE w[d] \notin Entries /\ k[w[d]] # <<>>
  OBVIOUS
<1>1. w[d + 1] \in Set(k[w[d]])
  BY DEF Way
<1>2. Set(<<>>) = {}
  BY DEF Set
<1> QED BY <1>1, <1>2 DEF Leaves, Entries

LEMMA WayInTree ==
  ASSUME NEW k \in [Nodes -> Seq(Nodes)], NEW rank \in [Nodes -> 0 .. MaxDepth], Falling(rank, k),
         NEW n \in Nat, NEW t, NEW w, Way(k, n, t, w)
  PROVE  \A d \in 0 .. n : w[d] \in Subtree(k, Root)
<1> DEFINE B == {d \in 0 .. n : w[d] \notin Subtree(k, Root)}
<1> SUFFICES ASSUME B # {} PROVE FALSE
  OBVIOUS
<1>1. B \in SUBSET Nat
  OBVIOUS
<1>2. PICK b \in B : \A y \in B : b <= y
  BY <1>1, LeastNatural
<1>3. Root \in Subtree(k, Root) /\ Closed(k, Subtree(k, Root))
  BY SubtreeClosed, TreeAssumption
<1>4. b # 0
  BY <1>3 DEF Way
<1>5. b - 1 \in 0 .. n /\ b - 1 \in 0 .. n - 1 /\ (b - 1) + 1 = b /\ ~(b <= b - 1)
  BY <1>4
<1>6. w[b - 1] \in Subtree(k, Root)
  BY <1>2, <1>5
<1>7. w[b] \in Set(k[w[b - 1]])
  BY <1>5 DEF Way
<1> QED BY <1>3, <1>6, <1>7 DEF Closed, Children

----------------------------------------------------------------------------
\* The levels of an iterator, and what becomes of them when it moves.
Holds(k, ps, f, i, o, c, b) ==
  /\ ValueAt(c, f) = b
  /\ Stacked(k, ps, f, Len(i.stack), i.tree, o, c, i.pushed)

LEMMA LeftValues ==
  ASSUME LevelsInv, SlotsInv, Live, Real
  PROVE  /\ InOrder(LeftCfg) /\ LeftCfg.lvl = floor + Len(iter.stack) /\ floor \in Nat /\ Len(iter.stack) \in Nat
         /\ \A l \in floor .. floor + Len(iter.stack) : ValueAt(LeftCfg, l) = ValueAt(cfg, l)
<1>1. /\ floor \in Int /\ floor >= 1 /\ InOrder(cfg) /\ It = iter /\ Len(iter.stack) \in Nat
      /\ cfg.lvl = floor + Len(iter.stack) + iter.pushed /\ iter.pushed \in {0, 1}
  BY StackIs DEF LevelsInv, SlotsInv, It, Balanced, IsIter
<1>2. CASE iter.pushed = 1
  <2>1. LeftCfg = Pop(cfg) /\ cfg.lvl > 1
    BY <1>1, <1>2 DEF LeftCfg
  <2>2. \A l \in 0 .. cfg.lvl - 1 : ValueAt(Pop(cfg), l) = ValueAt(cfg, l)
    BY <1>1, <2>1, PopValues
  <2>3. floor .. floor + Len(iter.stack) \subseteq 0 .. cfg.lvl - 1 /\ cfg.lvl - 1 = floor + Len(iter.stack)
    BY <1>1, <1>2
  <2>4. Pop(cfg).lvl = cfg.lvl - 1 /\ InOrder(Pop(cfg))
    BY <1>1, <2>1, PopLevel, PopInOrder
  <2> QED BY <1>1, <2>1, <2>2, <2>3, <2>4
<1>3. CASE iter.pushed = 0
  BY <1>1, <1>3 DEF LeftCfg
<1> QED BY <1>1, <1>2, <1>3

LEMMA HoldsLeft ==
  ASSUME LevelsInv, SlotsInv, TreeInv, Live, Real, Holds(kids, params, floor, iter, own, cfg, base),
         NEW s \in Set(Siblings(iter.tree))
  PROVE  /\ ValueAt(LeftCfg, floor) = base
         /\ \E w : Way(kids, Len(iter.stack), s, w) /\ Pushed(params, floor, Len(iter.stack), w, LeftCfg)
<1> DEFINE n == Len(iter.stack)
<1>1. /\ floor \in Nat /\ n \in Nat
      /\ \A l \in floor .. floor + n : ValueAt(LeftCfg, l) = ValueAt(cfg, l)
  BY LeftValues
<1>2. ValueAt(LeftCfg, floor) = base
  <2>1. floor \in floor .. floor + n
    BY <1>1
  <2> QED BY <1>1, <2>1 DEF Holds
<1>3. PICK w : Way(kids, n, iter.tree, w) /\ Pushed(params, floor, n, w, cfg)
  BY DEF Holds, Stacked
<1>4. PICK x : Way(kids, n, s, x) /\ \A d \in 0 .. n - 1 : x[d] = w[d]
  BY <1>1, <1>3, WayToSibling DEF TreeInv
<1>5. n \in 0 .. n
  BY <1>1
<1> HIDE DEF n
<1>6. Pushed(params, floor, n, x, LeftCfg)
  BY <1>1, <1>3, <1>4, <1>5, PushedSame
<1> QED BY <1>2, <1>4, <1>6 DEF n

\* The iterator has left its entry, and is at a sibling.
LEMMA HoldsMoved ==
  ASSUME LevelsInv, SlotsInv, TreeInv, Live, Real, Holds(kids, params, floor, iter, own, cfg, base),
         NEW i, i.tree \in Set(Siblings(iter.tree)), i.stack = iter.stack, i.pushed = 0
  PROVE  Holds(kids, params, floor, i, own, LeftCfg, base)
<1>1. i.pushed # 1
  OBVIOUS
<1> QED BY <1>1, HoldsLeft DEF Holds, Stacked

\* It has come to an entry, to play it.
LEMMA HoldsEntered ==
  ASSUME LevelsInv, SlotsInv, TreeInv, Live, Real, Holds(kids, params, floor, iter, own, cfg, base),
         FirstNames(params), NEW s \in Nodes, s \in Set(Siblings(iter.tree)),
         NEW i, i.tree = s, i.stack = iter.stack
  PROVE  Holds(kids, params, floor, i, NoValue, PushParams(LeftCfg, s), base)
<1> DEFINE n == Len(iter.stack)
           e == PushParams(LeftCfg, s)
<1>1. /\ InOrder(LeftCfg) /\ LeftCfg.lvl = floor + n /\ floor \in Nat /\ n \in Nat
  BY LeftValues
<1>2. PICK w : Way(kids, n, s, w) /\ Pushed(params, floor, n, w, LeftCfg)
  BY HoldsLeft
<1>3. ValueAt(LeftCfg, floor) = base
  BY HoldsLeft
<1>4. params[s] # <<>> => ~params[s][1].alias
  BY DEF FirstNames
<1>5. /\ \A l \in 0 .. floor + n : ValueAt(e, l) = ValueAt(LeftCfg, l)
      /\ ValueAt(e, floor + n + 1) = Chosen(params, s, LeftCfg.var)
  BY <1>1, <1>4, PushValues
<1> HIDE DEF e
<1>6. \A l \in floor .. floor + n : ValueAt(e, l) = ValueAt(LeftCfg, l)
  <2>1. floor .. floor + n \subseteq 0 .. floor + n
    BY <1>1
  <2> QED BY <1>5, <2>1
<1>7. ValueAt(e, floor + n) = LeftCfg.var
  <2>1. ValueAt(LeftCfg, floor + n) = LeftCfg.var
    BY <1>1 DEF ValueAt
  <2>2. floor + n \in floor .. floor + n
    BY <1>1
  <2> QED BY <1>6, <2>1, <2>2
<1>8. OnTop(params, floor, n, s, NoValue, e)
  BY <1>5, <1>7 DEF OnTop
<1>9. Pushed(params, floor, n, w, e)
  <2>1. n \in 0 .. n
    BY <1>1
  <2> QED BY <1>1, <1>2, <1>6, <2>1, PushedSame
<1>10. ValueAt(e, floor) = base
  <2>1. floor \in floor .. floor + n
    BY <1>1
  <2> QED BY <1>3, <1>6, <2>1
<1> QED BY <1>2, <1>8, <1>9, <1>10 DEF Holds, Stacked, e

\* It has gone up to the list it was in.
LEMMA HoldsRisen ==
  ASSUME LevelsInv, SlotsInv, TreeInv, Live, Real, Holds(kids, params, floor, iter, own, cfg, base),
         iter.stack # <<>>,
         NEW i, i.tree = Parent(iter.tree), i.stack = SubSeq(iter.stack, 1, Len(iter.stack) - 1),
         i.pushed = iter.pushed
  PROVE  Holds(kids, params, floor, i, own, Pop(cfg), base)
<1> DEFINE n == Len(iter.stack)
           m == Len(i.stack)
           e == Pop(cfg)
<1>1. /\ floor \in Nat /\ n \in Nat /\ n # 0 /\ m = n - 1 /\ m \in Nat
      /\ cfg.lvl = floor + n + iter.pushed /\ iter.pushed \in {0, 1} /\ InOrder(cfg) /\ floor >= 1
  <2>1. m = n - 1 /\ m \in Nat
    BY Shortened DEF LevelsInv, IsIter
  <2>2. floor \in Nat /\ n \in Nat /\ floor >= 1
    BY StackIs DEF LevelsInv, SlotsInv
  <2>3. InOrder(cfg) /\ cfg.lvl = floor + n + iter.pushed /\ iter.pushed \in {0, 1}
    BY DEF LevelsInv, SlotsInv, IsIter, Balanced
  <2> QED BY <2>1, <2>2, <2>3
<1>2. \A l \in 0 .. cfg.lvl - 1 : ValueAt(e, l) = ValueAt(cfg, l)
  BY <1>1, PopValues
<1> HIDE DEF e, m
<1>3. \A l \in floor .. floor + m + iter.pushed : ValueAt(e, l) = ValueAt(cfg, l)
  <2>1. floor .. floor + m + iter.pushed \subseteq 0 .. cfg.lvl - 1
    BY <1>1
  <2> QED BY <1>2, <2>1
<1>4. PICK w : Way(kids, n, iter.tree, w) /\ Pushed(params, floor, n, w, cfg)
  BY DEF Holds, Stacked
<1>5. /\ w[m] = i.tree
      /\ \E x : Way(kids, m, i.tree, x) /\ \A d \in 0 .. m : x[d] = w[d]
  BY <1>1, <1>4, WayUp DEF TreeInv
<1>6. PICK x : Way(kids, m, i.tree, x) /\ \A d \in 0 .. m : x[d] = w[d]
  BY <1>5
<1>7. Pushed(params, floor, m, x, e)
  <2>1. m \in 0 .. n
    BY <1>1
  <2>2. \A l \in floor .. floor + m : ValueAt(e, l) = ValueAt(cfg, l)
    <3>1. floor .. floor + m \subseteq floor .. floor + m + iter.pushed
      BY <1>1
    <3> QED BY <1>3, <3>1
  <2>3. \A d \in 0 .. m - 1 : x[d] = w[d]
    BY <1>1, <1>6
  <2> QED BY <1>1, <1>4, <2>1, <2>2, <2>3, PushedSame
<1>8. ValueAt(e, floor) = base
  <2>1. floor \in floor .. floor + m + iter.pushed
    BY <1>1
  <2> QED BY <1>3, <2>1 DEF Holds
<1>9. i.pushed = 1 => OnTop(params, floor, m, i.tree, own, e)
  <2> SUFFICES ASSUME iter.pushed = 1 PROVE OnTop(params, floor, m, i.tree, own, e)
    OBVIOUS
  <2>1. m \in 0 .. n - 1 /\ floor + m + 1 \in floor .. floor + m + iter.pushed
        /\ floor + m \in floor .. floor + m + iter.pushed
    BY <1>1
  <2>2. i.tree \notin Entries
    BY <1>1, <1>4, <1>5, <2>1, WayIsLists DEF TreeInv, Grows
  <2>3. ValueAt(cfg, floor + m + 1) = Chosen(params, i.tree, ValueAt(cfg, floor + m))
    BY <1>4, <1>5, <2>1 DEF Pushed
  <2> QED BY <1>3, <2>1, <2>2, <2>3 DEF OnTop
<1> QED BY <1>6, <1>7, <1>8, <1>9 DEF Holds, Stacked, e, m

\* The way down to a child, and the levels on it.
LEMMA WayLowered ==
  ASSUME NEW k \in [Nodes -> Seq(Nodes)], NEW n \in Nat, NEW t, NEW w, Way(k, n, t, w), NEW q \in Set(k[t]),
         NEW ps, NEW f \in Nat, NEW c, NEW e, Pushed(ps, f, n, w, c),
         \A l \in f .. f + n : ValueAt(e, l) = ValueAt(c, l),
         ValueAt(e, f + n + 1) = Chosen(ps, t, ValueAt(e, f + n))
  PROVE  \E y : Way(k, n + 1, q, y) /\ Pushed(ps, f, n + 1, y, e)
<1> DEFINE x == [d \in 0 .. n + 1 |-> IF d = n + 1 THEN q ELSE w[d]]
<1>0. t \in Nodes /\ n \in 0 .. n
  BY DEF Way
<1>1. q \in Nodes
  BY <1>0, SetIs
<1>2. x \in [0 .. n + 1 -> Nodes] /\ x[n + 1] = q /\ \A d \in 0 .. n : x[d] = w[d]
  BY <1>1 DEF Way
<1> HIDE DEF x
<1>3. x[0] = Root
  BY <1>2 DEF Way
<1>4. ASSUME NEW d \in 0 .. (n + 1) - 1
      PROVE  /\ x[d + 1] \in Set(k[x[d]])
             /\ ValueAt(e, f + d + 1) = Chosen(ps, x[d], ValueAt(e, f + d))
  <2>1. CASE d = n
    <3>1. x[d] = t /\ x[d + 1] = q
      BY <1>0, <1>2, <2>1 DEF Way
    <3> QED BY <2>1, <3>1
  <2>2. CASE d # n
    <3>1. d \in 0 .. n - 1 /\ d \in 0 .. n /\ d + 1 \in 0 .. n /\ f + d \in f .. f + n /\ f + d + 1 \in f .. f + n
      BY <2>2
    <3>2. ValueAt(c, f + d + 1) = Chosen(ps, w[d], ValueAt(c, f + d))
      BY <3>1 DEF Pushed
    <3>3. w[d + 1] \in Set(k[w[d]])
      BY <3>1 DEF Way
    <3> QED BY <1>2, <3>1, <3>2, <3>3
  <2> QED BY <2>1, <2>2
<1>5. Way(k, n + 1, q, x)
  BY <1>2, <1>3, <1>4 DEF Way
<1>6. Pushed(ps, f, n + 1, x, e)
  BY <1>4 DEF Pushed
<1> QED BY <1>5, <1>6

\* It has gone down into the list it was at.
LEMMA HoldsLowered ==
  ASSUME LevelsInv, SlotsInv, TreeInv, Live, Real, Holds(kids, params, floor, iter, own, cfg, base),
         FirstNames(params), iter.pushed = 0, NEW x,
         NEW i, i.tree \in Set(kids[iter.tree]), i.stack = Append(iter.stack, x), i.pushed = 0
  PROVE  Holds(kids, params, floor, i, own, PushParams(cfg, iter.tree), base)
<1> DEFINE n == Len(iter.stack)
           t == iter.tree
           e == PushParams(cfg, t)
<1>1. /\ floor \in Nat /\ n \in Nat /\ Len(i.stack) = n + 1 /\ cfg.lvl = floor + n /\ InOrder(cfg)
  <2>1. Len(i.stack) = n + 1
    BY Appended DEF LevelsInv, IsIter
  <2>2. floor \in Nat /\ n \in Nat
    BY StackIs DEF LevelsInv, SlotsInv
  <2>3. InOrder(cfg) /\ cfg.lvl = floor + n
    BY <2>2 DEF LevelsInv, SlotsInv, Balanced
  <2> QED BY <2>1, <2>2, <2>3
<1>2. PICK w : Way(kids, n, t, w) /\ Pushed(params, floor, n, w, cfg)
  BY DEF Holds, Stacked
<1>3. t \in Nodes
  <2>1. n \in 0 .. n
    BY <1>1
  <2> QED BY <1>2, <2>1 DEF Way
<1>4. params[t] # <<>> => ~params[t][1].alias
  BY <1>3 DEF FirstNames
<1>5. /\ \A l \in 0 .. floor + n : ValueAt(e, l) = ValueAt(cfg, l)
      /\ ValueAt(e, floor + n + 1) = Chosen(params, t, cfg.var)
  BY <1>1, <1>4, PushValues
<1> HIDE DEF e
<1>6. /\ \A l \in floor .. floor + n : ValueAt(e, l) = ValueAt(cfg, l)
      /\ ValueAt(e, floor) = base
      /\ ValueAt(e, floor + n + 1) = Chosen(params, t, ValueAt(e, floor + n))
  <2>1. floor .. floor + n \subseteq 0 .. floor + n /\ floor \in 0 .. floor + n /\ floor + n \in 0 .. floor + n
    BY <1>1
  <2>2. ValueAt(cfg, floor + n) = cfg.var
    BY <1>1 DEF ValueAt
  <2> QED BY <1>5, <2>1, <2>2 DEF Holds
<1>7. kids \in [Nodes -> Seq(Nodes)] /\ i.tree \in Set(kids[t])
  BY DEF TreeInv, Grows
<1>8. \E y : Way(kids, n + 1, i.tree, y) /\ Pushed(params, floor, n + 1, y, e)
  BY <1>1, <1>2, <1>6, <1>7, WayLowered
<1>9. i.pushed # 1
  OBVIOUS
<1> QED BY <1>1, <1>6, <1>8, <1>9 DEF Holds, Stacked, e

----------------------------------------------------------------------------
\* What OptionsAsListed rests on.

\* Every list above a shuffled one, and the shuffled one, is without options: they
\* are a set of nodes that has the parents of what is in it.
Bare(k, r, ps) ==
  \E B \in SUBSET Nodes :
    /\ \A p \in Nodes : r[p] => p \in B
    /\ \A x \in B : ps[x] = <<>>
    /\ \A x \in Nodes : \A c \in Set(k[x]) : c \in B => x \in B
Shapes(k, r, ps, s) == Filled(k) /\ FirstNames(ps) /\ FitSends(s) /\ Bare(k, r, ps)

\* The levels in force are those of the way to the iterator, before it has moved
\* none, and of an idle player none.
Holding ==
  /\ Live => IF iter.tree = NoNode THEN ValueAt(cfg, floor) = base /\ iter.pushed = 0
             ELSE Holds(kids, params, floor, iter, own, cfg, base)
  /\ ~Live => cfg.var = base

\* The iterator is on an entry with its options wherever the player has one, and
\* when a list has ended none are left.
Thens == {"started", "stepped", "upped", "again", "rewound", "headed", "replaced", "stopping"}
OnEntry == iter.tree \in Entries /\ iter.pushed = 1
Leaving == {PT_NEXT_ENTRY, PT_PREV_ENTRY, PT_UP_NEXT, PT_UP_PREV, PT_STOP}
Settled ==
  /\ Live /\ iter.pushed = 1 /\ ~(Calling("step") /\ Real) => iter.tree \in Entries
  /\ Calling("down") /\ Real => iter.pushed = 0
  /\ pc = "call" => IF Real THEN call.then \in Thens ELSE call.then = "tried" /\ OnEntry
  /\ pc = "call" /\ call.nodes => call.then \in {"rewound", "stopping"}
  /\ pc \in {"open", "play", "file", "tried"} => OnEntry
  /\ pc = "next" /\ eof \notin Leaving => OnEntry
  /\ pc = "next" /\ eof = PT_STOP => cfg.var = base
  /\ want[1] # PT_STOP
Answered ==
  pc \in Thens => \/ res = "entry" /\ OnEntry
                  \/ res = "node" /\ pc \in {"rewound", "stopping"}
                  \/ res \notin {"entry", "node"} /\ cfg.var = base

\* A loaded file's step from the root finds an entry; the list that is opened comes
\* after the entry it replaces.
Heading ==
  /\ pc = "call" /\ call.then = "headed" =>
       /\ Real /\ call.fn \in {"step", "down"} /\ call.d = 0 /\ ~call.nodes /\ kids[Root] # <<>>
       /\ \A x \in Nodes : \A c \in Set(kids[x]) : ~played[c]
  /\ pc = "headed" => res = "entry"
Filing ==
  /\ pc = "rewound" \/ (pc = "call" /\ call.then = "rewound") => Fills(old)
  /\ pc = "replaced" \/ (pc = "call" /\ call.then = "replaced") => NotLast(kids, old)

OptInv ==
  /\ Shapes(kids, rnd, params, sends)
  /\ Holding /\ Settled /\ Answered /\ Heading /\ Filing

\* In a tree whose lists are not empty every node in it leads to an entry.
LEMMA AllValid ==
  ASSUME NEW k \in [Nodes -> Seq(Nodes)], NEW rank \in [Nodes -> 0 .. MaxDepth], Falling(rank, k), Filled(k)
  PROVE  \A n \in Nodes : n \in Entries \/ k[n] # <<>> => Valid(k, n)
<1> DEFINE Bad == {n \in Nodes : (n \in Entries \/ k[n] # <<>>) /\ ~Valid(k, n)}
<1> SUFFICES ASSUME Bad # {} PROVE FALSE
  OBVIOUS
<1>1. rank \in [Nodes -> Nat] /\ Bad \in SUBSET Nodes /\ MaxDepth \in Nat
  BY TreeAssumption
<1> HIDE DEF Bad
<1>2. PICK b \in Bad : \A u \in Bad : rank[b] <= rank[u]
  BY <1>1, LeastRanked
<1>3. b \in Nodes /\ (b \in Entries \/ k[b] # <<>>) /\ ~Valid(k, b)
  BY <1>2 DEF Bad
<1>4. Subtree(k, b) \in SUBSET Nodes /\ b \in Subtree(k, b) /\ Closed(k, Subtree(k, b))
  BY <1>3, SubtreeClosed
<1>5. b \notin Entries /\ k[b] # <<>>
  BY <1>3, <1>4 DEF Valid
<1>6. PICK c : c \in Set(k[b])
  BY <1>3, <1>5, SetIs
<1>7. c \in Nodes /\ (c \in Entries \/ k[c] # <<>>)
  <2>1. c \in Nodes
    BY <1>3, <1>6, SetIs
  <2> QED BY <1>3, <1>6, <2>1 DEF Filled
<1>8. rank[c] < rank[b] /\ rank[c] \in Int /\ rank[b] \in Int
  BY <1>1, <1>3, <1>6, <1>7 DEF Falling
<1>9. c \notin Bad
  BY <1>2, <1>8
<1>10. Valid(k, c)
  BY <1>7, <1>9 DEF Bad
<1>11. Subtree(k, c) \subseteq Subtree(k, b)
  <2>1. c \in Subtree(k, b)
    BY <1>3, <1>4, <1>6 DEF Closed, Children
  <2> QED BY <1>4, <1>7, <2>1, SubtreeLeast
<1> QED BY <1>3, <1>10, <1>11 DEF Valid

\* A list on a way without options changes nothing.
LEMMA BareWay ==
  ASSUME NEW k, NEW r, NEW ps, Bare(k, r, ps), NEW n \in Nat, n # 0, NEW t, NEW w, Way(k, n, t, w), r[w[n - 1]],
         NEW f \in Nat, NEW c, Pushed(ps, f, n, w, c)
  PROVE  ValueAt(c, f + n) = ValueAt(c, f)
<1>1. PICK B \in SUBSET Nodes :
        /\ \A p \in Nodes : r[p] => p \in B
        /\ \A x \in B : ps[x] = <<>>
        /\ \A x \in Nodes : \A q \in Set(k[x]) : q \in B => x \in B
  BY DEF Bare
<1>2. \A d \in 0 .. n - 1 : w[d] \in B
  <2> DEFINE Out == {a \in Nat : a \in 0 .. n - 1 /\ w[n - 1 - a] \notin B}
  <2> SUFFICES ASSUME NEW z \in 0 .. n - 1, w[z] \notin B PROVE FALSE
    OBVIOUS
  <2>1. n - 1 - z \in Out
    <3>1. n - 1 - (n - 1 - z) = z /\ n - 1 - z \in 0 .. n - 1
      OBVIOUS
    <3> QED BY <3>1
  <2>2. PICK a \in Out : \A y \in Out : a <= y
    <3>1. Out \in SUBSET Nat /\ Out # {}
      BY <2>1
    <3> HIDE DEF Out
    <3> QED BY <3>1, LeastNatural
  <2> DEFINE d == n - 1 - a
  <2>3. a \in 0 .. n - 1 /\ d \in 0 .. n - 1 /\ w[d] \notin B
    OBVIOUS
  <2>4. w[n - 1] \in B
    <3>1. n - 1 \in 0 .. n
      OBVIOUS
    <3>2. w[n - 1] \in Nodes
      BY <3>1 DEF Way
    <3> QED BY <1>1, <3>2
  <2>5. a # 0
    BY <2>3, <2>4
  <2>6. a - 1 \in 0 .. n - 1 /\ n - 1 - (a - 1) = d + 1 /\ ~(a <= a - 1) /\ d \in 0 .. n
    BY <2>3, <2>5
  <2>7. a - 1 \notin Out
    BY <2>2, <2>6
  <2>8. w[d + 1] \in B
    BY <2>6, <2>7
  <2> HIDE DEF d
  <2>9. w[d + 1] \in Set(k[w[d]]) /\ w[d] \in Nodes
    BY <2>3, <2>6 DEF Way
  <2> QED BY <1>1, <2>3, <2>8, <2>9
<1>3. \A d \in 0 .. n - 1 : ValueAt(c, f + d + 1) = ValueAt(c, f + d)
  BY <1>1, <1>2 DEF Pushed, Chosen
<1> DEFINE Out == {a \in Nat : a \in 0 .. n /\ ValueAt(c, f + a) # ValueAt(c, f)}
<1> SUFFICES ASSUME ValueAt(c, f + n) # ValueAt(c, f) PROVE FALSE
  OBVIOUS
<1>4. PICK a \in Out : \A y \in Out : a <= y
  <2>1. n \in Out
    OBVIOUS
  <2>2. Out \in SUBSET Nat /\ Out # {}
    BY <2>1
  <2> HIDE DEF Out
  <2> QED BY <2>2, LeastNatural
<1>5. a \in 0 .. n /\ a \in Nat /\ ValueAt(c, f + a) # ValueAt(c, f)
  OBVIOUS
<1>6. a # 0
  <2>1. f + 0 = f
    OBVIOUS
  <2> QED BY <1>5, <2>1
<1>7. a - 1 \in 0 .. n /\ a - 1 \in Nat /\ a - 1 \in 0 .. n - 1 /\ ~(a <= a - 1) /\ f + (a - 1) + 1 = f + a
  BY <1>5, <1>6
<1>8. ValueAt(c, f + (a - 1)) = ValueAt(c, f)
  BY <1>4, <1>7
<1> QED BY <1>3, <1>5, <1>7, <1>8

----------------------------------------------------------------------------
\* The ways a step of the player's iterator ends.
LEMMA HoldingIs ==
  ASSUME TreeInv, OptInv, Live, StandsIn(kids, iter), Len(iter.stack) \in Nat
  PROVE  Holds(kids, params, floor, iter, own, cfg, base) /\ iter.tree # NoNode /\ iter.tree \in Nodes
<1>1. iter.tree # NoNode
  BY NotNode DEF StandsIn
<1>2. iter.tree \in Nodes
  BY FloorIs DEF StandsIn, TreeInv, Grows
<1> QED BY <1>1, <1>2 DEF OptInv, Holding

StaticStep ==
  UNCHANGED <<kids, rnd, params, sends, old, want, floor, base, eof>>

LEMMA StepIsStatic == IterStep => StaticStep
  BY DEF IterStep, StepEnter, StepRoundOver, StepAround, StepUp, StepList, StepInvalid, StepEntry,
         UpEnd, UpStep, DownStep, Outside, player, StaticStep

LEMMA AgainHolds ==
  ASSUME TreeInv, OptInv, Real, pc = "call", StaticStep, NEW fn, NEW d, Again(fn, d),
         Holds(kids, params, floor, iter', own', cfg', base), iter'.tree # NoNode,
         fn = "step" \/ iter'.pushed = 0,
         call.then = "headed" => fn \in {"step", "down"} /\ d = 0 /\ played' = played
  PROVE  OptInv'
<1>1. /\ call'.fn = fn /\ call'.d = d /\ call'.nodes = call.nodes
      /\ call'.who = call.who /\ call'.then = call.then /\ pc' = pc /\ res' = res
  BY CallFields DEF TreeInv, Calls, Again
<1>2. UNCHANGED <<kids, rnd, params, sends, old, want, floor, base, eof>>
  BY DEF StaticStep
<1>3. Real' /\ Live' /\ pc' = "call"
  BY <1>1 DEF Real, Live
<1>4. Shapes(kids, rnd, params, sends)'
  BY <1>2 DEF OptInv
<1>5. Holding'
  BY <1>2, <1>3 DEF Holding
<1>6. Settled'
  BY <1>1, <1>2, <1>3 DEF OptInv, Settled, Calling
<1>7. Answered'
  BY <1>3 DEF Answered, Thens
<1>8. Heading'
  BY <1>1, <1>2, <1>3 DEF OptInv, Heading
<1>9. Filing'
  BY <1>1, <1>2, <1>3 DEF OptInv, Filing
<1> QED BY <1>4, <1>5, <1>6, <1>7, <1>8, <1>9 DEF OptInv

LEMMA ReturnHolds ==
  ASSUME TreeInv, OptInv, Real, pc = "call", StaticStep, NEW r, Return(r),
         Holds(kids, params, floor, iter', own', cfg', base), iter'.tree # NoNode,
         iter'.pushed = 1 => iter'.tree \in Entries,
         \/ r = "entry" /\ OnEntry'
         \/ r = "node" /\ call.nodes
         \/ r \notin {"entry", "node"} /\ cfg'.var = base,
         call.then = "headed" => r = "entry"
  PROVE  OptInv'
<1>1. call' = NoCall /\ pc' = call.then /\ res' = r /\ NoCall.then = "none" /\ NoCall.fn = "none"
  BY DEF Return, NoCall, Called
<1>2. UNCHANGED <<kids, rnd, params, sends, old, want, floor, base, eof>>
  BY DEF StaticStep
<1>3. pc' \in Thens /\ (call.nodes => pc' \in {"rewound", "stopping"})
  BY <1>1 DEF OptInv, Settled
<1>4. pc' \notin {"call", "idle", "open", "play", "file", "tried", "next"}
  BY <1>3 DEF Thens
<1>5. Shapes(kids, rnd, params, sends)'
  BY <1>2 DEF OptInv
<1>6. Holding'
  BY <1>2, <1>4 DEF Holding, Live
<1>7. Settled'
  BY <1>1, <1>2, <1>4 DEF OptInv, Settled, Calling
<1>8. Answered'
  BY <1>1, <1>2, <1>3 DEF Answered
<1>9. Heading'
  BY <1>1, <1>4 DEF Heading
<1>10. Filing'
  BY <1>1, <1>2, <1>4 DEF OptInv, Filing
<1> QED BY <1>5, <1>6, <1>7, <1>8, <1>9, <1>10 DEF OptInv

\* A step of the player that calls no step of the iterator.
LEMMA QuietHolds ==
  ASSUME Shapes(kids', rnd', params', sends'), pc' \notin Thens \union {"call"}, want'[1] # PT_STOP,
         pc' # "idle" => /\ Holds(kids', params', floor', iter', own', cfg', base') /\ iter'.tree # NoNode
                         /\ iter'.pushed = 1 => iter'.tree \in Entries,
         pc' = "idle" => cfg'.var = base',
         pc' \in {"open", "play", "file", "tried"} => OnEntry',
         pc' = "next" => (eof' \in Leaving \/ OnEntry') /\ (eof' = PT_STOP => cfg'.var = base')
  PROVE  OptInv'
<1>1. pc' \notin {"call", "rewound", "replaced", "headed"}
  BY DEF Thens
<1>2. Holding'
  BY DEF Holding, Live
<1>3. Settled'
  BY <1>1 DEF Settled, Calling, Live, Leaving
<1>4. Answered' /\ Heading' /\ Filing'
  BY <1>1 DEF Answered, Heading, Filing
<1> QED BY <1>2, <1>3, <1>4 DEF OptInv

\* A step that calls one, but for the three the invariant says more of.
LEMMA CallHolds ==
  ASSUME Shapes(kids', rnd', params', sends'),
         Holds(kids', params', floor', iter', own', cfg', base'), iter'.tree # NoNode,
         NEW fn, NEW d, NEW nodes, NEW who, NEW then, Call(fn, d, nodes, who, then),
         fn \in {"step", "up"}, iter'.pushed = 1 => iter'.tree \in Entries,
         \/ who = "real" /\ then \in Thens
         \/ who = "copy" /\ then = "tried" /\ OnEntry',
         nodes => then \in {"rewound", "stopping"},
         want'[1] # PT_STOP, Heading', Filing'
  PROVE  OptInv'
<1>1. /\ pc' = "call" /\ call'.fn = fn /\ call'.then = then /\ call'.who = who /\ call'.nodes = nodes
  BY DEF Call, Called
<1>2. Holding'
  BY <1>1 DEF Holding, Live
<1>3. Settled'
  BY <1>1 DEF Settled, Calling, Real
<1>4. Answered'
  BY <1>1 DEF Answered, Thens
<1> QED BY <1>2, <1>3, <1>4 DEF OptInv

----------------------------------------------------------------------------
\* The player's iterator steps.
LEMMA SteppingHolds ==
  ASSUME LevelsInv, SlotsInv, TreeInv, OptInv, Real, Stepping
  PROVE  /\ pc = "call" /\ Live /\ It = iter /\ StandsIn(kids, iter) /\ Calling("step")
         /\ Holds(kids, params, floor, iter, own, cfg, base) /\ iter.tree \in Nodes
         /\ Left.tree = iter.tree /\ Left.stack = iter.stack /\ Left.pushed = 0 /\ DOMAIN Left = DOMAIN NewIter
         /\ iter.tree \in Set(Siblings(iter.tree)) /\ Siblings(iter.tree) \in Seq(Nodes)
<1>1. pc = "call" /\ Live /\ It = iter /\ StandsIn(kids, iter) /\ Calling("step") /\ Len(iter.stack) \in Nat
  BY SteppingFrom, StackIs
<1>2. Holds(kids, params, floor, iter, own, cfg, base) /\ iter.tree \in Nodes
  BY <1>1, HoldingIs
<1>3. Left.tree = iter.tree /\ Left.stack = iter.stack /\ Left.pushed = 0 /\ DOMAIN Left = DOMAIN NewIter
  BY <1>1, LeftFields, LeftLevels
<1>4. iter.tree \in Set(Siblings(iter.tree)) /\ Siblings(iter.tree) \in Seq(Nodes)
  BY <1>1, FloorSibling DEF TreeInv, StandsIn
<1> QED BY <1>1, <1>2, <1>3, <1>4

\* The step of a loaded file does not run out of nodes.
LEMMA HeadedChoice ==
  ASSUME LevelsInv, SlotsInv, TreeInv, OptInv, Real, Stepping, call.then = "headed"
  PROVE  /\ iter.tree \in Choices(call.d) /\ call.d = 0 /\ ~call.nodes
         /\ \A n \in Choices(call.d) : kids[n] # <<>> \/ n \in Entries
<1>1. /\ pc = "call" /\ Live /\ It = iter /\ StandsIn(kids, iter) /\ iter.tree \in Nodes
      /\ iter.tree \in Set(Siblings(iter.tree))
  BY SteppingHolds
<1>2. call.d = 0 /\ ~call.nodes /\ kids[Root] # <<>> /\ \A x \in Nodes : \A c \in Set(kids[x]) : ~played[c]
  BY <1>1 DEF OptInv, Heading
<1>3. CASE ~Left.rnd
  <2>1. Choices(0) = {iter.tree}
    BY <1>1, <1>3, StayChoice
  <2>2. CASE iter.tree = Root
    BY <1>2, <2>1, <2>2
  <2>3. CASE iter.tree # Root
    <3>1. Parent(iter.tree) \in Nodes /\ iter.tree \in Set(kids[Parent(iter.tree)])
      BY <1>1, <2>3, StackIs, FloorParent DEF TreeInv, StandsIn
    <3> QED BY <1>2, <2>1, <3>1 DEF OptInv, Shapes, Filled
  <2> QED BY <2>2, <2>3
<1>4. CASE Left.rnd
  <2>1. iter.tree # Root
    BY <1>1, <1>4, LeftFields
  <2>2. Parent(iter.tree) \in Nodes /\ Siblings(iter.tree) = kids[Parent(iter.tree)]
    BY <1>1, <2>1, StackIs, FloorParent DEF TreeInv, StandsIn, Siblings
  <2>3. Choices(0) = {n \in Set(kids[Parent(iter.tree)]) : ~played[n]}
    BY <1>1, <1>4, <2>2 DEF Choices
  <2>4. iter.tree \in Choices(0)
    BY <1>1, <1>2, <2>2, <2>3
  <2>5. \A n \in Set(kids[Parent(iter.tree)]) : kids[n] # <<>> \/ n \in Entries
    BY <2>2 DEF OptInv, Shapes, Filled
  <2> QED BY <1>2, <2>3, <2>4, <2>5
<1> QED BY <1>3, <1>4

LEMMA EnterHolds ==
  ASSUME LevelsInv, SlotsInv, TreeInv, OptInv, Real, StepEnter
  PROVE  OptInv'
<1>1. It = iter /\ pc = "call" /\ iter.tree = NoNode /\ Again("step", 0)
      /\ iter' = [iter EXCEPT !.tree = Root] /\ cfg' = cfg /\ own' = own /\ Live /\ played' = played
  BY DEF StepEnter, It, SetIt, Calling, Live
<1>2. StaticStep
  BY StepIsStatic DEF IterStep
<1>3. iter.stack = <<>>
  <2>1. ~StandsIn(kids, iter)
    BY <1>1, NotNode, StackIs DEF StandsIn
  <2> QED BY <1>1, <2>1 DEF TreeInv, Stands
<1>4. iter'.tree = Root /\ iter'.stack = <<>> /\ iter'.pushed = 0
  BY <1>1, <1>3, Fields DEF LevelsInv, IsIter, OptInv, Holding
<1>5. ValueAt(cfg, floor) = base
  BY <1>1 DEF OptInv, Holding
<1>6. Holds(kids, params, floor, iter', own', cfg', base)
  <2> DEFINE w == [d \in 0 .. 0 |-> Root]
  <2>1. Way(kids, 0, Root, w) /\ Pushed(params, floor, 0, w, cfg)
    BY TreeAssumption DEF Way, Pushed
  <2>2. Len(iter'.stack) = 0
    BY <1>4
  <2> QED BY <1>1, <1>4, <1>5, <2>1, <2>2 DEF Holds, Stacked
<1>7. Root # NoNode
  BY TreeAssumption
<1> QED BY <1>1, <1>2, <1>4, <1>6, <1>7, AgainHolds

\* What a shuffled list leaves when it is over.
LEMMA RoundLeaves ==
  ASSUME LevelsInv, SlotsInv, TreeInv, OptInv, Real, Stepping, Left.rnd
  PROVE  LeftCfg.var = base
<1> DEFINE n == Len(iter.stack)
<1>1. /\ Live /\ StandsIn(kids, iter) /\ Holds(kids, params, floor, iter, own, cfg, base)
      /\ iter.tree \in Set(Siblings(iter.tree))
  BY SteppingHolds
<1>2. iter.tree # Root /\ rnd[Parent(iter.tree)]
  BY <1>1, LeftFields
<1>3. LeftCfg.lvl = floor + n /\ floor \in Nat /\ n \in Nat
  BY <1>1, LeftValues
<1>4. n # 0
  BY <1>1, <1>2, FloorIs DEF StandsIn, TreeInv, Grows
<1>5. ValueAt(LeftCfg, floor) = base
      /\ \E w : Way(kids, n, iter.tree, w) /\ Pushed(params, floor, n, w, LeftCfg)
  BY <1>1, HoldsLeft
<1>6. PICK w : Way(kids, n, iter.tree, w) /\ Pushed(params, floor, n, w, LeftCfg)
  BY <1>5
<1> HIDE DEF n
<1>7. w[n - 1] = Parent(iter.tree)
  BY <1>3, <1>4, <1>6, WayUp DEF TreeInv
<1>8. Bare(kids, rnd, params)
  BY DEF OptInv, Shapes
<1>9. ValueAt(LeftCfg, floor + n) = ValueAt(LeftCfg, floor)
  <2>1. rnd[w[n - 1]]
    BY <1>2, <1>7
  <2> QED BY <1>3, <1>4, <1>6, <1>8, <2>1, BareWay
<1> QED BY <1>3, <1>5, <1>9 DEF ValueAt

LEMMA RoundHolds ==
  ASSUME LevelsInv, SlotsInv, TreeInv, OptInv, Real, StepRoundOver
  PROVE  OptInv'
<1>1. Stepping /\ Left.rnd /\ Choices(call.d) = {} /\ iter' = Left /\ cfg' = LeftCfg /\ own' = own
      /\ (Return("end") \/ Again("step", 0))
  BY DEF StepRoundOver, SetIt
<1>2. /\ pc = "call" /\ Live /\ Holds(kids, params, floor, iter, own, cfg, base) /\ iter.tree \in Nodes
      /\ iter'.tree = iter.tree /\ iter'.stack = iter.stack /\ iter'.pushed = 0
      /\ iter'.tree \in Set(Siblings(iter.tree))
  BY <1>1, SteppingHolds
<1>3. StaticStep
  BY StepIsStatic DEF IterStep
<1>4. Holds(kids, params, floor, iter', own', cfg', base)
  BY <1>1, <1>2, HoldsMoved
<1>5. call.then # "headed"
  BY <1>1, HeadedChoice
<1>6. iter'.tree # NoNode
  BY <1>2, TreeAssumption
<1>7. CASE Return("end")
  <2>1. cfg'.var = base
    BY <1>1, RoundLeaves
  <2> QED BY <1>2, <1>3, <1>4, <1>5, <1>6, <1>7, <2>1, ReturnHolds
<1>8. CASE Again("step", 0)
  BY <1>2, <1>3, <1>4, <1>5, <1>6, <1>8, AgainHolds
<1> QED BY <1>1, <1>7, <1>8

LEMMA AroundHolds ==
  ASSUME LevelsInv, SlotsInv, TreeInv, OptInv, Real, StepAround \/ StepUp
  PROVE  OptInv'
<1>1. Stepping /\ ~Left.rnd /\ Choices(call.d) = {} /\ cfg' = LeftCfg /\ own' = own
  BY DEF StepAround, StepUp
<1>2. /\ pc = "call" /\ Live /\ It = iter /\ Holds(kids, params, floor, iter, own, cfg, base) /\ iter.tree \in Nodes
      /\ StandsIn(kids, iter)
      /\ Left.tree = iter.tree /\ Left.stack = iter.stack /\ Left.pushed = 0 /\ DOMAIN Left = DOMAIN NewIter
      /\ iter.tree \in Set(Siblings(iter.tree)) /\ Siblings(iter.tree) \in Seq(Nodes)
  BY <1>1, SteppingHolds
<1>3. StaticStep
  BY StepIsStatic DEF IterStep
<1>4. call.then # "headed"
  BY <1>1, HeadedChoice
<1>5. iter'.stack = iter.stack /\ iter'.pushed = 0 /\ iter'.tree \in Set(Siblings(iter.tree))
  <2>1. CASE StepUp
    BY <1>2, <2>1 DEF StepUp, SetIt
  <2>2. CASE StepAround
    <3> DEFINE s == Siblings(iter.tree)
    <3>1. iter' = Around(call.d)
      BY <2>2 DEF StepAround, SetIt
    <3>2. iter'.stack = iter.stack /\ iter'.pushed = 0 /\ iter'.tree \in {s[1], s[Len(s)]}
      BY <1>2, <3>1, Fields DEF Around
    <3>3. Place(iter.tree) \in DOMAIN s /\ s \in Seq(Nodes)
      BY <1>2, StackIs, FloorSibling DEF TreeInv, StandsIn
    <3>4. 1 \in DOMAIN s /\ Len(s) \in DOMAIN s
      <4> HIDE DEF s
      <4> QED BY <3>3, LenProperties
    <3> QED BY <3>2, <3>4 DEF Set
  <2> QED BY <2>1, <2>2
<1>6. Holds(kids, params, floor, iter', own', cfg', base)
  BY <1>1, <1>2, <1>5, HoldsMoved
<1>7. iter'.tree # NoNode
  <2>1. Set(Siblings(iter.tree)) \subseteq Nodes
    BY <1>2, SetIs
  <2> QED BY <1>5, <2>1, TreeAssumption
<1>8. Again("step", 0) \/ Again("up", Rest(call.d))
  BY DEF StepAround, StepUp
<1> QED BY <1>2, <1>3, <1>4, <1>5, <1>6, <1>7, <1>8, AgainHolds

\* A node that may be stepped to.
LEMMA ChoiceHolds ==
  ASSUME LevelsInv, SlotsInv, TreeInv, OptInv, Real, Stepping, NEW d, NEW n \in Choices(d)
  PROVE  n \in Nodes /\ n # NoNode /\ n \in Set(Siblings(iter.tree))
<1>1. Live /\ It = iter /\ StandsIn(kids, iter)
  BY SteppingHolds
<1>2. n \in Set(Siblings(iter.tree)) \/ n \in NthFrom(iter.tree, d)
  BY <1>1 DEF Choices
<1>3. n \in Set(Siblings(iter.tree))
  BY <1>1, <1>2, StackIs, FloorSibling DEF TreeInv, StandsIn
<1>4. n \in Nodes
  BY <1>1, ChoicesStand
<1> QED BY <1>3, <1>4, TreeAssumption

LEMMA ListHolds ==
  ASSUME LevelsInv, SlotsInv, TreeInv, OptInv, Real, NEW n \in Nodes, StepList(n)
  PROVE  OptInv'
<1>1. Stepping /\ n \in Choices(call.d) /\ iter' = [Left EXCEPT !.tree = n] /\ cfg' = LeftCfg
      /\ own' = own /\ played' = played
  BY DEF StepList, SetIt
<1>2. /\ pc = "call" /\ Live /\ Holds(kids, params, floor, iter, own, cfg, base)
      /\ iter'.tree = n /\ iter'.stack = iter.stack /\ iter'.pushed = 0
  BY <1>1, SteppingHolds, Fields
<1>3. StaticStep
  BY StepIsStatic DEF IterStep
<1>4. n # NoNode /\ n \in Set(Siblings(iter.tree))
  BY <1>1, ChoiceHolds
<1>5. Holds(kids, params, floor, iter', own', cfg', base)
  BY <1>1, <1>2, <1>4, HoldsMoved
<1>6. call.then = "headed" => call.d = 0 /\ ~call.nodes
  BY <1>1, HeadedChoice
<1>7. CASE call.nodes
  <2>1. Return("node")
    BY <1>7 DEF StepList
  <2> QED BY <1>2, <1>3, <1>4, <1>5, <1>6, <1>7, <2>1, ReturnHolds
<1>8. CASE ~call.nodes
  <2>1. Again("down", Rest(call.d))
    BY <1>8 DEF StepList
  <2>2. call.then = "headed" => Rest(call.d) = 0
    BY <1>6, RestIs
  <2> QED BY <1>1, <1>2, <1>3, <1>4, <1>5, <2>1, <2>2, AgainHolds
<1> QED BY <1>7, <1>8

\* Only of an empty tree is the root no entry to play and no list to follow.
LEMMA InvalidHolds ==
  ASSUME WellGrown, LevelsInv, SlotsInv, TreeInv, OptInv, Real, NEW n \in Nodes, StepInvalid(n)
  PROVE  OptInv'
<1>1. Stepping /\ n \in Choices(call.d) /\ iter' = Left /\ cfg' = LeftCfg /\ own' = own /\ ~IsList(n) /\ Files[n] = 0
  BY DEF StepInvalid, SetIt
<1>2. /\ pc = "call" /\ Live /\ Holds(kids, params, floor, iter, own, cfg, base) /\ StandsIn(kids, iter)
      /\ iter'.tree = iter.tree /\ iter'.stack = iter.stack /\ iter'.pushed = 0
      /\ iter'.tree \in Set(Siblings(iter.tree)) /\ iter.tree \in Nodes
  BY <1>1, SteppingHolds
<1>3. StaticStep
  BY StepIsStatic DEF IterStep
<1>4. Holds(kids, params, floor, iter', own', cfg', base) /\ iter'.tree # NoNode
  BY <1>1, <1>2, HoldsMoved, TreeAssumption
<1>5. n \notin Entries
  BY <1>1, TreeAssumption DEF Entries
<1>6. kids[n] = <<>>
  <2> SUFFICES ASSUME kids[n] # <<>> PROVE FALSE
    OBVIOUS
  <2>1. kids[n] \in Seq(Nodes) /\ Rank \in [Nodes -> 0 .. MaxDepth] /\ kids \in [Nodes -> Seq(Nodes)] /\ Falling(Rank, kids)
    BY RankIs DEF TreeInv, Grows
  <2> DEFINE s == kids[n]
  <2>2. 1 \in DOMAIN s /\ s[1] \in Nodes
    <3>1. Len(s) \in Nat /\ Len(s) # 0 /\ DOMAIN s = 1 .. Len(s)
      BY <2>1, EmptySeq, LenProperties
    <3> HIDE DEF s
    <3> QED BY <2>1, <3>1, ElementOfSeq DEF s
  <2>3. s[1] \in Set(kids[n])
    BY <2>2 DEF Set
  <2>4. s[1] \in Entries \/ kids[s[1]] # <<>>
    BY <2>3 DEF OptInv, Shapes, Filled
  <2>5. Valid(kids, s[1])
    BY <2>1, <2>2, <2>4, AllValid DEF OptInv, Shapes
  <2> QED BY <1>1, <2>5 DEF IsList
<1>7. iter.tree = Root
  <2> SUFFICES ASSUME iter.tree # Root PROVE FALSE
    OBVIOUS
  <2>1. Parent(iter.tree) \in Nodes /\ Siblings(iter.tree) = kids[Parent(iter.tree)]
    BY <1>2, StackIs, FloorParent DEF TreeInv, StandsIn, Siblings
  <2>2. n \in Set(kids[Parent(iter.tree)])
    BY <1>1, <2>1, ChoiceHolds
  <2> QED BY <1>5, <1>6, <2>1, <2>2 DEF OptInv, Shapes, Filled
<1>8. cfg'.var = base
  <2>1. Len(iter.stack) = 0
    BY <1>2, <1>7, StackIs, FloorRoot DEF TreeInv, StandsIn
  <2>2. LeftCfg.lvl = floor + 0 /\ floor \in Nat
    BY <1>2, <2>1, LeftValues
  <2>3. ValueAt(LeftCfg, floor) = base
    BY <1>2, HoldsLeft
  <2> QED BY <1>1, <2>2, <2>3 DEF ValueAt
<1>9. call.then # "headed"
  BY <1>1, <1>5, <1>6, HeadedChoice
<1>10. \/ pc' = "crash" /\ UNCHANGED <<call, res>>
       \/ Return("error")
       \/ Again("step", Rest(call.d))
  BY DEF StepInvalid
<1>11. CASE pc' = "crash"
  <2>1. Shapes(kids', rnd', params', sends') /\ floor' = floor /\ base' = base /\ kids' = kids /\ params' = params
    BY <1>3 DEF StaticStep, OptInv
  <2>2. pc' \notin Thens \union {"call"} /\ want'[1] # PT_STOP
    BY <1>3, <1>11 DEF Thens, StaticStep, OptInv, Settled
  <2> QED BY <1>2, <1>4, <1>11, <2>1, <2>2, QuietHolds
<1>12. CASE Return("error")
  BY <1>2, <1>3, <1>4, <1>8, <1>9, <1>12, ReturnHolds
<1>13. CASE Again("step", Rest(call.d))
  BY <1>2, <1>3, <1>4, <1>9, <1>13, AgainHolds
<1> QED BY <1>10, <1>11, <1>12, <1>13

LEMMA EntryHolds ==
  ASSUME LevelsInv, SlotsInv, TreeInv, OptInv, Real, NEW n \in Nodes, StepEntry(n)
  PROVE  OptInv'
<1>1. Stepping /\ n \in Choices(call.d) /\ iter' = AtEntry(n) /\ cfg' = PushParams(LeftCfg, n)
      /\ own' = NoValue /\ Files[n] > 0 /\ Return("entry")
  BY DEF StepEntry, SetIt
<1>2. /\ pc = "call" /\ Live /\ Holds(kids, params, floor, iter, own, cfg, base)
      /\ Left.stack = iter.stack /\ DOMAIN Left = DOMAIN NewIter
  BY <1>1, SteppingHolds
<1>3. iter'.tree = n /\ iter'.stack = iter.stack /\ iter'.pushed = 1
  BY <1>1, <1>2, Fields DEF AtEntry
<1>4. StaticStep
  BY StepIsStatic DEF IterStep
<1>5. n # NoNode /\ n \in Set(Siblings(iter.tree)) /\ FirstNames(params)
  BY <1>1, ChoiceHolds DEF OptInv, Shapes
<1>6. Holds(kids, params, floor, iter', own', cfg', base)
  BY <1>1, <1>2, <1>3, <1>5, HoldsEntered
<1>7. OnEntry'
  BY <1>1, <1>3 DEF OnEntry, Entries
<1> QED BY <1>1, <1>2, <1>3, <1>4, <1>5, <1>6, <1>7, ReturnHolds DEF OnEntry

LEMMA UpDownHolds ==
  ASSUME LevelsInv, SlotsInv, TreeInv, OptInv, Real, UpEnd \/ UpStep \/ DownStep
  PROVE  OptInv'
<1>2. /\ pc = "call" /\ Live /\ It = iter /\ own' = own /\ ~Calling("step")
      /\ (Calling("up") \/ Calling("down"))
  BY DEF UpEnd, UpStep, DownStep, Calling, Live, It
<1>3. StandsIn(kids, iter)
  BY <1>2 DEF TreeInv, Stands, Calling, Called
<1>4. Len(iter.stack) \in Nat /\ iter.stack \in Seq(Range(iter.stack)) /\ DOMAIN iter = DOMAIN NewIter /\ iter.pushed \in {0, 1}
  BY StackIs DEF LevelsInv, IsIter
<1>5. Holds(kids, params, floor, iter, own, cfg, base) /\ iter.tree \in Nodes /\ iter.tree # NoNode
  BY <1>2, <1>3, <1>4, HoldingIs
<1>6. StaticStep
  BY StepIsStatic DEF IterStep
<1>7. CASE UpEnd
  <2>1. iter' = [iter EXCEPT !.file = -1] /\ iter.tree = Root /\ Return("end") /\ cfg' = cfg /\ call.fn = "up"
    BY <1>2, <1>7 DEF UpEnd, SetIt, Calling
  <2>2. iter'.tree = iter.tree /\ iter'.stack = iter.stack /\ iter'.pushed = iter.pushed
    BY <1>4, <2>1, Fields
  <2>3. iter.pushed = 0
    <3>1. Root \notin Entries
      BY TreeAssumption DEF Entries
    <3> QED BY <1>2, <1>4, <2>1, <3>1 DEF OptInv, Settled
  <2>4. cfg.var = base
    <3>1. Len(iter.stack) = 0
      BY <1>3, <1>4, <2>1, FloorRoot DEF TreeInv, StandsIn
    <3>2. cfg.lvl = floor
      BY <1>2, <2>3, <3>1 DEF LevelsInv, Balanced
    <3> QED BY <1>5, <3>2 DEF Holds, ValueAt
  <2>5. Holds(kids, params, floor, iter', own', cfg', base)
    BY <1>2, <1>5, <2>1, <2>2 DEF Holds, Stacked
  <2>6. call.then # "headed"
    BY <1>2, <2>1 DEF OptInv, Heading
  <2> QED BY <1>2, <1>5, <1>6, <2>1, <2>2, <2>3, <2>4, <2>5, <2>6, ReturnHolds
<1>8. CASE UpStep
  <2>1. /\ iter' = Above(iter) /\ iter.tree # Root /\ iter.stack # <<>> /\ Again("step", call.d)
        /\ call.fn = "up" /\ cfg' = Pop(cfg)
    BY <1>2, <1>8 DEF UpStep, SetIt, Calling
  <2>2. iter'.tree = Parent(iter.tree) /\ iter'.stack = SubSeq(iter.stack, 1, Len(iter.stack) - 1)
        /\ iter'.pushed = iter.pushed
    BY <1>4, <2>1, Fields DEF Above
  <2>3. Holds(kids, params, floor, iter', own', cfg', base)
    BY <1>2, <1>5, <2>1, <2>2, HoldsRisen
  <2>4. Parent(iter.tree) # NoNode
    BY <1>3, <1>4, <2>1, FloorParent, TreeAssumption DEF StandsIn, TreeInv
  <2>5. call.then # "headed"
    BY <1>2, <2>1 DEF OptInv, Heading
  <2> QED BY <1>2, <1>6, <2>1, <2>2, <2>3, <2>4, <2>5, AgainHolds
<1>9. CASE DownStep
  <2> DEFINE s == kids[iter.tree]
  <2>1. iter' = Below(iter, call.d) /\ Again("step", 0) /\ Calling("down") /\ cfg' = PushParams(cfg, iter.tree)
        /\ played' = played
    BY <1>2, <1>9 DEF DownStep, SetIt, Calling
  <2>2. iter'.stack = Append(iter.stack, iter.loop) /\ iter'.tree \in {s[1], s[Len(s)]} /\ iter'.pushed = iter.pushed
    BY <1>4, <2>1, Fields DEF Below
  <2>3. iter.pushed = 0
    BY <2>1 DEF OptInv, Settled
  <2>4. s # <<>> /\ s \in Seq(Nodes)
    BY <1>5, <2>1 DEF TreeInv, Calls, Grows
  <2>5. 1 \in DOMAIN s /\ Len(s) \in DOMAIN s
    <3> HIDE DEF s
    <3>1. Len(s) \in Nat /\ Len(s) # 0 /\ DOMAIN s = 1 .. Len(s)
      BY <2>4, EmptySeq, LenProperties
    <3> QED BY <3>1
  <2>6. iter'.tree \in Set(s)
    BY <2>2, <2>5 DEF Set
  <2>7. iter'.tree # NoNode
    <3>1. Set(s) \subseteq Nodes
      BY <2>4, SetIs
    <3> QED BY <2>6, <3>1, TreeAssumption
  <2>8. FirstNames(params)
    BY DEF OptInv, Shapes
  <2>9. Holds(kids, params, floor, iter', own', cfg', base)
    BY <1>2, <1>5, <2>1, <2>2, <2>3, <2>6, <2>8, HoldsLowered
  <2> QED BY <1>2, <1>6, <2>1, <2>7, <2>9, AgainHolds
<1> QED BY <1>7, <1>8, <1>9

\* A step that is tried.
LEMMA CopyHolds ==
  ASSUME LevelsInv, TreeInv, OptInv, ~Real, IterStep
  PROVE  OptInv'
<1>1. pc = "call"
  BY DEF IterStep, StepEnter, StepRoundOver, StepAround, StepUp, StepList, StepInvalid, StepEntry,
         UpEnd, UpStep, DownStep, Stepping, Calling
<1>2. iter' = iter /\ cfg' = cfg /\ own' = own
  <2>1. own' = own
    BY DEF IterStep, StepEnter, StepRoundOver, StepAround, StepUp, StepList, StepInvalid, StepEntry,
           UpEnd, UpStep, DownStep
  <2> QED BY <2>1, CopyStep
<1>3. UNCHANGED <<kids, rnd, params, sends, old, want, floor, base, eof>>
  BY StepIsStatic DEF StaticStep
<1>4. call.then = "tried" /\ OnEntry /\ ~call.nodes
  BY <1>1 DEF OptInv, Settled
<1>5. Holds(kids, params, floor, iter, own, cfg, base) /\ iter.tree # NoNode
  <2>1. StandsIn(kids, iter)
    BY <1>1 DEF TreeInv, Stands, Live, Real, Called
  <2> QED BY <1>1, <2>1, StackIs, HoldingIs DEF Live
<1>6. Holds(kids', params', floor', iter', own', cfg', base') /\ Shapes(kids', rnd', params', sends') /\ OnEntry'
  BY <1>2, <1>3, <1>4, <1>5 DEF OptInv, OnEntry
<1>7. \/ \E fn, d : Again(fn, d)
      \/ \E r : Return(r)
      \/ pc' = "crash"
  <2>1. ASSUME NEW n \in Nodes, StepList(n) \/ StepInvalid(n) \/ StepEntry(n)
        PROVE  \/ \E fn, d : Again(fn, d)
               \/ \E r : Return(r)
               \/ pc' = "crash"
    BY <2>1 DEF StepList, StepInvalid, StepEntry
  <2>2. CASE StepEnter \/ StepRoundOver \/ StepAround \/ StepUp \/ UpEnd \/ UpStep \/ DownStep
    BY <2>2 DEF StepEnter, StepRoundOver, StepAround, StepUp, UpEnd, UpStep, DownStep
  <2> QED BY <2>1, <2>2 DEF IterStep
<1>8. ASSUME NEW fn, NEW d, Again(fn, d) PROVE OptInv'
  <2>1. /\ call'.nodes = call.nodes /\ call'.who = call.who /\ call'.then = call.then /\ pc' = "call" /\ res' = res
    BY <1>1, <1>8, CallFields DEF TreeInv, Calls, Again
  <2>2. Holding'
    BY <1>2, <1>5, <1>6, <2>1 DEF Holding, Live
  <2>3. Settled'
    BY <1>3, <1>4, <1>6, <2>1 DEF OptInv, Settled, Real, OnEntry
  <2>4. Answered' /\ Heading' /\ Filing'
    BY <1>4, <2>1 DEF Answered, Heading, Filing, Thens
  <2> QED BY <1>6, <2>2, <2>3, <2>4 DEF OptInv
<1>9. ASSUME pc' \in {"tried", "crash"} PROVE OptInv'
  <2>1. pc' \notin Thens \union {"call"} /\ want'[1] # PT_STOP
    BY <1>3, <1>9 DEF Thens, OptInv, Settled
  <2> QED BY <1>2, <1>5, <1>6, <1>9, <2>1, QuietHolds DEF OnEntry
<1>10. (\E r : Return(r)) => pc' = "tried"
  BY <1>4 DEF Return
<1> QED BY <1>7, <1>8, <1>9, <1>10

LEMMA IterStepHolds ==
  ASSUME WellGrown, LevelsInv, SlotsInv, TreeInv, OptInv, IterStep
  PROVE  OptInv'
<1>1. CASE ~Real
  BY <1>1, CopyHolds
<1>2. CASE Real
  <2>1. ASSUME NEW n \in Nodes, StepList(n) \/ StepInvalid(n) \/ StepEntry(n) PROVE OptInv'
    BY <1>2, <2>1, ListHolds, InvalidHolds, EntryHolds
  <2>2. CASE StepEnter \/ StepRoundOver \/ StepAround \/ StepUp
    BY <1>2, <2>2, EnterHolds, RoundHolds, AroundHolds
  <2>3. CASE UpEnd \/ UpStep \/ DownStep
    BY <1>2, <2>3, UpDownHolds
  <2> QED BY <2>1, <2>2, <2>3 DEF IterStep
<1> QED BY <1>1, <1>2

----------------------------------------------------------------------------
\* Levels and shapes when the tree changes.
SameOn(w, n, qs, ps) == \A d \in 0 .. n : qs[w[d]] = ps[w[d]]

LEMMA StackedKept ==
  ASSUME NEW k, NEW h, NEW ps, NEW qs, NEW f, NEW n \in Nat, NEW t, NEW o, NEW c, NEW top, NEW w,
         Way(k, n, t, w), Pushed(ps, f, n, w, c), top = 1 => OnTop(ps, f, n, t, o, c),
         \A d \in 0 .. n - 1 : w[d + 1] \in Set(h[w[d]]),
         SameOn(w, n, qs, ps)
  PROVE  Stacked(h, qs, f, n, t, o, c, top)
<1>1. Way(h, n, t, w)
  BY DEF Way
<1>2. Pushed(qs, f, n, w, c)
  <2> SUFFICES ASSUME NEW d \in 0 .. n - 1 PROVE ValueAt(c, f + d + 1) = Chosen(qs, w[d], ValueAt(c, f + d))
    BY DEF Pushed
  <2>1. d \in 0 .. n
    OBVIOUS
  <2>2. ValueAt(c, f + d + 1) = Chosen(ps, w[d], ValueAt(c, f + d))
    BY DEF Pushed
  <2> QED BY <2>1, <2>2 DEF Chosen, SameOn
<1>3. qs[t] = ps[t]
  <2>1. n \in 0 .. n /\ w[n] = t
    BY DEF Way
  <2> QED BY <2>1 DEF SameOn
<1>4. top = 1 => OnTop(qs, f, n, t, o, c)
  BY <1>3 DEF OnTop, Chosen
<1> QED BY <1>1, <1>2, <1>4 DEF Stacked

LEMMA HoldsAttached ==
  ASSUME WellGrown, TreeInv, Len(iter.stack) \in Nat, Holds(kids, params, floor, iter, own, cfg, base),
         NEW h, \A x \in Nodes : Set(kids[x]) \subseteq Set(h[x]),
         NEW q, \A x \in InTree : q[x] = params[x]
  PROVE  Holds(h, q, floor, iter, own, cfg, base)
<1> DEFINE n == Len(iter.stack)
<1>1. PICK w : Way(kids, n, iter.tree, w) /\ Pushed(params, floor, n, w, cfg)
  BY DEF Holds, Stacked
<1>2. Rank \in [Nodes -> 0 .. MaxDepth] /\ kids \in [Nodes -> Seq(Nodes)] /\ Falling(Rank, kids)
  BY RankIs DEF TreeInv, Grows
<1>3. \A d \in 0 .. n : w[d] \in Subtree(kids, Root)
  BY <1>1, <1>2, WayInTree
<1>4. \A d \in 0 .. n : q[w[d]] = params[w[d]]
  BY <1>3 DEF InTree
<1>5. \A d \in 0 .. n - 1 : w[d + 1] \in Set(h[w[d]])
  <2> SUFFICES ASSUME NEW d \in 0 .. n - 1 PROVE w[d + 1] \in Set(h[w[d]])
    OBVIOUS
  <2>1. d \in 0 .. n
    OBVIOUS
  <2>2. w[d] \in Nodes /\ w[d + 1] \in Set(kids[w[d]])
    BY <1>1, <2>1 DEF Way
  <2> QED BY <2>2
<1> HIDE DEF n
<1>6. iter.pushed = 1 => OnTop(params, floor, n, iter.tree, own, cfg)
  BY DEF Holds, Stacked, n
<1>7. Stacked(h, q, floor, n, iter.tree, own, cfg, iter.pushed)
  <2>1. n \in Nat /\ Way(kids, n, iter.tree, w) /\ Pushed(params, floor, n, w, cfg)
    BY <1>1 DEF n
  <2>2. SameOn(w, n, q, params)
    BY <1>4 DEF n, SameOn
  <2>3. \A d \in 0 .. n - 1 : w[d + 1] \in Set(h[w[d]])
    BY <1>5 DEF n
  <2> QED BY <1>6, <2>1, <2>2, <2>3, StackedKept
<1> QED BY <1>7 DEF Holds, n

LEMMA HoldsRemoved ==
  ASSUME TreeInv, Len(iter.stack) \in Nat, Holds(kids, params, floor, iter, own, cfg, base),
         old \in Entries, iter.tree # old,
         NEW h, \A x \in Nodes : Set(h[x]) = Set(kids[x]) \ {old}
  PROVE  Holds(h, params, floor, iter, own, cfg, base)
<1> DEFINE n == Len(iter.stack)
<1>1. PICK w : Way(kids, n, iter.tree, w) /\ Pushed(params, floor, n, w, cfg)
  BY DEF Holds, Stacked
<1>2. \A d \in 0 .. n - 1 : w[d] \notin Entries
  BY <1>1, WayIsLists DEF TreeInv, Grows
<1>3. \A d \in 0 .. n - 1 : w[d + 1] \in Set(h[w[d]])
  <2> SUFFICES ASSUME NEW d \in 0 .. n - 1 PROVE w[d + 1] \in Set(h[w[d]])
    OBVIOUS
  <2>1. d \in 0 .. n
    OBVIOUS
  <2>2. w[d] \in Nodes /\ w[d + 1] \in Set(kids[w[d]])
    BY <1>1, <2>1 DEF Way
  <2>3. w[d + 1] # old
    <3>1. CASE d = n - 1
      <4>1. w[d + 1] = iter.tree
        BY <1>1, <3>1 DEF Way
      <4> QED BY <4>1
    <3>2. CASE d # n - 1
      <4>1. d + 1 \in 0 .. n - 1
        BY <3>2
      <4> QED BY <1>2, <4>1
    <3> QED BY <3>1, <3>2
  <2> QED BY <2>2, <2>3
<1> HIDE DEF n
<1>4. iter.pushed = 1 => OnTop(params, floor, n, iter.tree, own, cfg)
  BY DEF Holds, Stacked, n
<1>5. Stacked(h, params, floor, n, iter.tree, own, cfg, iter.pushed)
  <2>1. n \in Nat /\ SameOn(w, n, params, params)
    BY DEF n, SameOn
  <2> QED BY <1>1, <1>3, <1>4, <2>1, StackedKept
<1> QED BY <1>5 DEF Holds, n

LEMMA HoldsSame ==
  ASSUME NEW k, NEW ps, NEW f, NEW i, NEW o, NEW c, NEW b, Holds(k, ps, f, i, o, c, b),
         NEW j, j.tree = i.tree, j.stack = i.stack, j.pushed = i.pushed
  PROVE  Holds(k, ps, f, j, o, c, b)
  BY DEF Holds, Stacked

\* What is new is not empty and has no options.
LEMMA AttachShapes ==
  ASSUME WellGrown, Filling, TreeInv, OptInv, NEW l \in Nodes, IsNew(l), Fills(l),
         NEW p \in InTree, p \in Nodes, NEW h, Attached(h, p, l),
         \A x \in Nodes : Set(kids[x]) \subseteq Set(h[x]),
         NEW r, \A n \in Nodes : r[n] => n \notin New(l) /\ rnd[n],
         NEW q, \A n \in Nodes : n \notin New(l) => q[n] = params[n], FirstNames(q)
  PROVE  Shapes(h, r, q, sends)
<1>1. /\ Rank \in [Nodes -> 0 .. MaxDepth] /\ FitContent(Rank) /\ Grows(Rank, kids)
  BY RankIs DEF WellGrownBy, TreeInv
<1>2. /\ l \in New(l) /\ Set(Content[l]) \subseteq New(l)
      /\ \A n \in New(l) : n # Root /\ kids[n] = <<>> /\ \A x \in Nodes : n \notin Set(kids[x])
  BY <1>1, NewIs
<1>3. /\ Set(h[p]) = Set(kids[p]) \union {l} /\ h[l] = Content[l]
      /\ \A x \in Nodes \ {p, l} : h[x] = kids[x]
  BY DEF Attached
<1>0. Set(<<>>) = {}
  BY DEF Set
<1>4. p \notin New(l)
  BY DEF IsNew
<1>5. Filled(h)
  <2> SUFFICES ASSUME NEW x \in Nodes, NEW c \in Set(h[x]) PROVE c \in Entries \/ h[c] # <<>>
    BY DEF Filled
  <2>1. CASE c = l
    <3>1. l \in Entries \/ Content[l] # <<>>
      BY DEF Fills
    <3> QED BY <1>3, <2>1, <3>1
  <2>2. CASE c \in Set(kids[x])
    <3>1. c \in Nodes
      <4>1. kids[x] \in Seq(Nodes)
        BY <1>1 DEF Grows
      <4> QED BY <2>2, <4>1, SetIs
    <3>2. c \in Entries \/ kids[c] # <<>>
      BY <2>2 DEF OptInv, Shapes, Filled
    <3>3. kids[c] # <<>> => Set(kids[c]) # {}
      <4>1. kids[c] \in Seq(Nodes)
        BY <1>1, <3>1 DEF Grows
      <4> QED BY <4>1, SetIs
    <3>4. Set(kids[c]) \subseteq Set(h[c])
      BY <3>1
    <3> QED BY <1>0, <3>2, <3>3, <3>4
  <2>3. CASE x = l
    <3>1. Set(Content[l]) \subseteq Entries
      BY DEF Filling
    <3>2. h[x] = Content[l]
      BY <1>3, <2>3
    <3> QED BY <3>1, <3>2
  <2>4. c = l \/ c \in Set(kids[x]) \/ x = l
    BY <1>3
  <2> QED BY <2>1, <2>2, <2>3, <2>4
<1>6. PICK B \in SUBSET Nodes :
        /\ \A n \in Nodes : rnd[n] => n \in B
        /\ \A x \in B : params[x] = <<>>
        /\ \A x \in Nodes : \A c \in Set(kids[x]) : c \in B => x \in B
  BY DEF OptInv, Shapes, Bare
<1> DEFINE D == B \ New(l)
<1>7. D \in SUBSET Nodes /\ (\A n \in Nodes : r[n] => n \in D) /\ \A x \in D : q[x] = <<>>
  BY <1>6
<1>8. \A x \in Nodes : \A c \in Set(h[x]) : c \in D => x \in D
  <2> SUFFICES ASSUME NEW x \in Nodes, NEW c \in Set(h[x]), c \in D PROVE x \in D
    OBVIOUS
  <2>1. c \notin New(l) /\ c # l /\ c \in B
    BY <1>2
  <2>2. CASE x = l
    BY <1>2, <1>3, <2>1, <2>2
  <2>3. CASE x # l
    <3>1. c \in Set(kids[x])
      BY <1>3, <2>1, <2>3
    <3>2. x \in B
      BY <1>6, <2>1, <3>1
    <3>3. x \notin New(l)
      BY <1>2, <1>3, <3>1
    <3> QED BY <3>2, <3>3
  <2> QED BY <2>2, <2>3
<1> HIDE DEF D
<1>9. Bare(h, r, q)
  BY <1>7, <1>8 DEF Bare
<1>10. FitSends(sends)
  BY DEF OptInv, Shapes
<1> QED BY <1>5, <1>9, <1>10 DEF Shapes

LEMMA ReplantShapes ==
  ASSUME WellGrown, Filling, TreeInv, OptInv, NEW l \in Nodes, IsNew(l), Fills(l), Replant(l), sends' = sends
  PROVE  /\ Shapes(kids', rnd', params', sends')
         /\ kids'[Root] # <<>> /\ \A x \in Nodes : \A c \in Set(kids'[x]) : ~played'[c]
<1>1. /\ Rank \in [Nodes -> 0 .. MaxDepth] /\ FitContent(Rank) /\ Grows(Rank, kids)
  BY RankIs DEF WellGrownBy, TreeInv
<1>2. /\ l \in New(l) /\ Set(Content[l]) \subseteq New(l) /\ New(l) \in SUBSET Nodes
      /\ \A n \in New(l) : n # Root /\ kids[n] = <<>>
  BY <1>1, NewIs
<1>3. Root \in Nodes /\ Set(<<>>) = {} /\ Set(<<l>>) = {l} /\ l # Root
  BY <1>2, TreeAssumption DEF Set
<1>4. /\ kids'[Root] = <<l>> /\ kids'[l] = Content[l]
      /\ \A x \in Nodes \ {Root, l} : kids'[x] = <<>>
  <2>1. kids' = Replanted(l) /\ kids \in [Nodes -> Seq(Nodes)]
    BY <1>1 DEF Replant, Grows
  <2>2. Grown(kids, l)[l] = Content[l] /\ \A x \in Nodes \ {l} : Grown(kids, l)[x] = kids[x]
    BY <2>1 DEF Grown
  <2> QED BY <1>2, <1>3, <2>1, <2>2 DEF Replanted
<1>5. Set(kids'[Root]) = {l} /\ \A x \in Nodes : Set(kids'[x]) \subseteq New(l)
  <2>1. Set(kids'[Root]) = {l}
    BY <1>3, <1>4
  <2>2. ASSUME NEW x \in Nodes PROVE Set(kids'[x]) \subseteq New(l)
    <3>1. CASE x = Root
      BY <1>2, <2>1, <3>1
    <3>2. CASE x = l
      BY <1>2, <1>4, <3>2
    <3>3. CASE x \notin {Root, l}
      BY <1>3, <1>4, <3>3
    <3> QED BY <3>1, <3>2, <3>3
  <2> QED BY <2>1, <2>2
<1>6. /\ played' = Anew(played, l, FALSE) /\ params' = Anew(params, l, <<>>) /\ rnd' = Anew(rnd, l, FALSE)
  BY DEF Replant
<1>7. \A x \in Nodes : \A c \in Set(kids'[x]) : ~played'[c]
  BY <1>2, <1>5, <1>6 DEF Anew
<1>8. Filled(kids')
  <2> SUFFICES ASSUME NEW x \in Nodes, NEW c \in Set(kids'[x]) PROVE c \in Entries \/ kids'[c] # <<>>
    BY DEF Filled
  <2>1. CASE x = Root
    <3>1. c = l
      BY <1>5, <2>1
    <3>2. l \in Entries \/ Content[l] # <<>>
      BY DEF Fills
    <3>3. kids'[c] = Content[l]
      BY <1>4, <3>1
    <3> QED BY <3>1, <3>2, <3>3
  <2>2. CASE x = l
    <3>1. Set(Content[l]) \subseteq Entries
      BY DEF Filling
    <3> QED BY <1>4, <2>2, <3>1
  <2>3. CASE x \notin {Root, l}
    BY <1>3, <1>4, <2>3
  <2> QED BY <2>1, <2>2, <2>3
<1>9. FirstNames(params')
  BY <1>6 DEF OptInv, Shapes, FirstNames, Anew
<1>10. PICK B \in SUBSET Nodes :
        /\ \A n \in Nodes : rnd[n] => n \in B
        /\ \A x \in B : params[x] = <<>>
  BY DEF OptInv, Shapes, Bare
<1> DEFINE D == B \ New(l)
<1>11. D \in SUBSET Nodes /\ (\A n \in Nodes : rnd'[n] => n \in D) /\ \A x \in D : params'[x] = <<>>
  BY <1>6, <1>10 DEF Anew
<1>12. \A x \in Nodes : \A c \in Set(kids'[x]) : c \in D => x \in D
  BY <1>5
<1> HIDE DEF D
<1>13. Bare(kids', rnd', params')
  BY <1>11, <1>12 DEF Bare
<1>14. FitSends(sends')
  BY DEF OptInv, Shapes
<1> QED BY <1>4, <1>7, <1>8, <1>9, <1>13, <1>14 DEF Shapes

LEMMA RemoveShapes ==
  ASSUME TreeInv, OptInv, NotLast(kids, old),
         NEW h \in [Nodes -> Seq(Nodes)], \A x \in Nodes : Set(h[x]) = Set(kids[x]) \ {old}
  PROVE  Shapes(h, rnd, params, sends)
<1>1. Set(<<>>) = {} /\ Grows(Rank, kids) /\ kids \in [Nodes -> Seq(Nodes)]
  BY DEF Set, TreeInv, Grows
<1>2. Filled(h)
  <2> SUFFICES ASSUME NEW x \in Nodes, NEW c \in Set(h[x]), c \notin Entries PROVE h[c] # <<>>
    BY DEF Filled
  <2>1. c \in Set(kids[x]) /\ c \in Nodes
    <3>1. kids[x] \in Seq(Nodes)
      BY <1>1
    <3> QED BY <3>1, SetIs
  <2>2. kids[c] # <<>>
    BY <2>1 DEF OptInv, Shapes, Filled
  <2>3. kids[c] \in Seq(Nodes)
    BY <1>1, <2>1
  <2>4. CASE old \notin Set(kids[c])
    <3>1. Set(kids[c]) # {}
      BY <2>2, <2>3, SetIs
    <3> QED BY <1>1, <2>1, <2>4, <3>1
  <2>5. CASE old \in Set(kids[c])
    <3>1. PICK y \in Nodes : \E i \in DOMAIN kids[y] : kids[y][i] = old /\ i + 1 \in DOMAIN kids[y]
      BY DEF NotLast
    <3>2. PICK i \in DOMAIN kids[y] : kids[y][i] = old /\ i + 1 \in DOMAIN kids[y]
      BY <3>1
    <3>3. y = c
      <4>1. old \in Set(kids[y])
        BY <3>2 DEF Set
      <4> QED BY <1>1, <2>1, <2>5, <4>1 DEF Grows, OneParent
    <3>4. i \in Int /\ i + 1 # i
      BY <2>3, <3>2, <3>3, LenProperties
    <3>5. kids[c][i + 1] # old
      BY <1>1, <2>1, <3>2, <3>3, <3>4 DEF Grows, OnePlace, Distinct
    <3>6. kids[c][i + 1] \in Set(kids[c])
      BY <3>2, <3>3 DEF Set
    <3> QED BY <1>1, <2>1, <3>5, <3>6
  <2> QED BY <2>4, <2>5
<1>3. Bare(h, rnd, params)
  <2>1. PICK B \in SUBSET Nodes :
          /\ \A n \in Nodes : rnd[n] => n \in B
          /\ \A x \in B : params[x] = <<>>
          /\ \A x \in Nodes : \A c \in Set(kids[x]) : c \in B => x \in B
    BY DEF OptInv, Shapes, Bare
  <2>2. \A x \in Nodes : \A c \in Set(h[x]) : c \in B => x \in B
    BY <2>1
  <2> QED BY <2>1, <2>2 DEF Bare
<1> QED BY <1>2, <1>3 DEF OptInv, Shapes

----------------------------------------------------------------------------
\* The player's steps.
LEMMA Resting ==
  ASSUME LevelsInv, TreeInv, OptInv, pc \notin {"call", "idle"}
  PROVE  /\ StandsIn(kids, iter) /\ Len(iter.stack) \in Nat /\ DOMAIN iter = DOMAIN NewIter
         /\ Holds(kids, params, floor, iter, own, cfg, base) /\ iter.tree # NoNode /\ iter.tree \in Nodes
         /\ iter.pushed = 1 => iter.tree \in Entries
<1>1. StandsIn(kids, iter) /\ Len(iter.stack) \in Nat /\ Live /\ ~Calling("step")
  BY Standing, StackIs DEF Live, Calling
<1>2. Holds(kids, params, floor, iter, own, cfg, base) /\ iter.tree # NoNode /\ iter.tree \in Nodes
  BY <1>1, HoldingIs
<1>3. iter.pushed = 1 => iter.tree \in Entries
  BY <1>1 DEF OptInv, Settled
<1> QED BY <1>1, <1>2, <1>3 DEF LevelsInv, IsIter

\* The calls the invariant says no more of.
LEMMA PlainCall ==
  ASSUME NEW fn, NEW d, NEW nodes, NEW who, NEW then, Call(fn, d, nodes, who, then),
         then \notin {"headed", "rewound", "replaced"}
  PROVE  Heading' /\ Filing'
<1>1. pc' = "call" /\ call'.then = then
  BY DEF Call, Called
<1> QED BY <1>1 DEF Heading, Filing

\* What a step keeps when it leaves the tree and the levels as they are.
SameHold == UNCHANGED <<kids, rnd, params, sends, floor, own, cfg, base>>

LEMMA SameHolds ==
  ASSUME LevelsInv, TreeInv, OptInv, pc \notin {"call", "idle"}, SameHold
  PROVE  /\ Shapes(kids', rnd', params', sends')
         /\ iter' = iter => /\ Holds(kids', params', floor', iter', own', cfg', base') /\ iter'.tree # NoNode
                            /\ iter'.pushed = 1 => iter'.tree \in Entries
         /\ \A f : iter' = [iter EXCEPT !.file = f] =>
              /\ Holds(kids', params', floor', iter', own', cfg', base') /\ iter'.tree # NoNode
              /\ iter'.tree = iter.tree /\ iter'.pushed = iter.pushed
<1>1. Shapes(kids', rnd', params', sends')
  BY DEF SameHold, OptInv
<1>2. ASSUME iter' = iter
      PROVE  /\ Holds(kids', params', floor', iter', own', cfg', base') /\ iter'.tree # NoNode
             /\ iter'.pushed = 1 => iter'.tree \in Entries
  BY <1>2, Resting DEF SameHold
<1>3. ASSUME NEW f, iter' = [iter EXCEPT !.file = f]
      PROVE  /\ Holds(kids', params', floor', iter', own', cfg', base') /\ iter'.tree # NoNode
             /\ iter'.tree = iter.tree /\ iter'.pushed = iter.pushed
  <2>1. iter'.tree = iter.tree /\ iter'.pushed = iter.pushed /\ iter'.stack = iter.stack
    BY <1>3, Resting, Fields
  <2>2. Holds(kids, params, floor, iter', own, cfg, base)
    BY <2>1, Resting, HoldsSame
  <2> QED BY <2>1, <2>2, Resting DEF SameHold
<1> QED BY <1>1, <1>2, <1>3

LEMMA StartedHolds ==
  ASSUME LevelsInv, TreeInv, OptInv, Started \/ Stepped \/ NextAgain
  PROVE  OptInv'
<1>1. pc \in {"started", "stepped", "upped", "again"} /\ SameHold /\ want' = want
  BY DEF Started, Stepped, NextAgain, SameHold, tree, told
<1>2. want'[1] # PT_STOP /\ (res = "entry" => OnEntry) /\ (res # "entry" => cfg.var = base)
  BY <1>1 DEF OptInv, Settled, Answered, Thens
<1>3. CASE res # "entry"
  <2>1. pc' = "idle" /\ cfg' = cfg /\ base' = base
    BY <1>1, <1>3 DEF Started, Stepped, NextAgain, Freed, SameHold
  <2> QED BY <1>1, <1>2, <1>3, <2>1, SameHolds, QuietHolds DEF Thens
<1>4. CASE res = "entry" /\ Started
  <2>1. PICK f \in Sources(iter, 1) : iter' = [iter EXCEPT !.file = f]
    BY <1>4 DEF Started
  <2>2. pc' = "open"
    BY <1>4 DEF Started
  <2>3. /\ Holds(kids', params', floor', iter', own', cfg', base') /\ iter'.tree # NoNode
        /\ OnEntry' /\ Shapes(kids', rnd', params', sends')
    BY <1>1, <1>2, <1>4, <2>1, SameHolds DEF OnEntry
  <2> QED BY <1>2, <2>2, <2>3, QuietHolds DEF Thens, OnEntry
<1>5. CASE res = "entry" /\ (Stepped \/ NextAgain)
  <2>1. iter' = iter /\ pc' = "file"
    BY <1>5 DEF Stepped, NextAgain
  <2>2. /\ Holds(kids', params', floor', iter', own', cfg', base') /\ iter'.tree # NoNode
        /\ OnEntry' /\ Shapes(kids', rnd', params', sends')
    BY <1>1, <1>2, <1>5, <2>1, SameHolds DEF OnEntry
  <2> QED BY <1>2, <2>1, <2>2, QuietHolds DEF Thens, OnEntry
<1> QED BY <1>3, <1>4, <1>5

\* What a front end interrupts an opening with is no stop.
LEMMA InterruptedIs == \A c : Interrupted(c)[1] # PT_STOP
  BY DEF Interrupted, PT_STOP, PT_NEXT_ENTRY, PT_PREV_ENTRY, PT_UP_NEXT, PT_UP_PREV, PT_NEXT_SRC, PT_PREV_SRC

LEMMA PlayingHolds ==
  ASSUME LevelsInv, TreeInv, OptInv, OpenFails \/ Opens \/ Tried \/ Headed \/ FileEnds
  PROVE  OptInv'
<1>1. /\ pc \in {"open", "tried", "headed", "play"} /\ SameHold /\ want' = want /\ iter' = iter
      /\ pc' = "play" \/ (pc' = "next" /\ eof' # PT_STOP)
  <2>1. SameHold /\ want' = want /\ iter' = iter
    BY DEF OpenFails, Opens, Tried, Headed, FileEnds, SameHold, tree, told, Sent
  <2>2. pc \in {"open", "tried", "headed", "play"}
    BY DEF OpenFails, Opens, Tried, Headed, FileEnds
  <2>3. CASE OpenFails
    <3>1. Leave(PT_NEXT_ENTRY) \/ \E c \in sends : Leave(Interrupted(c)[1])
      BY <2>3 DEF OpenFails
    <3> QED BY <2>1, <2>2, <3>1, InterruptedIs DEF Leave, PT_NEXT_ENTRY, PT_STOP
  <2>4. CASE Tried
    <3>1. want[1] # PT_STOP
      BY DEF OptInv, Settled
    <3> QED BY <2>1, <2>2, <2>4, <3>1 DEF Tried, Leave
  <2>5. CASE Opens \/ Headed \/ FileEnds
    BY <2>1, <2>2, <2>5 DEF Opens, Headed, FileEnds, Leave, PT_NEXT_ENTRY, PT_NEXT_SRC, PT_STOP
  <2> QED BY <2>3, <2>4, <2>5
<1>2. want'[1] # PT_STOP /\ OnEntry
  BY <1>1 DEF OptInv, Settled, Answered, Heading, Thens
<1>3. /\ Holds(kids', params', floor', iter', own', cfg', base') /\ iter'.tree # NoNode
      /\ OnEntry' /\ Shapes(kids', rnd', params', sends')
  BY <1>1, <1>2, SameHolds DEF OnEntry
<1> QED BY <1>1, <1>2, <1>3, QuietHolds DEF Thens, OnEntry

LEMMA LeavingHolds ==
  ASSUME LevelsInv, TreeInv, OptInv, Stopping \/ NextFile \/ GetFile
  PROVE  OptInv'
<1> USE DEF Went
<1>1. pc \in {"stopping", "next", "file"} /\ SameHold /\ want' = want
  BY DEF Stopping, NextFile, GetFile, SameHold, tree, told
<1>2. want'[1] # PT_STOP /\ Shapes(kids', rnd', params', sends')
  BY <1>1, SameHolds DEF OptInv, Settled
<1>3. iter' = iter => /\ Holds(kids', params', floor', iter', own', cfg', base') /\ iter'.tree # NoNode
                      /\ iter'.pushed = 1 => iter'.tree \in Entries
  BY <1>1, SameHolds
<1>4. ASSUME iter' = iter, NEW fn, NEW d, NEW nodes, NEW then, Call(fn, d, nodes, "real", then), fn \in {"step", "up"},
             then \in Thens \ {"headed", "rewound", "replaced"}, nodes => then \in {"rewound", "stopping"}
      PROVE  OptInv'
  <2>1. Heading' /\ Filing'
    BY <1>4, PlainCall
  <2> QED BY <1>2, <1>3, <1>4, <2>1, CallHolds
<1>5. CASE Stopping
  <2>1. iter' = iter
    BY <1>5 DEF Stopping
  <2>2. CASE res # "end"
    <3>1. Call("up", 0, TRUE, "real", "stopping")
      BY <1>5, <2>2 DEF Stopping
    <3> QED BY <1>4, <2>1, <3>1 DEF Thens
  <2>3. CASE res = "end"
    <3>1. pc' = "next" /\ eof' = PT_STOP
      BY <1>5, <2>3 DEF Stopping, Leave
    <3>2. cfg.var = base
      BY <1>5, <2>3 DEF Stopping, OptInv, Answered, Thens
    <3>3. cfg'.var = base' /\ eof' \in Leaving
      BY <1>1, <3>1, <3>2 DEF SameHold, Leaving
    <3> QED BY <1>2, <1>3, <2>1, <3>1, <3>3, QuietHolds DEF Thens
  <2> QED BY <2>2, <2>3
<1>6. CASE NextFile
  <2>1. \/ Call("step", play_tree_step, FALSE, "real", "stepped") /\ iter' = iter
        \/ Call("up", eof', FALSE, "real", "upped") /\ iter' = iter
        \/ pc' = "idle" /\ eof = PT_STOP
        \/ pc' = "file" /\ iter' = iter /\ eof \notin Leaving
    BY <1>6 DEF NextFile, Freed, Leaving
  <2>2. CASE Call("step", play_tree_step, FALSE, "real", "stepped") /\ iter' = iter
    BY <1>4, <2>2 DEF Thens
  <2>3. CASE Call("up", eof', FALSE, "real", "upped") /\ iter' = iter
    BY <1>4, <2>3 DEF Thens
  <2>4. CASE pc' = "idle" /\ eof = PT_STOP
    <3>1. cfg'.var = base'
      BY <1>1, <1>6, <2>4 DEF NextFile, OptInv, Settled, SameHold
    <3> QED BY <1>2, <2>4, <3>1, QuietHolds DEF Thens
  <2>5. CASE pc' = "file" /\ iter' = iter /\ eof \notin Leaving
    <3>1. OnEntry
      BY <1>6, <2>5 DEF NextFile, OptInv, Settled
    <3> QED BY <1>2, <1>3, <2>5, <3>1, QuietHolds DEF Thens, OnEntry
  <2> QED BY <2>1, <2>2, <2>3, <2>4, <2>5
<1>7. CASE GetFile
  <2>1. OnEntry
    BY <1>7 DEF GetFile, OptInv, Settled
  <2>2. CASE Sources(iter, eof) # {}
    <3>1. PICK f \in Sources(iter, eof) : iter' = [iter EXCEPT !.file = f]
      BY <1>7, <2>2 DEF GetFile
    <3>2. pc' = "open"
      BY <1>7, <2>2 DEF GetFile
    <3>3. /\ Holds(kids', params', floor', iter', own', cfg', base') /\ iter'.tree # NoNode
          /\ OnEntry'
      BY <1>1, <2>1, <3>1, SameHolds DEF OnEntry
    <3> QED BY <1>2, <3>2, <3>3, QuietHolds DEF Thens, OnEntry
  <2>3. CASE Sources(iter, eof) = {}
    <3>1. Call("step", eof, FALSE, "real", "again") /\ iter' = iter
      BY <1>7, <2>3 DEF GetFile
    <3> QED BY <1>4, <3>1 DEF Thens
  <2> QED BY <2>2, <2>3
<1> QED BY <1>5, <1>6, <1>7

\* A file that was loaded is the tree, and the iterator its root without options.
LEMMA RewoundHolds ==
  ASSUME WellGrown, Filling, LevelsInv, SlotsInv, TreeInv, OptInv, Rewound
  PROVE  OptInv'
<1>1. pc = "rewound" /\ UNCHANGED <<copy, cfg, eof, old, want, sends, floor, base, own>>
  BY DEF Rewound, told
<1>2. Fills(old) /\ old \in Nodes /\ NewAt(kids, old) /\ want'[1] # PT_STOP
  BY <1>1 DEF OptInv, Filing, Settled, TreeInv, Rewinds
<1>3. CASE res # "end"
  <2>1. Call("up", 0, TRUE, "real", "rewound") /\ UNCHANGED <<tree, iter>>
    BY <1>3 DEF Rewound
  <2>2. SameHold /\ iter' = iter
    BY <1>1, <2>1 DEF SameHold, tree
  <2>3. /\ Shapes(kids', rnd', params', sends') /\ iter'.tree # NoNode
        /\ Holds(kids', params', floor', iter', own', cfg', base')
        /\ iter'.pushed = 1 => iter'.tree \in Entries
    BY <1>1, <2>2, SameHolds
  <2>4. Heading' /\ Filing'
    BY <1>1, <1>2, <2>1 DEF Heading, Filing, Call, Called
  <2> QED BY <1>2, <2>1, <2>3, <2>4, CallHolds DEF Thens
<1>4. CASE res = "end"
  <2>1. Replant(old) /\ iter' = [iter EXCEPT !.tree = Root] /\ Call("step", 0, FALSE, "real", "headed")
    BY <1>4 DEF Rewound
  <2>2. /\ StandsIn(kids, iter) /\ Len(iter.stack) \in Nat /\ DOMAIN iter = DOMAIN NewIter
        /\ Holds(kids, params, floor, iter, own, cfg, base) /\ (iter.pushed = 1 => iter.tree \in Entries)
    BY <1>1, Resting
  <2>3. iter.tree = Root
    BY <1>1, <1>4 DEF TreeInv, Rewinds
  <2>4. iter'.tree = Root /\ iter'.stack = iter.stack /\ iter'.pushed = iter.pushed /\ Root \notin Entries
    BY <2>1, <2>2, Fields, TreeAssumption DEF Entries
  <2>5. Len(iter'.stack) = 0 /\ iter'.pushed # 1
    BY <2>2, <2>3, <2>4, FloorRoot DEF TreeInv, StandsIn
  <2>6. /\ Shapes(kids', rnd', params', sends')
        /\ kids'[Root] # <<>> /\ \A x \in Nodes : \A c \in Set(kids'[x]) : ~played'[c]
    BY <1>1, <1>2, <2>1, NewIsNewAt, ReplantShapes
  <2>7. Holds(kids', params', floor', iter', own', cfg', base')
    <3> DEFINE w == [d \in 0 .. 0 |-> Root]
    <3>1. Way(kids', 0, Root, w) /\ Pushed(params', floor', 0, w, cfg')
      BY TreeAssumption DEF Way, Pushed
    <3>2. ValueAt(cfg', floor') = base'
      BY <1>1, <2>2 DEF Holds
    <3> QED BY <2>4, <2>5, <3>1, <3>2 DEF Holds, Stacked
  <2>8. Heading' /\ Filing'
    BY <2>1, <2>6 DEF Heading, Filing, Call, Called, Real
  <2>9. iter'.tree # NoNode
    BY <2>4, TreeAssumption
  <2> QED BY <1>2, <2>1, <2>5, <2>6, <2>7, <2>8, <2>9, CallHolds DEF Thens
<1> QED BY <1>3, <1>4

\* What is attached keeps the way and its options.
LEMMA OldParams ==
  ASSUME WellGrown, TreeInv, NEW l \in Nodes, IsNew(l), NEW q, \A n \in Nodes : n \notin New(l) => q[n] = params[n]
  PROVE  \A n \in InTree : q[n] = params[n]
<1>1. InTree \in SUBSET Nodes
  BY RankIs, SubtreeClosed, TreeAssumption DEF TreeInv, Grows, InTree
<1> QED BY <1>1 DEF IsNew

LEMMA OpenListHolds ==
  ASSUME WellGrown, Filling, LevelsInv, SlotsInv, TreeInv, OptInv, OpenList
  PROVE  OptInv'
<1> DEFINE n == iter.tree
           l == ListOf[n]
           p == Parent(n)
           h == Insert(Grown(kids, l), n, l)
           q == [Anew(params, l, <<>>) EXCEPT ![l] = params[n]]
           r == [Anew(rnd, l, FALSE) EXCEPT ![l] = rnd[n] /\ params[n] # <<>>]
<1>1. /\ pc = "open" /\ Kind[n] = "list" /\ StandsIn(kids, iter) /\ n \in Entries /\ Len(iter.stack) \in Nat
      /\ n \in FloorOf(kids, Len(iter.stack)) /\ n \in Nodes
  BY Standing, StackIs DEF OpenList, TreeInv, Opening, StandsIn, Entries
<1>2. /\ Rank \in [Nodes -> 0 .. MaxDepth] /\ FitContent(Rank) /\ Grows(Rank, kids)
      /\ l # NoNode /\ l \in Nodes
  BY <1>1, RankIs, TreeAssumption DEF WellGrownBy, FitLists, TreeInv
<1>3. /\ IsNew(l) /\ kids' = h /\ rnd' = r /\ params' = q /\ old' = n /\ Call("step", 1, FALSE, "real", "replaced")
      /\ UNCHANGED <<iter, cfg, want, sends, floor, base, own>>
  BY <1>2 DEF OpenList
<1>4. /\ Attached(h, p, l) /\ p \in InTree /\ p \in Nodes /\ n \in Set(kids[p])
      /\ \E i \in DOMAIN h[p] : h[p][i] = n /\ i + 1 \in DOMAIN h[p]
  BY <1>1, <1>2, <1>3, InsertIs
<1>5. \A x \in Nodes : Set(kids[x]) \subseteq Set(h[x])
  <2>1. p \notin Entries
    BY <1>1, <1>2, <1>3, InsertIs
  <2>2. Rank[l] < Rank[p]
    <3>1. Rank[n] < Rank[p] /\ Rank[n] \in Int /\ Rank[p] \in Int /\ Rank[l] \in Int /\ Rank[l] <= Rank[n]
      BY <1>1, <1>2, <1>4, RankIs, TreeAssumption DEF WellGrownBy, FitLists, Grows, Falling
    <3> QED BY <3>1
  <2> HIDE DEF h, p, l, n
  <2> QED BY <1>2, <1>3, <1>4, <2>1, <2>2, AttachGrows
<1>6. l \in New(l)
  BY <1>2, <1>3, NewIs
<1>7. FirstNames(params)
  BY DEF OptInv, Shapes
<1>8. (\A m \in Nodes : m \notin New(l) => q[m] = params[m]) /\ FirstNames(q)
  <2>1. \A m \in Nodes : q[m] = IF m = l THEN params[n] ELSE IF m \in New(l) THEN <<>> ELSE params[m]
    BY <1>2 DEF Anew
  <2> HIDE DEF q, l, n
  <2>2. \A m \in Nodes : m \notin New(l) => q[m] = params[m]
    BY <1>6, <2>1
  <2>3. n \in Nodes
    BY <1>1
  <2>4. FirstNames(q)
    BY <1>7, <2>1, <2>3 DEF FirstNames
  <2> QED BY <2>2, <2>4
<1>9. \A m \in Nodes : r[m] => m \notin New(l) /\ rnd[m]
  <2>1. ~rnd[n]
    <3>1. ~Media(n)
      BY <1>1 DEF Media
    <3> QED BY <1>1, <1>4, <3>1 DEF TreeInv, Calm
  <2>2. \A m \in Nodes : r[m] = IF m = l THEN rnd[n] /\ params[n] # <<>> ELSE Anew(rnd, l, FALSE)[m]
    BY <1>2 DEF Anew
  <2>3. \A m \in Nodes : Anew(rnd, l, FALSE)[m] => m \notin New(l) /\ rnd[m]
    BY AnewIs
  <2> QED BY <2>1, <2>2, <2>3
<1>10. Fills(l)
  BY <1>1, <1>2 DEF Filling
<1> HIDE DEF h, r, p, q, l, n
<1>11. Shapes(h, r, q, sends)
  BY <1>2, <1>3, <1>4, <1>5, <1>8, <1>9, <1>10, AttachShapes
<1>12. \A m \in InTree : q[m] = params[m]
  BY <1>2, <1>3, <1>8, OldParams
<1>13. Holds(kids, params, floor, iter, own, cfg, base) /\ iter.tree # NoNode
  BY <1>1, Resting
<1>14. Holds(h, q, floor, iter, own, cfg, base)
  BY <1>1, <1>5, <1>12, <1>13, HoldsAttached
<1>15. Filing'
  <2>1. NotLast(kids', old')
    BY <1>3, <1>4 DEF NotLast
  <2> QED BY <1>3, <2>1 DEF Filing, Call, Called
<1>16. Heading'
  BY <1>3 DEF Heading, Call, Called
<1>17. OnEntry /\ want[1] # PT_STOP
  BY <1>1 DEF OptInv, Settled
<1> QED BY <1>3, <1>11, <1>13, <1>14, <1>15, <1>16, <1>17, CallHolds DEF Thens, OnEntry

LEMMA ListReadHolds ==
  ASSUME WellGrown, LevelsInv, TreeInv, OptInv, ListRead
  PROVE  OptInv'
<1>1. pc = "replaced"
  BY DEF ListRead, TreeInv, Calls
<1>2. /\ UNCHANGED <<iter, sends, rnd, params, cfg, want, floor, base, own>> /\ pc' = "next"
      /\ eof' \in {PT_NEXT_ENTRY, PT_NEXT_SRC}
  BY <1>1 DEF ListRead, Leave, told
<1>3. /\ StandsIn(kids, iter) /\ Len(iter.stack) \in Nat
      /\ Holds(kids, params, floor, iter, own, cfg, base) /\ iter.tree # NoNode
      /\ iter.pushed = 1 => iter.tree \in Entries
  BY <1>1, Resting
<1>4. eof' # PT_STOP /\ want'[1] # PT_STOP
  BY <1>2 DEF PT_NEXT_ENTRY, PT_NEXT_SRC, PT_STOP, OptInv, Settled
<1>5. CASE res # "entry"
  <2>1. kids' = kids /\ eof' = PT_NEXT_ENTRY
    BY <1>5 DEF ListRead, Leave
  <2>2. Shapes(kids', rnd', params', sends')
    BY <1>2, <2>1 DEF OptInv
  <2> QED BY <1>2, <1>3, <1>4, <2>1, <2>2, QuietHolds DEF Thens, Leaving
<1>6. CASE res = "entry"
  <2>1. kids' = Remove(kids, old)
    BY <1>1, <1>6 DEF ListRead
  <2>2. iter.tree # old /\ old \in Entries /\ \E j \in Nat : old \in FloorOf(kids, j)
    BY <1>1, <1>6 DEF TreeInv, Replaces
  <2>3. Rank \in [Nodes -> 0 .. MaxDepth] /\ Grows(Rank, kids)
    BY RankIs DEF TreeInv
  <2>4. kids' \in [Nodes -> Seq(Nodes)] /\ \A x \in Nodes : Set(kids'[x]) = Set(kids[x]) \ {old}
    BY <2>1, <2>2, <2>3, RemoveGrows DEF Grows
  <2>5. Holds(kids', params, floor, iter, own, cfg, base)
    BY <1>3, <2>2, <2>4, HoldsRemoved
  <2>6. NotLast(kids, old)
    BY <1>1 DEF OptInv, Filing
  <2>7. Shapes(kids', rnd, params, sends)
    BY <2>4, <2>6, RemoveShapes
  <2>8. OnEntry
    BY <1>1, <1>6 DEF OptInv, Answered, Thens
  <2> QED BY <1>2, <1>3, <1>4, <2>5, <2>7, <2>8, QuietHolds DEF Thens, OnEntry
<1> QED BY <1>5, <1>6

LEMMA GoingHolds ==
  ASSUME WellGrown, Filling, LevelsInv, SlotsInv, TreeInv, OptInv, Going \/ FileEnds
  PROVE  OptInv'
  BY StartedHolds, PlayingHolds, LeavingHolds, RewoundHolds, OpenListHolds, ListReadHolds DEF Going

----------------------------------------------------------------------------
\* The commands of the front end.
LEMMA IdleHolds ==
  ASSUME WellGrown, Filling, LevelsInv, SlotsInv, TreeInv, OptInv, NEW c, IdleLoad(c) \/ IdleSet(c)
  PROVE  OptInv'
<1>1. pc = "idle" /\ c \in sends /\ want' = want /\ sends' = sends /\ own' = own
  BY DEF IdleLoad, IdleSet, Sent
<1>2. cfg.var = base /\ want'[1] # PT_STOP
  BY <1>1 DEF OptInv, Holding, Live, Settled
<1>3. CASE IdleSet(c)
  <2>1. cfg' = [cfg EXCEPT !.var = c.val] /\ base' = c.val /\ pc' = "idle" /\ UNCHANGED tree
    BY <1>3 DEF IdleSet
  <2>2. cfg'.var = base'
    BY <2>1 DEF SlotsInv, InOrder
  <2>3. Shapes(kids', rnd', params', sends')
    BY <1>1, <2>1 DEF OptInv, tree
  <2> QED BY <1>2, <2>1, <2>2, <2>3, QuietHolds DEF Thens
<1>4. CASE IdleLoad(c)
  <2>1. c.id = "load" /\ IsNew(c.file) /\ Replant(c.file) /\ cfg' = cfg /\ base' = base
    BY <1>4 DEF IdleLoad
  <2>2. c.file \in Nodes /\ Fills(c.file)
    BY <1>1, <2>1 DEF TreeInv, Calm, OptInv, Shapes, FitSends
  <2>3. Shapes(kids', rnd', params', sends')
    BY <1>1, <2>1, <2>2, ReplantShapes
  <2>4. CASE pc' = "idle"
    BY <1>2, <2>1, <2>3, <2>4, QuietHolds DEF Thens
  <2>5. CASE iter' = NewIter /\ floor' = cfg.lvl /\ Call("step", 0, FALSE, "real", "started")
    <3>1. iter'.tree = NoNode /\ iter'.pushed = 0
      BY <2>5 DEF NewIter
    <3>2. ValueAt(cfg', floor') = base'
      BY <1>2, <2>1, <2>5 DEF ValueAt
    <3>3. /\ pc' = "call" /\ call'.fn = "step" /\ call'.then = "started" /\ call'.who = "real" /\ call'.nodes = FALSE
      BY <2>5 DEF Call, Called
    <3>4. Holding'
      BY <3>1, <3>2, <3>3 DEF Holding, Live
    <3>5. Settled'
      BY <1>2, <3>1, <3>3 DEF Settled, Calling, Real, Thens
    <3>6. Answered' /\ Heading' /\ Filing'
      BY <3>3 DEF Answered, Heading, Filing, Thens
    <3> QED BY <2>3, <3>4, <3>5, <3>6 DEF OptInv
  <2> QED BY <1>4, <2>4, <2>5 DEF IdleLoad
<1> QED BY <1>3, <1>4

LEMMA LoadAppendHolds ==
  ASSUME WellGrown, Filling, LevelsInv, SlotsInv, TreeInv, OptInv, NEW c, LoadAppend(c)
  PROVE  OptInv'
<1> DEFINE l == c.file
           h == [Grown(kids, l) EXCEPT ![Root] = Append(@, l)]
           r == Anew(rnd, l, FALSE)
           q == Anew(params, l, <<>>)
<1>1. /\ pc = "play" /\ c \in sends /\ c.id = "append" /\ IsNew(l)
      /\ kids' = h /\ rnd' = r /\ params' = q
      /\ UNCHANGED <<iter, cfg, pc, want, sends, floor, base, own>>
  BY DEF LoadAppend, Obey, Sent, iters
<1>2. l \in Nodes /\ Fills(l)
  BY <1>1 DEF TreeInv, Calm, OptInv, Shapes, FitSends
<1>3. /\ Rank \in [Nodes -> 0 .. MaxDepth] /\ FitContent(Rank) /\ Grows(Rank, kids)
      /\ \A n \in Nodes \ {Root} : Rank[n] < Rank[Root]
  BY RankIs DEF WellGrownBy, TreeInv
<1>4. Attached(h, Root, l) /\ Root \in InTree
  BY <1>1, <1>2, <1>3, AppendIs
<1>5. Root \in Nodes /\ Root \notin Entries
  BY TreeAssumption DEF Entries
<1>6. l \in New(l) /\ \A n \in New(l) : n # Root
  BY <1>1, <1>2, <1>3, NewIs
<1>7. \A m \in Nodes : r[m] => m \notin New(l) /\ rnd[m]
  BY AnewIs
<1>8. (\A m \in Nodes : m \notin New(l) => q[m] = params[m]) /\ FirstNames(q)
  BY DEF OptInv, Shapes, FirstNames, Anew
<1> HIDE DEF h, r, q, l
<1>9. \A x \in Nodes : Set(kids[x]) \subseteq Set(h[x])
  <2>1. Rank[l] < Rank[Root]
    BY <1>2, <1>3, <1>6
  <2> QED BY <1>1, <1>2, <1>3, <1>4, <1>5, <2>1, AttachGrows
<1>10. Shapes(h, r, q, sends)
  BY <1>1, <1>2, <1>4, <1>5, <1>7, <1>8, <1>9, AttachShapes
<1>11. \A m \in InTree : q[m] = params[m]
  BY <1>1, <1>2, <1>8, OldParams
<1>12. /\ Holds(kids, params, floor, iter, own, cfg, base) /\ iter.tree # NoNode /\ Len(iter.stack) \in Nat
       /\ iter.pushed = 1 => iter.tree \in Entries
  BY <1>1, Resting
<1>13. Holds(h, q, floor, iter, own, cfg, base)
  BY <1>9, <1>11, <1>12, HoldsAttached
<1>14. OnEntry /\ want[1] # PT_STOP
  BY <1>1 DEF OptInv, Settled
<1> QED BY <1>1, <1>10, <1>12, <1>13, <1>14, QuietHolds DEF Thens, OnEntry

\* A value that is set while an entry plays is at its level and at no other.
LEMMA SetHolds ==
  ASSUME LevelsInv, SlotsInv, TreeInv, OptInv, NEW c, SetOption(c)
  PROVE  OptInv'
<1> DEFINE n == Len(iter.stack)
           v == c.val
<1>1. /\ pc = "play" /\ c \in sends /\ c.id = "set" /\ cfg' = [cfg EXCEPT !.var = v] /\ own' = v
      /\ UNCHANGED <<kids, rnd, params, iter, pc, want, sends, floor, base>>
  BY DEF SetOption, Obey, Sent, tree
<1>2. v # NoValue
  BY <1>1 DEF OptInv, Shapes, FitSends
<1>3. OnEntry /\ want[1] # PT_STOP /\ Live
  BY <1>1 DEF OptInv, Settled, Live
<1>4. /\ Holds(kids, params, floor, iter, own, cfg, base) /\ iter.tree # NoNode /\ n \in Nat /\ floor \in Nat
  BY <1>1, Resting DEF LevelsInv, SlotsInv
<1>5. cfg.lvl = floor + n + 1
  BY <1>3, <1>4 DEF LevelsInv, Balanced, OnEntry
<1>6. cfg'.lvl = cfg.lvl /\ cfg'.slots = cfg.slots /\ cfg'.var = v
  BY <1>1 DEF SlotsInv, InOrder
<1>7. \A l \in floor .. floor + n : ValueAt(cfg', l) = ValueAt(cfg, l)
  BY <1>4, <1>5, <1>6 DEF ValueAt
<1>8. PICK w : Way(kids, n, iter.tree, w) /\ Pushed(params, floor, n, w, cfg)
  BY <1>4 DEF Holds, Stacked
<1> HIDE DEF n, v
<1>9. Pushed(params, floor, n, w, cfg')
  <2>1. n \in 0 .. n
    BY <1>4
  <2> QED BY <1>4, <1>7, <1>8, <2>1, PushedSame
<1>10. ValueAt(cfg', floor) = base
  <2>1. floor \in floor .. floor + n
    BY <1>4
  <2> QED BY <1>4, <1>7, <2>1 DEF Holds
<1>11. OnTop(params, floor, n, iter.tree, v, cfg')
  BY <1>2, <1>3, <1>5, <1>6 DEF OnTop, OnEntry, ValueAt
<1>12. Holds(kids, params, floor, iter, v, cfg', base)
  BY <1>8, <1>9, <1>10, <1>11 DEF Holds, Stacked, n
<1>13. Shapes(kids', rnd', params', sends')
  BY <1>1 DEF OptInv
<1> QED BY <1>1, <1>3, <1>4, <1>12, <1>13, QuietHolds DEF Thens, OnEntry, v

LEMMA PlayCommandHolds ==
  ASSUME LevelsInv, SlotsInv, TreeInv, OptInv, NEW c,
         PtStep(c) \/ PtUpStep(c) \/ AltSrcStep(c) \/ Load(c) \/ Stop(c)
  PROVE  OptInv'
<1> USE DEF Leave, Went
<1>1. pc = "play" /\ c \in sends /\ SameHold /\ iter' = iter
  BY DEF PtStep, PtUpStep, AltSrcStep, Load, Stop, Obey, Sent, SameHold, tree
<1>2. OnEntry /\ want[1] # PT_STOP
  BY <1>1 DEF OptInv, Settled
<1>3. want'[1] # PT_STOP
  <2>1. CASE want' = want
    BY <1>2, <2>1
  <2>2. CASE want' # want
    <3>1. \E s : want' = <<IF StepBy(c) > 0 THEN PT_NEXT_ENTRY ELSE PT_PREV_ENTRY, s>>
                 \/ want' = <<IF StepBy(c) > 0 THEN PT_UP_NEXT ELSE PT_UP_PREV, s>>
      BY <2>2 DEF PtStep, PtUpStep, AltSrcStep, Load, Stop
    <3> QED BY <3>1 DEF PT_STOP, PT_NEXT_ENTRY, PT_PREV_ENTRY, PT_UP_NEXT, PT_UP_PREV
  <2> QED BY <2>1, <2>2
<1>4. /\ Holds(kids', params', floor', iter', own', cfg', base') /\ iter'.tree # NoNode
      /\ Shapes(kids', rnd', params', sends') /\ OnEntry' /\ (iter'.pushed = 1 => iter'.tree \in Entries)
  BY <1>1, <1>2, SameHolds DEF OnEntry
<1>5. \/ pc' = "next" /\ eof' # PT_STOP
      \/ pc' = "play"
      \/ Call("step", StepBy(c), FALSE, "copy", "tried")
      \/ Call("up", StepBy(c), FALSE, "copy", "tried")
      \/ Call("up", 0, TRUE, "real", "rewound")
      \/ Call("up", 0, TRUE, "real", "stopping")
  <2>0. /\ PT_NEXT_ENTRY # PT_STOP /\ PT_PREV_ENTRY # PT_STOP /\ PT_UP_NEXT # PT_STOP /\ PT_UP_PREV # PT_STOP
        /\ PT_NEXT_SRC # PT_STOP /\ PT_PREV_SRC # PT_STOP
    BY DEF PT_STOP, PT_NEXT_ENTRY, PT_PREV_ENTRY, PT_UP_NEXT, PT_UP_PREV, PT_NEXT_SRC, PT_PREV_SRC
  <2>1. CASE PtStep(c)
    BY <2>0, <2>1 DEF PtStep
  <2>4. CASE PtUpStep(c)
    BY <2>0, <2>4 DEF PtUpStep
  <2>2. CASE AltSrcStep(c)
    <3>1. Leave(PT_NEXT_SRC) \/ Leave(PT_PREV_SRC) \/ pc' = pc
      BY <2>2 DEF AltSrcStep
    <3> QED BY <1>1, <2>0, <3>1
  <2>3. CASE Load(c) \/ Stop(c)
    BY <2>3 DEF Load, Stop
  <2> QED BY <2>1, <2>2, <2>3, <2>4
<1>6. CASE pc' = "play" \/ (pc' = "next" /\ eof' # PT_STOP)
  BY <1>3, <1>4, <1>6, QuietHolds DEF Thens
<1>7. CASE Call("step", StepBy(c), FALSE, "copy", "tried") \/ Call("up", StepBy(c), FALSE, "copy", "tried")
  <2>1. Heading' /\ Filing'
    BY <1>7 DEF Heading, Filing, Call, Called
  <2> QED BY <1>3, <1>4, <1>7, <2>1, CallHolds
<1>8. CASE Call("up", 0, TRUE, "real", "stopping")
  <2>1. Heading' /\ Filing'
    BY <1>8 DEF Heading, Filing, Call, Called
  <2> QED BY <1>3, <1>4, <1>8, <2>1, CallHolds DEF Thens
<1>9. CASE Call("up", 0, TRUE, "real", "rewound")
  <2>1. Load(c)
    BY <1>1, <1>9 DEF PtStep, PtUpStep, AltSrcStep, Stop, Call, Called
  <2>2. old' = c.file /\ Fills(c.file)
    BY <1>1, <2>1 DEF Load, OptInv, Shapes, FitSends
  <2>3. Heading' /\ Filing'
    BY <1>9, <2>2 DEF Heading, Filing, Call, Called
  <2> QED BY <1>3, <1>4, <1>9, <2>3, CallHolds DEF Thens
<1> QED BY <1>5, <1>6, <1>7, <1>8, <1>9

LEMMA ToldHolds ==
  ASSUME WellGrown, Filling, LevelsInv, SlotsInv, TreeInv, OptInv, Told
  PROVE  OptInv'
<1>1. PICK c \in sends :
        \/ IdleLoad(c) \/ IdleSet(c) \/ PtStep(c) \/ PtUpStep(c) \/ AltSrcStep(c)
        \/ LoadAppend(c) \/ Load(c) \/ Stop(c) \/ SetOption(c)
  BY DEF Told
<1> QED BY <1>1, IdleHolds, LoadAppendHolds, SetHolds, PlayCommandHolds

----------------------------------------------------------------------------
\* What is wanted of a node is what its parameters make of what is wanted of its
\* parent.
LEMMA TreeParent ==
  ASSUME WellGrown, TreeInv, NEW m \in InTree, m # Root
  PROVE  /\ Parent(m) \in InTree /\ m \in Nodes /\ Parent(m) \in Nodes /\ Rank[m] < Rank[Parent(m)]
         /\ m \in Set(kids[Parent(m)])
<1> DEFINE C == {Root} \union Children(kids, InTree)
<1>1. Rank \in [Nodes -> 0 .. MaxDepth] /\ kids \in [Nodes -> Seq(Nodes)] /\ Falling(Rank, kids) /\ Grows(Rank, kids)
      /\ Root \in Nodes
  BY RankIs, TreeAssumption DEF TreeInv, Grows
<1>2. InTree \in SUBSET Nodes /\ Root \in InTree /\ Closed(kids, InTree)
  BY <1>1, SubtreeClosed DEF InTree
<1>3. C \in SUBSET InTree /\ Children(kids, C) \subseteq Children(kids, InTree)
  BY <1>2 DEF Closed, Children
<1>4. C \in SUBSET Nodes /\ Closed(kids, C) /\ Root \in C
  BY <1>2, <1>3 DEF Closed
<1> HIDE DEF C
<1>5. m \in C
  <2>1. InTree \subseteq C
    BY <1>1, <1>4, SubtreeLeast DEF InTree
  <2> QED BY <2>1
<1>6. PICK p \in InTree : m \in Set(kids[p])
  BY <1>5 DEF C, Children
<1>7. p \in Nodes /\ m \in Nodes /\ Parent(m) = p
  BY <1>1, <1>2, <1>6, ParentIs
<1>8. Rank[m] < Rank[p]
  BY <1>1, <1>6, <1>7 DEF Falling
<1> QED BY <1>6, <1>7, <1>8

LEMMA WantedIs ==
  ASSUME WellGrown, TreeInv
  PROVE  \A m \in InTree : Wanted(m) = Chosen(params, m, IF m = Root THEN base ELSE Wanted(Parent(m)))
<1> DEFINE S == InTree
           V == {base} \union {params[m][1].val : m \in InTree}
           high == [m \in S |-> MaxDepth - Rank[m]]
           top == {Root}
           zero == Chosen(params, Root, base)
           next == [m \in S \ top |-> Parent(m)]
           step == [sv \in S \X V |-> Chosen(params, sv[1], sv[2])]
           Def(g) == [m \in S |->
                        IF params[m] # <<>> THEN params[m][1].val
                        ELSE IF m = Root THEN base ELSE g[Parent(m)]]
           of == CHOOSE g : g = Def(g)
<1>1. Rank \in [Nodes -> 0 .. MaxDepth] /\ S \in SUBSET Nodes /\ Root \in S /\ MaxDepth \in Nat
  BY RankIs, SubtreeClosed, TreeAssumption DEF TreeInv, Grows, InTree
<1>2. \A m \in S \ top : Parent(m) \in S /\ Rank[m] < Rank[Parent(m)]
  BY TreeParent
<1>3. /\ high \in [S -> Nat] /\ top \in SUBSET S /\ zero \in V /\ next \in [S \ top -> S]
      /\ step \in [S \X V -> V] /\ \A m \in S \ top : next[m] = Parent(m)
      /\ \A m \in S, v \in V : step[<<m, v>>] = Chosen(params, m, v)
  <2>1. high \in [S -> Nat]
    BY <1>1
  <2>2. \A m \in S, v \in V : Chosen(params, m, v) \in V
    BY DEF Chosen
  <2>3. zero \in V
    BY <1>1, <2>2
  <2>4. next \in [S \ top -> S] /\ \A m \in S \ top : next[m] = Parent(m)
    BY <1>2
  <2>5. step \in [S \X V -> V] /\ \A m \in S, v \in V : step[<<m, v>>] = Chosen(params, m, v)
    BY <2>2
  <2> QED BY <1>1, <2>1, <2>3, <2>4, <2>5
<1>4. Descends(S, high, top, next)
  <2> SUFFICES ASSUME NEW m \in S \ top PROVE high[next[m]] < high[m]
    BY DEF Descends
  <2>1. Parent(m) \in S /\ Rank[m] < Rank[Parent(m)] /\ next[m] = Parent(m)
    BY <1>2
  <2>2. Rank[m] \in 0 .. MaxDepth /\ Rank[Parent(m)] \in 0 .. MaxDepth
    BY <1>1, <2>1
  <2> QED BY <1>1, <2>1, <2>2
<1> HIDE DEF high, next, step, zero, V
<1>5. PICK f \in [S -> V] : Solution(f, S, top, zero, next, step)
  BY <1>3, <1>4, Recursion
<1>6. \A m \in S : f[m] = Chosen(params, m, IF m = Root THEN base ELSE f[Parent(m)])
  <2> SUFFICES ASSUME NEW m \in S PROVE f[m] = Chosen(params, m, IF m = Root THEN base ELSE f[Parent(m)])
    OBVIOUS
  <2>1. CASE m = Root
    BY <1>5, <2>1 DEF Solution, zero
  <2>2. CASE m # Root
    <3>1. f[m] = step[<<m, f[next[m]]>>] /\ next[m] = Parent(m) /\ Parent(m) \in S
      BY <1>2, <1>3, <1>5, <2>2 DEF Solution
    <3>2. f[Parent(m)] \in V
      BY <1>5, <3>1
    <3> QED BY <1>3, <2>2, <3>1, <3>2
  <2> QED BY <2>1, <2>2
<1>7. f = Def(f)
  BY <1>5, <1>6 DEF Chosen
<1>8. \A m : Wanted(m) = of[m]
  BY DEF Wanted
<1> HIDE DEF Def
<1>9. of = Def(of)
  BY <1>7
<1> HIDE DEF of
<1>10. \A m \in S : of[m] = Chosen(params, m, IF m = Root THEN base ELSE of[Parent(m)])
  BY <1>9 DEF Def, Chosen
<1> QED BY <1>8, <1>10

\* The level above a node on the way has what is wanted of it.
LEMMA WayWanted ==
  ASSUME WellGrown, TreeInv, NEW n \in Nat, NEW t, NEW w, Way(kids, n, t, w), floor \in Nat,
         NEW c, Pushed(params, floor, n, w, c), ValueAt(c, floor) = base
  PROVE  Chosen(params, t, ValueAt(c, floor + n)) = Wanted(t)
<1> DEFINE At(d) == ValueAt(c, floor + d)
           Bad == {d \in Nat : d \in 0 .. n /\ Chosen(params, w[d], At(d)) # Wanted(w[d])}
<1>1. Grows(Rank, kids) /\ \A d \in 0 .. n : w[d] \in InTree /\ w[d] \in Nodes
  BY RankIs, WayInTree DEF TreeInv, Grows, InTree, Way
<1>2. Bad = {}
  <2> SUFFICES ASSUME Bad # {} PROVE FALSE
    OBVIOUS
  <2>1. Bad \in SUBSET Nat
    OBVIOUS
  <2>2. PICK d \in Bad : \A y \in Bad : d <= y
    BY <2>1, LeastNatural
  <2>3. d \in Nat /\ d \in 0 .. n /\ Chosen(params, w[d], At(d)) # Wanted(w[d])
    OBVIOUS
  <2>4. d # 0
    <3>1. At(0) = base /\ w[0] = Root
      BY DEF Way
    <3>2. Wanted(Root) = Chosen(params, Root, base)
      <4>1. Root \in InTree
        BY <1>1, <3>1
      <4> QED BY <4>1, WantedIs
    <3> HIDE DEF At
    <3> QED BY <2>3, <3>1, <3>2
  <2> DEFINE e == d - 1
  <2>5. e \in Nat /\ e \in 0 .. n /\ e \in 0 .. n - 1 /\ e + 1 = d /\ ~(d <= e) /\ floor + e + 1 = floor + d
    BY <2>3, <2>4
  <2>6. Chosen(params, w[e], At(e)) = Wanted(w[e])
    BY <2>2, <2>5
  <2> HIDE DEF e
  <2>7. At(d) = Chosen(params, w[e], At(e)) /\ w[d] \in Set(kids[w[e]])
    BY <2>5 DEF Pushed, Way
  <2>8. w[d] # Root /\ Parent(w[d]) = w[e] /\ w[d] \in InTree
    BY <1>1, <2>3, <2>5, <2>7, ParentIs
  <2>9. Wanted(w[d]) = Chosen(params, w[d], Wanted(w[e]))
    BY <2>8, WantedIs
  <2> HIDE DEF At, Bad
  <2> QED BY <2>3, <2>6, <2>7, <2>9
<1>3. n \in 0 .. n /\ w[n] = t
  BY DEF Way
<1> QED BY <1>2, <1>3

LEMMA WantedOnTop ==
  ASSUME WellGrown, LevelsInv, SlotsInv, TreeInv, OptInv, pc \in {"open", "play"}
  PROVE  cfg.var = IF own = NoValue THEN Wanted(iter.tree) ELSE own
<1> DEFINE n == Len(iter.stack)
<1>1. /\ Holds(kids, params, floor, iter, own, cfg, base) /\ n \in Nat /\ floor \in Nat /\ OnEntry /\ Live
  BY Resting DEF OptInv, Settled, Live, LevelsInv, SlotsInv
<1>2. cfg.lvl = floor + n + 1
  BY <1>1 DEF LevelsInv, Balanced, OnEntry
<1>3. PICK w : Way(kids, n, iter.tree, w) /\ Pushed(params, floor, n, w, cfg)
  BY <1>1 DEF Holds, Stacked
<1>4. OnTop(params, floor, n, iter.tree, own, cfg)
  BY <1>1 DEF Holds, Stacked, OnEntry
<1>5. ValueAt(cfg, floor + n + 1) = cfg.var
  BY <1>2 DEF ValueAt
<1> HIDE DEF n
<1>6. Chosen(params, iter.tree, ValueAt(cfg, floor + n)) = Wanted(iter.tree)
  BY <1>1, <1>3, WayWanted DEF Holds
<1> QED BY <1>1, <1>4, <1>5, <1>6 DEF OnTop, OnEntry

LEMMA InitHolds ==
  ASSUME WellGrown, \A t \in Trees : FitOptions(t), Init
  PROVE  OptInv
<1>1. PICK t \in Trees : kids = Cleaned(t.kids) /\ rnd = t.rnd /\ params = t.params /\ sends = t.sends
  BY DEF Init
<1>2. Filled(kids) /\ Plain(kids, rnd, params) /\ FirstNames(params) /\ FitSends(sends)
  BY <1>1 DEF FitOptions
<1>3. Rank \in [Nodes -> 0 .. MaxDepth] /\ kids \in [Nodes -> Seq(Nodes)] /\ Falling(Rank, kids)
  BY <1>1, RankIs DEF WellGrownBy, GrownBy, Grows
<1>4. Bare(kids, rnd, params)
  <2> DEFINE B == {x \in Nodes : \E p \in Nodes : rnd[p] /\ p \in Subtree(kids, x)}
  <2>1. \A p \in Nodes : rnd[p] => p \in B
    BY <1>3, SubtreeClosed
  <2>2. \A x \in B : params[x] = <<>>
    BY <1>2 DEF Plain
  <2>3. \A x \in Nodes : \A c \in Set(kids[x]) : c \in B => x \in B
    <3> SUFFICES ASSUME NEW x \in Nodes, NEW c \in Set(kids[x]), c \in B PROVE x \in B
      OBVIOUS
    <3>1. PICK p \in Nodes : rnd[p] /\ p \in Subtree(kids, c)
      OBVIOUS
    <3>2. Subtree(kids, x) \in SUBSET Nodes /\ x \in Subtree(kids, x) /\ Closed(kids, Subtree(kids, x)) /\ c \in Nodes
      BY <1>3, SubtreeClosed
    <3>3. c \in Subtree(kids, x)
      BY <3>2 DEF Closed, Children
    <3>4. Subtree(kids, c) \subseteq Subtree(kids, x)
      BY <1>3, <3>2, <3>3, SubtreeLeast
    <3> QED BY <3>1, <3>4
  <2> HIDE DEF B
  <2>4. B \in SUBSET Nodes
    BY DEF B
  <2> QED BY <2>1, <2>2, <2>3, <2>4 DEF Bare
<1>5. /\ iter.tree = NoNode /\ iter.pushed = 0 /\ ValueAt(cfg, floor) = base /\ want = <<0, 1>>
      /\ pc = "call" /\ call.fn = "step" /\ call.who = "real" /\ call.then = "started" /\ call.nodes = FALSE
  BY DEF Init, NewIter, Fresh, ValueAt, Called
<1>6. Holding /\ Answered /\ Heading /\ Filing
  BY <1>5 DEF Holding, Answered, Heading, Filing, Live, Thens
<1>7. Settled
  BY <1>5 DEF Settled, Calling, Live, Real, Thens, PT_STOP
<1> QED BY <1>2, <1>4, <1>6, <1>7 DEF OptInv, Shapes

\* OptionsAsListed for every command line, playlist and loadfile without an empty
\* list below the root, without options on the lists above a shuffled one, and with
\* options given by their first names: whatever the iterator steps over, commands
\* replace, append and unlink and the player tries on copies, an entry is opened and
\* played with its options over those of the lists it is in, and an idle player has
\* the options it was started with or given since.
THEOREM OptionsStayListed ==
  WellGrown /\ Filling /\ (\A t \in Trees : FitOptions(t)) => (Spec => []OptionsAsListed)
<1> SUFFICES ASSUME WellGrown, Filling, \A t \in Trees : FitOptions(t) PROVE Spec => []OptionsAsListed
  OBVIOUS
<1>1. Init => OptInv
  BY InitHolds
<1>2. LevelsInv /\ SlotsInv /\ TreeInv /\ OptInv /\ [Next]_vars => OptInv'
  <2>1. ASSUME OptInv, UNCHANGED vars PROVE OptInv'
    <3>1. UNCHANGED <<kids, rnd, played, params, sends, iter, cfg, pc, call, res, eof, old, want, floor, base, own>>
      BY <2>1 DEF vars, tree, iters, player, told
    <3>2. Holding' /\ Settled' /\ Answered' /\ Heading' /\ Filing'
      BY <2>1, <3>1 DEF OptInv, Holding, Settled, Answered, Heading, Filing, Live, Calling, Real, OnEntry
    <3> QED BY <2>1, <3>1, <3>2 DEF OptInv
  <2> QED BY <2>1, IterStepHolds, GoingHolds, ToldHolds DEF Next
<1>3. LevelsInv /\ SlotsInv /\ TreeInv /\ OptInv => OptionsAsListed
  BY WantedOnTop DEF OptionsAsListed, OptInv, Holding, Live
<1> QED BY <1>1, <1>2, <1>3, LevelsInvariant, SlotsInvariant, TreeInvariant, PTL DEF Spec

----------------------------------------------------------------------------
\* What AcceptedStepPlays rests on: where a call stands, where it goes from there
\* and whether that way ends at an entry, which is the same for the copy and for the
\* iterator.

At(fn, d, n, l, s) == [fn |-> fn, d |-> d, tree |-> n, loop |-> l, stack |-> s]
Spot(fn, d, i) == At(fn, d, i.tree, i.loop, i.stack)

Shuffled(n) == n # Root /\ rnd[Parent(n)]
Ahead(x) ==
  IF Shuffled(x.tree) THEN {n \in Set(Siblings(x.tree)) : n \in Entries /\ ~played[n]}
  ELSE NthFrom(x.tree, x.d)
Over(x) ==
  IF Shuffled(x.tree) \/ x.d = 0 THEN x.d
  ELSE LET beyond == IF x.d > 0 THEN x.d - (Len(Siblings(x.tree)) - Place(x.tree)) - 1
                     ELSE x.d + Place(x.tree)
       IN IF Ahead(x) # {} \/ beyond = 0 THEN Sign(x.d) ELSE beyond
Turns(x, d) ==
  /\ x.tree # Root /\ loop[Parent(x.tree)] # 0
  /\ \/ d > 0 /\ x.loop # 0
     \/ d < 0 /\ (x.loop < 0 \/ x.loop < loop[Parent(x.tree)])
Turned(x) ==
  LET s == Siblings(x.tree)
      l == x.loop
  IN IF x.d > 0 THEN At("step", 0, s[1], IF l > 0 THEN l - 1 ELSE l, x.stack)
     ELSE At("step", 0, s[Len(s)], IF l >= 0 /\ l < loop[Parent(x.tree)] THEN l + 1 ELSE l, x.stack)
Passed(x) ==
  LET n == Siblings(x.tree)[Place(x.tree) + x.d]
  IN IF IsList(n) THEN At("down", Over(x), n, x.loop, x.stack)
     ELSE At("step", Over(x), x.tree, x.loop, x.stack)
Raised(x) == At("step", x.d, Parent(x.tree), x.stack[Len(x.stack)], SubSeq(x.stack, 1, Len(x.stack) - 1))
Lowered(x) ==
  LET k == kids[x.tree]
  IN At("step", 0, IF x.d >= 0 THEN k[1] ELSE k[Len(k)], loop[x.tree] - 1, Append(x.stack, x.loop))

Onward(x) ==
  IF x.fn = "up" THEN Raised(x)
  ELSE IF x.fn = "down" THEN Lowered(x)
  ELSE IF Ahead(x) # {} THEN Passed(x)
  ELSE IF Turns(x, Over(x)) THEN Turned(x)
  ELSE At("up", Over(x), x.tree, x.loop, x.stack)
Arrives(x) == x.fn = "step" /\ \E n \in Ahead(x) : Files[n] > 0
Ends(x) ==
  \/ x.fn = "up" /\ x.tree = Root
  \/ /\ x.fn = "step"
     /\ \/ Shuffled(x.tree) /\ Ahead(x) = {}
        \/ ~Shuffled(x.tree) /\ Over(x) = 0 /\ \E n \in Ahead(x) : ~IsList(n) /\ Files[n] = 0

\* From x a step comes to an entry: k activations further.
Leads(x) ==
  \E k \in Nat : \E f :
    /\ f[0] = x /\ Arrives(f[k])
    /\ \A i \in 0 .. k - 1 : ~Ends(f[i]) /\ f[i + 1] = Onward(f[i])

LEMMA OneAhead ==
  ASSUME NEW x, ~Shuffled(x.tree), NEW m \in Ahead(x), NEW n \in Ahead(x) PROVE m = n
  BY DEF Ahead, NthFrom

LEMMA EndsApart == ASSUME NEW x, Ends(x) PROVE ~Arrives(x)
<1> SUFFICES ASSUME Arrives(x) PROVE FALSE
  OBVIOUS
<1>1. x.fn = "step" /\ ~Shuffled(x.tree)
  BY DEF Ends, Arrives
<1>2. PICK m \in Ahead(x) : Files[m] > 0
  BY DEF Arrives
<1>3. PICK n \in Ahead(x) : Files[n] = 0
  BY <1>1, <1>2 DEF Ends
<1> QED BY <1>1, <1>2, <1>3, OneAhead

LEMMA LeadsHere == ASSUME NEW x, Arrives(x) PROVE Leads(x)
<1> DEFINE f == [i \in {0} |-> x]
<1>1. f[0] = x
  OBVIOUS
<1> HIDE DEF f
<1>2. 0 \in Nat /\ (\A i \in 0 .. 0 - 1 : FALSE)
  OBVIOUS
<1> QED BY <1>1, <1>2 DEF Leads

LEMMA LeadsBack == ASSUME NEW x, ~Ends(x), Leads(Onward(x)) PROVE Leads(x)
<1>1. PICK k \in Nat : \E f :
        /\ f[0] = Onward(x) /\ Arrives(f[k])
        /\ \A i \in 0 .. k - 1 : ~Ends(f[i]) /\ f[i + 1] = Onward(f[i])
  BY DEF Leads
<1>2. PICK f :
        /\ f[0] = Onward(x) /\ Arrives(f[k])
        /\ \A i \in 0 .. k - 1 : ~Ends(f[i]) /\ f[i + 1] = Onward(f[i])
  BY <1>1
<1> DEFINE g == [i \in 0 .. k + 1 |-> IF i = 0 THEN x ELSE f[i - 1]]
<1>3. g[0] = x /\ \A i \in 0 .. k : g[i + 1] = f[i]
  <2>1. 0 \in 0 .. k + 1
    OBVIOUS
  <2>2. ASSUME NEW i \in 0 .. k PROVE g[i + 1] = f[i]
    <3>1. i + 1 \in 0 .. k + 1 /\ i + 1 # 0 /\ (i + 1) - 1 = i
      OBVIOUS
    <3> QED BY <3>1
  <2> QED BY <2>1, <2>2
<1> HIDE DEF g
<1>4. Arrives(g[k + 1])
  BY <1>2, <1>3
<1>5. ASSUME NEW i \in 0 .. (k + 1) - 1 PROVE ~Ends(g[i]) /\ g[i + 1] = Onward(g[i])
  <2>1. CASE i = 0
    <3>1. g[0 + 1] = f[0]
      BY <1>3
    <3> QED BY <1>2, <1>3, <2>1, <3>1
  <2>2. CASE i # 0
    <3>1. i - 1 \in 0 .. k - 1 /\ i - 1 \in 0 .. k /\ i \in 0 .. k /\ (i - 1) + 1 = i
      BY <2>2
    <3>2. g[(i - 1) + 1] = f[i - 1] /\ g[i + 1] = f[i]
      BY <1>3, <3>1
    <3>3. ~Ends(f[i - 1]) /\ f[(i - 1) + 1] = Onward(f[i - 1])
      BY <1>2, <3>1
    <3> QED BY <3>1, <3>2, <3>3
  <2> QED BY <2>1, <2>2
<1> QED BY <1>3, <1>4, <1>5 DEF Leads

LEMMA LeadsOn == ASSUME NEW x, Leads(x), ~Arrives(x) PROVE ~Ends(x) /\ Leads(Onward(x))
<1>1. PICK k \in Nat : \E f :
        /\ f[0] = x /\ Arrives(f[k])
        /\ \A i \in 0 .. k - 1 : ~Ends(f[i]) /\ f[i + 1] = Onward(f[i])
  BY DEF Leads
<1>2. PICK f :
        /\ f[0] = x /\ Arrives(f[k])
        /\ \A i \in 0 .. k - 1 : ~Ends(f[i]) /\ f[i + 1] = Onward(f[i])
  BY <1>1
<1>3. k # 0
  BY <1>2
<1>4. 0 \in 0 .. k - 1 /\ k - 1 \in Nat /\ 0 + 1 = 1
  BY <1>3
<1>5. ~Ends(f[0]) /\ f[0 + 1] = Onward(f[0])
  BY <1>2, <1>4
<1> DEFINE g == [i \in 0 .. k - 1 |-> f[i + 1]]
<1>6. \A i \in 0 .. k - 1 : g[i] = f[i + 1]
  OBVIOUS
<1> HIDE DEF g
<1>7. g[0] = Onward(x)
  BY <1>2, <1>4, <1>5, <1>6
<1>8. Arrives(g[k - 1])
  <2>1. k - 1 \in 0 .. k - 1 /\ (k - 1) + 1 = k
    BY <1>4
  <2> QED BY <1>2, <1>6, <2>1
<1>9. ASSUME NEW i \in 0 .. (k - 1) - 1 PROVE ~Ends(g[i]) /\ g[i + 1] = Onward(g[i])
  <2>1. i \in 0 .. k - 1 /\ i + 1 \in 0 .. k - 1
    OBVIOUS
  <2>2. g[i] = f[i + 1] /\ g[i + 1] = f[(i + 1) + 1]
    BY <1>6, <2>1
  <2>3. ~Ends(f[i + 1]) /\ f[(i + 1) + 1] = Onward(f[i + 1])
    BY <1>2, <2>1
  <2> QED BY <2>2, <2>3
<1> QED BY <1>2, <1>4, <1>5, <1>7, <1>8, <1>9 DEF Leads

\* The way depends on the tree and on the entries that were played.
SameWays ==
  UNCHANGED <<kids, rnd, loop>> /\ \A n \in Entries : played'[n] = played[n]
LEMMA SameLeads == ASSUME SameWays PROVE \A x : Leads(x)' <=> Leads(x)
<1> USE DEF SameWays
<1>1. \A n : Parent(n)' = Parent(n)
  BY DEF Parent
<1>2. \A n : Siblings(n)' = Siblings(n)
  BY <1>1 DEF Siblings
<1>3. \A n : Place(n)' = Place(n)
  BY <1>2 DEF Place
<1>4. \A n : Shuffled(n)' <=> Shuffled(n)
  BY <1>1 DEF Shuffled
<1>5. \A x : Ahead(x)' = Ahead(x)
  BY <1>2, <1>3, <1>4 DEF Ahead, NthFrom
<1>6. \A x : Over(x)' = Over(x)
  BY <1>2, <1>3, <1>4, <1>5 DEF Over
<1>7. \A x : Turns(x, Over(x))' <=> Turns(x, Over(x))
  BY <1>1, <1>6 DEF Turns
<1>8. \A x : Turned(x)' = Turned(x)
  BY <1>1, <1>2 DEF Turned
<1>9. \A n : IsList(n)' <=> IsList(n)
  BY DEF IsList
<1>10. \A x : Passed(x)' = Passed(x)
  BY <1>2, <1>3, <1>6, <1>9 DEF Passed
<1>11. \A x : Raised(x)' = Raised(x) /\ Lowered(x)' = Lowered(x)
  BY <1>1 DEF Raised, Lowered
<1>12. \A x : Onward(x)' = Onward(x)
  BY <1>5, <1>6, <1>7, <1>8, <1>10, <1>11 DEF Onward
<1>13. \A x : Arrives(x)' <=> Arrives(x)
  BY <1>5 DEF Arrives
<1>14. \A x : Ends(x)' <=> Ends(x)
  BY <1>4, <1>5, <1>6, <1>9 DEF Ends
<1> QED BY <1>12, <1>13, <1>14 DEF Leads

LEMMA InTreeIs ==
  ASSUME WellGrown, TreeInv, NEW m \in InTree
  PROVE  /\ m \in Nodes /\ Set(kids[m]) \subseteq InTree
         /\ Siblings(m) \in Seq(Nodes) /\ Set(Siblings(m)) \subseteq InTree /\ m \in Set(Siblings(m))
         /\ m # Root => Parent(m) \in InTree /\ Parent(m) \in Nodes /\ Siblings(m) = kids[Parent(m)]
<1>1. Rank \in [Nodes -> 0 .. MaxDepth] /\ kids \in [Nodes -> Seq(Nodes)] /\ Falling(Rank, kids) /\ Root \in Nodes
  BY RankIs, TreeAssumption DEF TreeInv, Grows
<1>2. InTree \in SUBSET Nodes /\ Root \in InTree /\ \A n \in InTree : Set(kids[n]) \subseteq InTree
  BY <1>1, SubtreeClosed DEF InTree, Closed, Children
<1>3. CASE m = Root
  BY <1>1, <1>2, <1>3 DEF Siblings, Set
<1>4. CASE m # Root
  <2>1. Parent(m) \in InTree /\ Parent(m) \in Nodes /\ m \in Set(kids[Parent(m)])
    BY <1>4, TreeParent
  <2>2. Siblings(m) = kids[Parent(m)]
    BY <1>4 DEF Siblings
  <2> QED BY <1>1, <1>2, <2>1, <2>2
<1> QED BY <1>3, <1>4

\* The iterator that walks, whoever's it is.
Walks(i) == DOMAIN i = DOMAIN NewIter /\ i.tree \in InTree

LEMMA LeftSpot ==
  ASSUME Walks(It)
  PROVE  /\ DOMAIN Left = DOMAIN NewIter /\ Left.tree = It.tree /\ Left.loop = It.loop
         /\ Left.stack = It.stack /\ (Left.rnd <=> Shuffled(It.tree))
  BY Fields DEF Walks, Left, LeftAt, Shuffled

LEMMA AheadIs ==
  ASSUME WellGrown, TreeInv, Walks(It), NEW d, NEW x, x.tree = It.tree, x.loop = It.loop, x.d = d
  PROVE  /\ Choices(d) = Ahead(x) /\ Rest(d) = Over(x)
         /\ \A e : LoopsAt(It.tree, e) <=> Turns(x, e)
         /\ \A n \in Ahead(x) : n \in InTree /\ n \in Nodes /\ (Shuffled(It.tree) => n \in Entries)
<1> DEFINE t == It.tree
<1>1. t \in InTree /\ t \in Nodes /\ Siblings(t) \in Seq(Nodes) /\ Set(Siblings(t)) \subseteq InTree
  BY InTreeIs DEF Walks
<1>2. InTree \subseteq Nodes
  BY InTreeIs
<1>3. Left.rnd <=> Shuffled(t)
  BY LeftSpot
<1>4. ASSUME Shuffled(t) PROVE Set(Siblings(t)) \subseteq Entries
  <2>1. t # Root /\ rnd[Parent(t)]
    BY <1>4 DEF Shuffled
  <2>2. Parent(t) \in Nodes /\ Siblings(t) = kids[Parent(t)]
    BY <1>1, <2>1, InTreeIs
  <2> QED BY <2>1, <2>2 DEF TreeInv, Calm, Media
<1>5. Choices(d) = Ahead(x)
  BY <1>3, <1>4 DEF Choices, Ahead
<1>6. Rest(d) = Over(x)
  BY <1>3, <1>5 DEF Rest, Over
<1>7. \A e : LoopsAt(t, e) <=> Turns(x, e)
  BY DEF LoopsAt, Turns
<1>8. ASSUME NEW n \in Ahead(x) PROVE n \in Set(Siblings(t)) /\ (Shuffled(t) => n \in Entries)
  BY DEF Ahead, NthFrom, Set
<1> QED BY <1>1, <1>2, <1>5, <1>6, <1>7, <1>8

\* What an activation does to the walk.
Outcome(x) ==
  \/ Return("entry") /\ Arrives(x)
  \/ Ends(x) /\ \E r : Return(r) /\ r # "entry"
  \/ pc' = "crash" /\ UNCHANGED <<call, res>>
  \/ /\ ~Ends(x) /\ ~Arrives(x) /\ SameWays
     /\ \E fn, d, i :
          /\ Again(fn, d) /\ SetIt(i) /\ Walks(i) /\ Spot(fn, d, i) = Onward(x)
          /\ fn = "down" => kids[i.tree] # <<>>

\* Here: the walk is at x, and a shuffled list is not started again.
Here(x) ==
  /\ WellGrown /\ TreeInv /\ Walks(It) /\ ~call.nodes
  /\ call.fn = "down" => kids[It.tree] # <<>>
  /\ (\A n \in Nodes : rnd[n] => loop[Root] = 0) /\ DOMAIN played = Nodes
  /\ x = Spot(call.fn, call.d, It)

LEMMA SpotIs ==
  ASSUME NEW fn, NEW d, NEW i
  PROVE  LET x == Spot(fn, d, i)
         IN x.fn = fn /\ x.d = d /\ x.tree = i.tree /\ x.loop = i.loop /\ x.stack = i.stack
  BY DEF Spot, At

LEMMA RoundOutcome == ASSUME NEW x, Here(x), StepRoundOver PROVE Outcome(x)
<1>1. x.fn = "step" /\ x.tree = It.tree /\ x.loop = It.loop /\ x.d = call.d
  BY SpotIs DEF Here, StepRoundOver, Stepping, Calling
<1>2. Left.rnd /\ Choices(call.d) = {}
  BY DEF StepRoundOver
<1>3. Shuffled(x.tree) /\ Ahead(x) = {}
  BY <1>1, <1>2, LeftSpot, AheadIs DEF Here
<1>4. loop[Root] = 0
  <2>1. It.tree # Root /\ rnd[Parent(It.tree)] /\ It.tree \in InTree
    BY <1>1, <1>3 DEF Shuffled, Here, Walks
  <2> QED BY <2>1, InTreeIs DEF Here
<1>5. Return("end")
  BY <1>4 DEF StepRoundOver
<1> QED BY <1>1, <1>3, <1>5 DEF Outcome, Ends

LEMMA AroundOutcome == ASSUME NEW x, Here(x), StepAround \/ StepUp PROVE Outcome(x)
<1>1. /\ x.fn = "step" /\ x.tree = It.tree /\ x.loop = It.loop /\ x.d = call.d /\ x.stack = It.stack
      /\ WellGrown /\ TreeInv /\ Walks(It)
  BY SpotIs DEF Here, StepAround, StepUp, Stepping, Calling
<1>2. /\ ~Left.rnd /\ Choices(call.d) = {} /\ DOMAIN Left = DOMAIN NewIter /\ Left.tree = It.tree
      /\ Left.loop = It.loop /\ Left.stack = It.stack
  BY <1>1, LeftSpot DEF StepAround, StepUp
<1>3. ~Shuffled(x.tree) /\ Ahead(x) = {} /\ Rest(call.d) = Over(x)
      /\ (LoopsAt(It.tree, Rest(call.d)) <=> Turns(x, Over(x)))
  BY <1>1, <1>2, LeftSpot, AheadIs
<1>4. ~Ends(x) /\ ~Arrives(x)
  BY <1>1, <1>3 DEF Ends, Arrives
<1>7. SameWays
  BY DEF StepAround, StepUp, SameWays, Outside
<1>5. CASE StepAround
  <2> DEFINE i == Around(call.d)
             s == Siblings(It.tree)
  <2>1. Turns(x, Over(x)) /\ Again("step", 0) /\ SetIt(i)
    BY <1>3, <1>5 DEF StepAround
  <2>2. Onward(x) = Turned(x)
    BY <1>1, <1>3, <2>1 DEF Onward
  <2>3. DOMAIN i = DOMAIN NewIter /\ Spot("step", 0, i) = Turned(x)
    BY <1>1, <1>2, Fields DEF Around, Turned, Spot
  <2>4. i.tree \in Set(s)
    <3>1. s \in Seq(Nodes) /\ Set(s) # {}
      BY <1>1, InTreeIs DEF Walks
    <3>2. Len(s) \in Nat /\ DOMAIN s = 1 .. Len(s) /\ DOMAIN s # {}
      BY <3>1, LenProperties DEF Set
    <3>3. 1 \in DOMAIN s /\ Len(s) \in DOMAIN s
      BY <3>2
    <3>4. i.tree = s[1] \/ i.tree = s[Len(s)]
      BY <1>2, Fields DEF Around
    <3> QED BY <3>3, <3>4 DEF Set
  <2>5. Walks(i)
    BY <1>1, <2>3, <2>4, InTreeIs DEF Walks
  <2> HIDE DEF i
  <2> QED BY <1>4, <1>7, <2>1, <2>2, <2>3, <2>5 DEF Outcome
<1>6. CASE StepUp
  <2>1. ~Turns(x, Over(x)) /\ Again("up", Over(x)) /\ SetIt(Left)
    BY <1>3, <1>6 DEF StepUp
  <2>2. Onward(x) = At("up", Over(x), x.tree, x.loop, x.stack)
    BY <1>1, <1>3, <2>1 DEF Onward
  <2>3. Spot("up", Over(x), Left) = Onward(x)
    BY <1>1, <1>2, <2>2 DEF Spot
  <2>4. Walks(Left)
    BY <1>1, <1>2 DEF Walks
  <2> QED BY <1>4, <1>7, <2>1, <2>3, <2>4 DEF Outcome
<1> QED BY <1>5, <1>6

LEMMA ChoiceIs ==
  ASSUME NEW x, Here(x), Stepping, NEW n \in Choices(call.d), ~Shuffled(x.tree)
  PROVE  Ahead(x) = {n} /\ n = Siblings(x.tree)[Place(x.tree) + x.d]
<1>1. x.tree = It.tree /\ x.loop = It.loop /\ x.d = call.d
  BY SpotIs DEF Here
<1>2. n \in Ahead(x)
  BY <1>1, AheadIs DEF Here
<1> QED BY <1>2 DEF Ahead, NthFrom

LEMMA NodeOutcome ==
  ASSUME NEW x, Here(x), NEW n \in Nodes, StepList(n) \/ StepInvalid(n) \/ StepEntry(n)
  PROVE  Outcome(x)
<1>1. /\ x.fn = "step" /\ x.tree = It.tree /\ x.loop = It.loop /\ x.d = call.d /\ x.stack = It.stack
      /\ WellGrown /\ TreeInv /\ Walks(It) /\ Stepping /\ n \in Choices(call.d)
  BY SpotIs DEF Here, StepList, StepInvalid, StepEntry, Stepping, Calling
<1>2. DOMAIN Left = DOMAIN NewIter /\ Left.tree = It.tree /\ Left.loop = It.loop /\ Left.stack = It.stack
  BY <1>1, LeftSpot
<1>3. n \in Ahead(x) /\ Rest(call.d) = Over(x) /\ n \in InTree /\ (Shuffled(x.tree) => n \in Entries)
  BY <1>1, AheadIs
<1>4. n \in Entries => kids[n] = <<>> /\ ~IsList(n) /\ Files[n] > 0
  BY <1>1 DEF TreeInv, Grows, Leaves, IsList, Entries
<1>8. StepList(n) \/ StepInvalid(n) => SameWays
  BY DEF StepList, StepInvalid, SameWays, Outside
<1>5. CASE StepList(n)
  <2> DEFINE i == [Left EXCEPT !.tree = n]
  <2>1. n \notin Entries /\ IsList(n) /\ kids[n] # <<>> /\ Again("down", Over(x)) /\ SetIt(i)
    BY <1>3, <1>4, <1>5 DEF StepList, IsList, Here
  <2>2. ~Shuffled(x.tree)
    BY <1>3, <2>1
  <2>3. Ahead(x) = {n} /\ n = Siblings(x.tree)[Place(x.tree) + x.d]
    BY <1>1, <2>2, ChoiceIs
  <2>4. ~(Files[n] > 0)
    BY <2>1 DEF Entries
  <2>5. ~Ends(x) /\ ~Arrives(x)
    BY <1>1, <2>1, <2>2, <2>3, <2>4 DEF Ends, Arrives
  <2>6. Onward(x) = At("down", Over(x), n, x.loop, x.stack)
    BY <1>1, <2>1, <2>3 DEF Onward, Passed
  <2>7. /\ DOMAIN i = DOMAIN NewIter /\ i.tree = n /\ i.loop = x.loop /\ i.stack = x.stack
    BY <1>1, <1>2, Fields
  <2> HIDE DEF i
  <2>8. Walks(i) /\ Spot("down", Over(x), i) = Onward(x) /\ kids[i.tree] # <<>>
    BY <1>3, <2>1, <2>6, <2>7 DEF Walks, Spot
  <2> QED BY <1>5, <1>8, <2>1, <2>5, <2>8 DEF Outcome
<1>6. CASE StepInvalid(n)
  <2>1. ~IsList(n) /\ Files[n] = 0
    BY <1>6 DEF StepInvalid
  <2>2. ~Shuffled(x.tree)
    BY <1>3, <1>4, <2>1
  <2>3. Ahead(x) = {n} /\ n = Siblings(x.tree)[Place(x.tree) + x.d]
    BY <1>1, <2>2, ChoiceIs
  <2>4. \/ pc' = "crash" /\ UNCHANGED <<call, res>>
        \/ Over(x) = 0 /\ Return("error")
        \/ Over(x) # 0 /\ Again("step", Over(x)) /\ SetIt(Left)
    BY <1>3, <1>6 DEF StepInvalid
  <2>5. CASE Over(x) = 0 /\ Return("error")
    <3>1. Ends(x)
      BY <1>1, <2>1, <2>2, <2>3, <2>5 DEF Ends
    <3> QED BY <2>5, <3>1 DEF Outcome
  <2>6. CASE Over(x) # 0 /\ Again("step", Over(x)) /\ SetIt(Left)
    <3>1. ~Ends(x) /\ ~Arrives(x)
      BY <1>1, <2>1, <2>2, <2>3, <2>6 DEF Ends, Arrives
    <3>2. Onward(x) = At("step", Over(x), x.tree, x.loop, x.stack)
      BY <1>1, <2>1, <2>3 DEF Onward, Passed
    <3>3. Walks(Left) /\ Spot("step", Over(x), Left) = Onward(x)
      BY <1>1, <1>2, <3>2 DEF Walks, Spot
    <3> QED BY <1>6, <1>8, <2>6, <3>1, <3>3 DEF Outcome
  <2> QED BY <2>4, <2>5, <2>6 DEF Outcome
<1>7. CASE StepEntry(n)
  <2>1. Return("entry") /\ Files[n] > 0
    BY <1>7 DEF StepEntry
  <2>2. Arrives(x)
    BY <1>1, <1>3, <2>1 DEF Arrives
  <2> QED BY <2>1, <2>2 DEF Outcome
<1> QED BY <1>5, <1>6, <1>7

LEMMA UpDownOutcome ==
  ASSUME NEW x, Here(x), UpEnd \/ UpStep \/ DownStep
  PROVE  Outcome(x)
<1>1. /\ x.fn = call.fn /\ x.tree = It.tree /\ x.loop = It.loop /\ x.d = call.d /\ x.stack = It.stack
      /\ WellGrown /\ TreeInv /\ Walks(It) /\ (call.fn = "down" => kids[It.tree] # <<>>)
  BY SpotIs DEF Here
<1>2. CASE UpEnd
  <2>1. Return("end") /\ x.fn = "up" /\ x.tree = Root
    BY <1>1, <1>2 DEF UpEnd, Calling
  <2> QED BY <2>1 DEF Outcome, Ends
<1>3. CASE UpStep
  <2> DEFINE i == Above(It)
  <2>1. Again("step", x.d) /\ SetIt(i) /\ x.fn = "up" /\ x.tree # Root
    BY <1>1, <1>3 DEF UpStep, Calling
  <2>2. ~Ends(x) /\ ~Arrives(x) /\ Onward(x) = Raised(x)
    BY <2>1 DEF Ends, Arrives, Onward
  <2>3. /\ DOMAIN i = DOMAIN NewIter /\ i.tree = Parent(x.tree) /\ i.loop = x.stack[Len(x.stack)]
        /\ i.stack = SubSeq(x.stack, 1, Len(x.stack) - 1)
    BY <1>1, Fields DEF Above, Walks
  <2> HIDE DEF i
  <2>4. Walks(i)
    BY <1>1, <2>1, <2>3, InTreeIs DEF Walks
  <2>5. Spot("step", x.d, i) = Onward(x)
    BY <2>2, <2>3 DEF Spot, Raised
  <2>6. SameWays
    <3>1. UNCHANGED <<kids, rnd, loop>> /\ (played' = played \/ played' = [played EXCEPT ![Parent(x.tree)] = TRUE])
      BY <1>1, <1>3 DEF UpStep, Outside
    <3>2. Parent(x.tree) \notin Entries
      <4>1. x.tree \in InTree /\ x.tree \in Set(kids[Parent(x.tree)])
        BY <1>1, <2>1, TreeParent DEF Walks
      <4>2. kids[Parent(x.tree)] # <<>>
        BY <4>1, EmptySeq DEF Set
      <4> QED BY <1>1, <4>2 DEF TreeInv, Grows, Leaves
    <3>3. DOMAIN played = Nodes /\ Entries \subseteq Nodes
      BY DEF Here, Entries
    <3> QED BY <3>1, <3>2, <3>3 DEF SameWays
  <2> QED BY <2>1, <2>2, <2>4, <2>5, <2>6 DEF Outcome
<1>4. CASE DownStep
  <2> DEFINE i == Below(It, call.d)
             k == kids[x.tree]
  <2>1. Again("step", 0) /\ SetIt(i) /\ x.fn = "down" /\ k # <<>>
    BY <1>1, <1>4 DEF DownStep, Calling
  <2>2. ~Ends(x) /\ ~Arrives(x) /\ Onward(x) = Lowered(x)
    BY <2>1 DEF Ends, Arrives, Onward
  <2>3. /\ DOMAIN i = DOMAIN NewIter /\ i.tree = (IF x.d >= 0 THEN k[1] ELSE k[Len(k)])
        /\ i.loop = loop[x.tree] - 1 /\ i.stack = Append(x.stack, x.loop)
    BY <1>1, Fields DEF Below, Walks
  <2> HIDE DEF i
  <2>4. Walks(i)
    <3>1. k \in Seq(Nodes) /\ Set(k) \subseteq InTree
      <4>1. x.tree \in Nodes /\ Set(k) \subseteq InTree
        BY <1>1, InTreeIs DEF Walks
      <4>2. kids \in [Nodes -> Seq(Nodes)]
        BY <1>1 DEF TreeInv, Grows
      <4> QED BY <4>1, <4>2
    <3>2. 1 \in DOMAIN k /\ Len(k) \in DOMAIN k
      BY <2>1, <3>1, EmptySeq, LenProperties
    <3>3. i.tree \in Set(k)
      BY <2>3, <3>2 DEF Set
    <3> QED BY <2>3, <3>1, <3>3 DEF Walks
  <2>5. Spot("step", 0, i) = Onward(x)
    BY <2>2, <2>3 DEF Spot, Lowered
  <2>6. SameWays
    BY <1>4 DEF DownStep, SameWays, Outside
  <2> QED BY <2>1, <2>2, <2>4, <2>5, <2>6 DEF Outcome
<1> QED BY <1>2, <1>3, <1>4

LEMMA StepOutcome == ASSUME NEW x, Here(x), IterStep PROVE Outcome(x)
<1>1. ~StepEnter
  <2>1. It.tree \in Nodes
    BY InTreeIs DEF Here, Walks
  <2> QED BY <2>1, TreeAssumption DEF StepEnter
<1> QED BY <1>1, RoundOutcome, AroundOutcome, NodeOutcome, UpDownOutcome DEF IterStep

\* A copy leaves the tree as it is.
LEMMA CopyWays == ASSUME NEW x, Here(x), ~Real, IterStep PROVE SameWays
<1>1. ASSUME NEW n \in Nodes, StepList(n) \/ StepInvalid(n) \/ StepEntry(n) PROVE SameWays
  BY <1>1 DEF StepList, StepInvalid, StepEntry, SameWays, Outside
<1>2. CASE StepEnter \/ StepAround \/ StepUp \/ UpEnd \/ UpStep \/ DownStep
  BY <1>2 DEF StepEnter, StepAround, StepUp, UpEnd, UpStep, DownStep, SameWays, Outside
<1>3. CASE StepRoundOver
  <2>1. It.tree # Root /\ rnd[Parent(It.tree)] /\ It.tree \in InTree
    BY <1>3, LeftSpot DEF StepRoundOver, Here, Shuffled, Walks
  <2>2. loop[Root] = 0
    BY <2>1, InTreeIs DEF Here
  <2> QED BY <1>3, <2>2 DEF StepRoundOver, SameWays, Outside
<1> QED BY <1>1, <1>2, <1>3 DEF IterStep

----------------------------------------------------------------------------
\* The invariant.

Steady == (\A n \in Nodes : rnd[n] => loop[Root] = 0) /\ DOMAIN played = Nodes

Tries == {PT_NEXT_ENTRY, PT_PREV_ENTRY, PT_UP_NEXT, PT_UP_PREV}
\* Where goto_next_file begins with e and a step by n.
Start(e, n, i) ==
  IF e \in {PT_NEXT_ENTRY, PT_PREV_ENTRY} THEN Spot("step", n, i)
  ELSE Spot("up", IF e = PT_UP_NEXT THEN 1 ELSE -1, i)

\* What the copy finds, the iterator will find.
Trying ==
  pc = "call" =>
    IF Real THEN call.then # "tried"
    ELSE /\ call.then = "tried" /\ ~call.nodes /\ Walks(copy) /\ ~accepted /\ want[1] \in Tries
         /\ call.fn = "down" => kids[copy.tree] # <<>>
         /\ \A x, y :
              x = Spot(call.fn, call.d, copy) /\ y = Start(want[1], want[2], iter) /\ Leads(x) => Leads(y)
Found ==
  pc = "tried" =>
    /\ ~accepted /\ want[1] \in Tries
    /\ res = "entry" => \A y : y = Start(want[1], want[2], iter) => Leads(y)
\* An accepted step is on its way to an entry until the player has it.
Promised ==
  accepted =>
    \/ /\ pc = "next" /\ eof \in Tries
       /\ \A y : y = Start(eof, play_tree_step, iter) => Leads(y)
    \/ /\ pc = "call" /\ Real /\ call.then \in {"stepped", "upped"} /\ ~call.nodes
       /\ \A x : x = Spot(call.fn, call.d, iter) => Leads(x)
    \/ pc \in {"stepped", "upped"} /\ res = "entry"
    \/ pc = "crash"
TryInv == Steady /\ Trying /\ Found /\ Promised

LEMMA IterSteady == ASSUME TreeInv, Steady, IterStep PROVE Steady'
<1>1. rnd' = rnd /\ (loop' = loop \/ StepRoundOver)
  BY DEF IterStep, StepEnter, StepRoundOver, StepAround, StepUp, StepList, StepInvalid, StepEntry,
         UpEnd, UpStep, DownStep, Outside
<1>2. DOMAIN played' = Nodes
  <2>1. ASSUME NEW n \in Nodes, StepList(n) \/ StepInvalid(n) \/ StepEntry(n) PROVE DOMAIN played' = Nodes
    BY <2>1 DEF StepList, StepInvalid, StepEntry, Steady
  <2>2. CASE StepEnter \/ StepRoundOver \/ StepAround \/ StepUp
    BY <2>2 DEF StepEnter, StepRoundOver, StepAround, StepUp, Steady
  <2>3. CASE UpEnd \/ UpStep \/ DownStep
    BY <2>3 DEF UpEnd, UpStep, DownStep, Steady
  <2> QED BY <2>1, <2>2, <2>3 DEF IterStep
<1>3. loop' = loop \/ \A n \in Nodes : ~rnd[n]
  <2>1. StepRoundOver /\ loop' # loop => loop[Root] # 0
    BY DEF StepRoundOver
  <2> QED BY <1>1, <2>1 DEF Steady
<1> QED BY <1>1, <1>2, <1>3 DEF Steady

\* Commands and playlists shuffle nothing and give the root no loop count.
LEMMA AnewSteady ==
  ASSUME Steady, NEW n, loop' = Anew(loop, n, 0), played' = Anew(played, n, FALSE),
         \A m \in Nodes : rnd'[m] => \E q \in Nodes : rnd[q]
  PROVE  Steady'
<1>1. DOMAIN played' = Nodes
  BY DEF Anew
<1>2. loop'[Root] = 0 \/ loop'[Root] = loop[Root]
  BY TreeAssumption DEF Anew
<1> QED BY <1>1, <1>2 DEF Steady

LEMMA ReplantSteady ==
  ASSUME Steady, NEW n, loop' = Anew(loop, n, 0), rnd' = Anew(rnd, n, FALSE), played' = Anew(played, n, FALSE)
  PROVE  Steady'
<1>1. \A m \in Nodes : rnd'[m] => rnd[m]
  BY DEF Anew
<1> QED BY <1>1, AnewSteady

LEMMA SteadyNext ==
  ASSUME LevelsInv, TreeInv, Steady, [Next]_vars PROVE Steady'
<1>1. CASE UNCHANGED <<loop, rnd, played>>
  BY <1>1 DEF Steady
<1>2. CASE Going
  <2>1. CASE Rewound
    BY <1>1, <2>1, ReplantSteady DEF Rewound, Replant, tree
  <2>2. CASE OpenList
    <3> DEFINE l == ListOf[iter.tree]
               r == Anew(rnd, l, FALSE)
    <3>1. iter.tree \in Nodes
      BY <2>2 DEF OpenList, TreeInv, Opening, Entries
    <3>2. CASE l = NoNode
      BY <1>1, <2>2, <3>2 DEF OpenList, tree
    <3>3. CASE l # NoNode
      <4>1. /\ loop' = Anew(loop, l, 0) /\ played' = Anew(played, l, FALSE)
            /\ rnd' = [r EXCEPT ![l] = rnd[iter.tree] /\ params[iter.tree] # <<>>]
        BY <2>2, <3>3 DEF OpenList
      <4>2. DOMAIN r = Nodes /\ \A m \in Nodes : r[m] => rnd[m]
        BY DEF Anew
      <4> HIDE DEF r
      <4>3. \A m \in Nodes : rnd'[m] => rnd[m] \/ rnd[iter.tree]
        BY <4>1, <4>2
      <4> QED BY <3>1, <4>1, <4>3, AnewSteady
    <3> QED BY <3>2, <3>3
  <2>3. CASE PlainGoing \/ ListRead
    BY <1>1, <2>3 DEF PlainGoing, Started, OpenFails, Opens, Tried, Headed, Stopping, NextFile, Stepped,
       GetFile, NextAgain, ListRead, tree
  <2> QED BY <1>2, <2>1, <2>2, <2>3 DEF Going, PlainGoing
<1>3. CASE Told
  <2>1. PICK c \in sends :
          \/ IdleLoad(c) \/ IdleSet(c) \/ PtStep(c) \/ PtUpStep(c) \/ AltSrcStep(c)
          \/ LoadAppend(c) \/ Load(c) \/ Stop(c) \/ SetOption(c)
    BY <1>3 DEF Told
  <2>2. CASE IdleLoad(c) \/ LoadAppend(c)
    BY <2>2, ReplantSteady DEF IdleLoad, LoadAppend, Replant
  <2>3. CASE IdleSet(c) \/ PtStep(c) \/ PtUpStep(c) \/ AltSrcStep(c) \/ Load(c) \/ Stop(c) \/ SetOption(c)
    BY <1>1, <2>3 DEF IdleSet, PtStep, PtUpStep, AltSrcStep, Load, Stop, SetOption, tree
  <2> QED BY <2>1, <2>2, <2>3
<1>4. CASE FileEnds
  BY <1>1, <1>4 DEF FileEnds, tree
<1>5. CASE UNCHANGED vars
  BY <1>1, <1>5 DEF vars, tree
<1> QED BY <1>2, <1>3, <1>4, <1>5, IterSteady DEF Next

\* A step of the player that neither tries nor obeys an accepted step.
LEMMA Bystander ==
  ASSUME Steady', ~accepted', pc' # "tried",
         pc' = "call" => call'.who = "real" /\ call'.then # "tried"
  PROVE  TryInv'
  BY DEF TryInv, Trying, Found, Promised, Real

LEMMA CallIs ==
  ASSUME NEW fn, NEW d, NEW nodes, NEW who, NEW then, Call(fn, d, nodes, who, then)
  PROVE  /\ pc' = "call" /\ call'.fn = fn /\ call'.d = d /\ call'.nodes = nodes
         /\ call'.who = who /\ call'.then = then
  BY DEF Call, Called

LEMMA CopyTries ==
  ASSUME WellGrown, LevelsInv, TreeInv, TryInv, ~Real, IterStep
  PROVE  TryInv'
<1> DEFINE x == Spot(call.fn, call.d, copy)
           y == Start(want[1], want[2], iter)
<1>1. pc = "call" /\ It = copy /\ DOMAIN call = DOMAIN NoCall
  BY DEF IterStep, StepEnter, StepRoundOver, StepAround, StepUp, StepList, StepInvalid, StepEntry,
         UpEnd, UpStep, DownStep, Stepping, Calling, It, TreeInv, Calls
<1>2. /\ call.then = "tried" /\ ~call.nodes /\ Walks(copy) /\ ~accepted /\ want[1] \in Tries
      /\ (call.fn = "down" => kids[copy.tree] # <<>>) /\ (Leads(x) => Leads(y))
  BY <1>1 DEF TryInv, Trying
<1>3. Here(x)
  BY <1>1, <1>2 DEF Here, TryInv, Steady
<1>4. Outcome(x) /\ SameWays
  BY <1>3, StepOutcome, CopyWays
<1>5. Steady'
  BY IterSteady DEF TryInv
<1>6. iter' = iter /\ want' = want /\ ~accepted'
  <2>1. iter' = iter
    BY CopyStep
  <2>2. want' = want /\ accepted' = accepted
    BY DEF IterStep, StepEnter, StepRoundOver, StepAround, StepUp, StepList, StepInvalid, StepEntry,
           UpEnd, UpStep, DownStep, Outside, player
  <2> QED BY <1>2, <2>1, <2>2
<1>7. \A z : Leads(z)' <=> Leads(z)
  BY <1>4, SameLeads
<1>8. Start(want[1], want[2], iter)' = y
  BY <1>6 DEF Start, Spot
<1> HIDE DEF x, y
<1>9. CASE Return("entry") /\ Arrives(x)
  <2>1. Leads(y)
    BY <1>2, <1>9, LeadsHere
  <2>2. pc' = "tried" /\ call' = NoCall
    BY <1>2, <1>9 DEF Return
  <2>3. Found'
    BY <1>2, <1>6, <1>7, <1>8, <2>1 DEF Found
  <2> QED BY <1>5, <1>6, <2>2, <2>3 DEF TryInv, Trying, Promised
<1>10. CASE \E r : Return(r) /\ r # "entry"
  <2>1. pc' = "tried" /\ res' # "entry"
    BY <1>2, <1>10 DEF Return
  <2>2. Found'
    BY <1>2, <1>6, <2>1 DEF Found
  <2> QED BY <1>5, <1>6, <2>1, <2>2 DEF TryInv, Trying, Promised
<1>11. CASE pc' = "crash" /\ UNCHANGED <<call, res>>
  BY <1>5, <1>6, <1>11, Bystander
<1>12. CASE /\ ~Ends(x) /\ ~Arrives(x) /\ SameWays
            /\ \E fn, d, i :
                 /\ Again(fn, d) /\ SetIt(i) /\ Walks(i) /\ Spot(fn, d, i) = Onward(x)
                 /\ fn = "down" => kids[i.tree] # <<>>
  <2>1. PICK fn, d, i :
          /\ Again(fn, d) /\ SetIt(i) /\ Walks(i) /\ Spot(fn, d, i) = Onward(x)
          /\ fn = "down" => kids[i.tree] # <<>>
    BY <1>12
  <2>2. /\ pc' = "call" /\ call'.fn = fn /\ call'.d = d /\ call'.who = call.who /\ call'.then = "tried"
        /\ ~call'.nodes /\ copy' = i
    BY <1>1, <1>2, <2>1, CallFields DEF Again, SetIt
  <2>3. kids' = kids
    BY <1>4 DEF SameWays
  <2>4. Walks(copy)' /\ (call'.fn = "down" => kids'[copy'.tree] # <<>>)
    BY <2>1, <2>2, <2>3 DEF Walks, InTree
  <2>5. Leads(Onward(x)) => Leads(y)
    BY <1>2, <1>12, LeadsBack
  <2>6. Spot(call.fn, call.d, copy)' = Onward(x)
    BY <2>1, <2>2 DEF Spot
  <2>7. Trying'
    BY <1>2, <1>6, <1>7, <1>8, <2>2, <2>4, <2>5, <2>6 DEF Trying, Real
  <2> QED BY <1>5, <1>6, <2>2, <2>7 DEF TryInv, Found, Promised
<1> QED BY <1>4, <1>9, <1>10, <1>11, <1>12 DEF Outcome

LEMMA RealTries ==
  ASSUME WellGrown, LevelsInv, TreeInv, TryInv, Real, IterStep
  PROVE  TryInv'
<1> DEFINE x == Spot(call.fn, call.d, iter)
<1>1. pc = "call" /\ It = iter /\ DOMAIN call = DOMAIN NoCall /\ call.then # "tried"
  <2>1. pc = "call"
    BY DEF IterStep, StepEnter, StepRoundOver, StepAround, StepUp, StepList, StepInvalid, StepEntry,
           UpEnd, UpStep, DownStep, Stepping, Calling
  <2> QED BY <2>1 DEF It, TreeInv, Calls, TryInv, Trying
<1>2. Steady' /\ accepted' = accepted
  <2>1. accepted' = accepted
    BY DEF IterStep, StepEnter, StepRoundOver, StepAround, StepUp, StepList, StepInvalid, StepEntry,
           UpEnd, UpStep, DownStep, Outside
  <2> QED BY <2>1, IterSteady DEF TryInv
<1>3. \/ \E fn, d : Again(fn, d)
      \/ \E r : Return(r)
      \/ pc' = "crash" /\ UNCHANGED <<call, res>>
  <2>1. ASSUME NEW n \in Nodes, StepList(n) \/ StepInvalid(n) \/ StepEntry(n)
        PROVE  \/ \E fn, d : Again(fn, d)
               \/ \E r : Return(r)
               \/ pc' = "crash" /\ UNCHANGED <<call, res>>
    BY <2>1 DEF StepList, StepInvalid, StepEntry
  <2>2. CASE StepEnter \/ StepRoundOver \/ StepAround \/ StepUp \/ UpEnd \/ UpStep \/ DownStep
    BY <2>2 DEF StepEnter, StepRoundOver, StepAround, StepUp, UpEnd, UpStep, DownStep
  <2> QED BY <2>1, <2>2 DEF IterStep
<1>4. pc' # "tried" /\ (pc' = "call" => call'.who = "real" /\ call'.then # "tried")
  <2>1. ASSUME NEW fn, NEW d, Again(fn, d) PROVE pc' = "call" /\ call'.who = "real" /\ call'.then # "tried"
    BY <1>1, <2>1, CallFields DEF Again, Real
  <2>2. ASSUME NEW r, Return(r) PROVE pc' # "tried" /\ call'.who = "real" /\ call'.then # "tried"
    BY <1>1, <2>2 DEF Return, NoCall, Called
  <2> QED BY <1>3, <2>1, <2>2
<1>5. CASE ~accepted
  BY <1>2, <1>4, <1>5, Bystander
<1>6. CASE accepted
  <2>1. call.then \in {"stepped", "upped"} /\ ~call.nodes /\ Leads(x)
    BY <1>1, <1>6 DEF TryInv, Promised
  <2>2. Here(x)
    <3>1. StandsIn(kids, iter) /\ (call.fn = "down" => kids[iter.tree] # <<>>)
      BY <1>1, <2>1 DEF TreeInv, Stands, Live, Called, Calls, Calling
    <3>2. iter.tree \in InTree
      <4>1. Rank \in [Nodes -> 0 .. MaxDepth] /\ kids \in [Nodes -> Seq(Nodes)] /\ Falling(Rank, kids)
        BY RankIs DEF TreeInv, Grows
      <4> QED BY <3>1, <4>1, StackIs, FloorsInTree DEF StandsIn, InTree
    <3>3. Walks(iter)
      BY <3>2 DEF Walks, LevelsInv, IsIter
    <3> QED BY <1>1, <2>1, <3>1, <3>3 DEF Here, TryInv, Steady
  <2>3. Outcome(x)
    BY <2>2, StepOutcome
  <2> HIDE DEF x
  <2>4. CASE Return("entry")
    BY <1>2, <1>4, <2>1, <2>4 DEF Return, TryInv, Trying, Found, Promised, Real
  <2>5. CASE Ends(x)
    BY <2>1, <2>5, EndsApart, LeadsOn
  <2>6. CASE pc' = "crash"
    BY <1>2, <1>4, <2>6 DEF TryInv, Trying, Found, Promised
  <2>7. CASE /\ ~Ends(x) /\ ~Arrives(x) /\ SameWays
             /\ \E fn, d, i :
                  /\ Again(fn, d) /\ SetIt(i) /\ Walks(i) /\ Spot(fn, d, i) = Onward(x)
                  /\ fn = "down" => kids[i.tree] # <<>>
    <3>1. PICK fn, d, i : Again(fn, d) /\ SetIt(i) /\ Spot(fn, d, i) = Onward(x)
      BY <2>7
    <3>2. /\ pc' = "call" /\ call'.fn = fn /\ call'.d = d /\ call'.who = "real" /\ call'.then = call.then
          /\ ~call'.nodes /\ iter' = i
      BY <1>1, <2>1, <3>1, CallFields DEF Again, SetIt, Real
    <3>3. Spot(call.fn, call.d, iter)' = Onward(x)
      BY <3>1, <3>2 DEF Spot
    <3>4. Leads(Onward(x)) /\ \A z : Leads(z)' <=> Leads(z)
      BY <2>1, <2>7, LeadsOn, SameLeads
    <3>5. Promised'
      BY <2>1, <3>2, <3>3, <3>4 DEF Promised, Real
    <3> QED BY <1>2, <1>4, <3>5 DEF TryInv, Trying, Found, Real
  <2> QED BY <2>3, <2>4, <2>5, <2>6, <2>7 DEF Outcome
<1> QED BY <1>5, <1>6

LEMMA GoingTries ==
  ASSUME WellGrown, LevelsInv, TreeInv, TryInv, Going, Steady'
  PROVE  TryInv'
<1> USE DEF Leave, Went, Freed
<1>1. CASE Tried
  <2>1. SameWays /\ iter' = iter /\ want' = want /\ pc = "tried"
    BY <1>1 DEF Tried, SameWays, tree
  <2>2. ~accepted /\ want[1] \in Tries
        /\ (res = "entry" => \A y : y = Start(want[1], want[2], iter) => Leads(y))
    BY <2>1 DEF TryInv, Found
  <2>3. CASE res = "entry"
    <3>1. pc' = "next" /\ eof' = want[1] /\ play_tree_step' = want[2]
      BY <1>1, <2>3 DEF Tried
    <3>2. Start(eof, play_tree_step, iter)' = Start(want[1], want[2], iter)
      BY <2>1, <3>1 DEF Start, Spot
    <3>3. Promised'
      BY <2>1, <2>2, <2>3, <3>1, <3>2, SameLeads DEF Promised
    <3> QED BY <3>1, <3>3 DEF TryInv, Trying, Found
  <2>4. CASE res # "entry"
    <3>1. pc' = "play" /\ ~accepted'
      BY <1>1, <2>2, <2>4 DEF Tried
    <3> QED BY <3>1, Bystander
  <2> QED BY <2>3, <2>4
<1>2. CASE NextFile
  <2>1. SameWays /\ pc = "next" /\ accepted' = accepted
    BY <1>2 DEF NextFile, SameWays, tree, told
  <2>2. pc' # "tried" /\ (pc' = "call" => call'.who = "real" /\ call'.then # "tried")
    BY <1>2 DEF NextFile, Call, Called
  <2>3. CASE ~accepted
    BY <2>1, <2>2, <2>3, Bystander
  <2>4. CASE accepted
    <3>1. eof \in Tries /\ \A y : y = Start(eof, play_tree_step, iter) => Leads(y)
      BY <2>1, <2>4 DEF TryInv, Promised
    <3>2. /\ pc' = "call" /\ call'.who = "real" /\ call'.then \in {"stepped", "upped"} /\ call'.nodes = FALSE
          /\ iter' = iter /\ Spot(call'.fn, call'.d, iter') = Start(eof, play_tree_step, iter)
      <4>1. \/ /\ eof \in {PT_NEXT_ENTRY, PT_PREV_ENTRY} /\ iter' = iter
               /\ Call("step", play_tree_step, FALSE, "real", "stepped")
            \/ /\ eof \in {PT_UP_NEXT, PT_UP_PREV} /\ iter' = iter
               /\ eof' = (IF eof = PT_UP_NEXT THEN 1 ELSE -1) /\ Call("up", eof', FALSE, "real", "upped")
            \/ eof = PT_STOP
            \/ eof \notin Tries
        BY <1>2 DEF NextFile, Tries
      <4>2. PT_STOP \notin Tries /\ {PT_UP_NEXT, PT_UP_PREV} \cap {PT_NEXT_ENTRY, PT_PREV_ENTRY} = {}
        BY DEF Tries, PT_NEXT_ENTRY, PT_PREV_ENTRY, PT_UP_NEXT, PT_UP_PREV, PT_STOP
      <4>3. CASE /\ eof \in {PT_NEXT_ENTRY, PT_PREV_ENTRY} /\ iter' = iter
                 /\ Call("step", play_tree_step, FALSE, "real", "stepped")
        BY <4>3, CallIs DEF Start
      <4>4. CASE /\ eof \in {PT_UP_NEXT, PT_UP_PREV} /\ iter' = iter
                 /\ eof' = (IF eof = PT_UP_NEXT THEN 1 ELSE -1) /\ Call("up", eof', FALSE, "real", "upped")
        <5>1. eof \notin {PT_NEXT_ENTRY, PT_PREV_ENTRY}
          BY <4>2, <4>4
        <5> QED BY <4>4, <5>1, CallIs DEF Start
      <4> QED BY <3>1, <4>1, <4>2, <4>3, <4>4
    <3>3. Promised'
      BY <2>1, <3>1, <3>2, SameLeads DEF Promised, Real
    <3> QED BY <2>2, <3>3 DEF TryInv, Trying, Found, Real
  <2> QED BY <2>3, <2>4
<1>3. CASE Stepped
  BY <1>3, Bystander DEF Stepped
<1>4. CASE Started \/ OpenFails \/ Opens \/ OpenList \/ ListRead \/ Rewound \/ Headed \/ Stopping
           \/ GetFile \/ NextAgain
  <2>1. /\ pc \notin {"next", "call", "stepped", "upped", "crash"} /\ accepted' = accepted
    BY <1>4 DEF Started, OpenFails, Opens, OpenList, ListRead, Rewound, Headed, Stopping, GetFile, NextAgain, told
  <2>2. ~accepted'
    BY <2>1 DEF TryInv, Promised
  <2>3. pc' # "tried" /\ (pc' = "call" => call'.who = "real" /\ call'.then # "tried")
    <3>1. CASE Started \/ OpenFails \/ Opens \/ Headed \/ NextAgain
      BY <3>1 DEF Started, OpenFails, Opens, Headed, NextAgain
    <3>2. CASE OpenList
      <4>1. Call("step", 1, FALSE, "real", "emptied") \/ Call("step", 1, FALSE, "real", "replaced")
        BY <3>2 DEF OpenList
      <4> QED BY <4>1 DEF Call, Called
    <3>3. CASE ListRead
      <4>1. pc' = "next" \/ Call("up", 1, FALSE, "real", "emptied2")
        BY <3>3 DEF ListRead
      <4> QED BY <4>1 DEF Call, Called
    <3>4. CASE Rewound
      <4>1. Call("up", 0, TRUE, "real", "rewound") \/ Call("step", 0, FALSE, "real", "headed")
        BY <3>4 DEF Rewound
      <4> QED BY <4>1 DEF Call, Called
    <3>5. CASE Stopping
      <4>1. pc' = "next" \/ Call("up", 0, TRUE, "real", "stopping")
        BY <3>5 DEF Stopping
      <4> QED BY <4>1 DEF Call, Called
    <3>6. CASE GetFile
      <4>1. pc' = "open" \/ Call("step", eof, FALSE, "real", "again")
        BY <3>6 DEF GetFile
      <4> QED BY <4>1 DEF Call, Called
    <3> QED BY <1>4, <3>1, <3>2, <3>3, <3>4, <3>5, <3>6
  <2> QED BY <2>2, <2>3, Bystander
<1> QED BY <1>1, <1>2, <1>3, <1>4 DEF Going

LEMMA ToldTries ==
  ASSUME WellGrown, LevelsInv, TreeInv, TryInv, Told, Steady'
  PROVE  TryInv'
<1> USE DEF Leave, Went
<1>1. PICK c \in sends :
        \/ IdleLoad(c) \/ IdleSet(c) \/ PtStep(c) \/ PtUpStep(c) \/ AltSrcStep(c)
        \/ LoadAppend(c) \/ Load(c) \/ Stop(c) \/ SetOption(c)
  BY DEF Told
<1>2. pc \in {"play", "idle"} /\ accepted' = accepted
  BY <1>1 DEF IdleLoad, IdleSet, PtStep, PtUpStep, AltSrcStep, LoadAppend, Load, Stop, SetOption, Obey
<1>3. ~accepted /\ ~accepted'
  BY <1>2 DEF TryInv, Promised
<1>4. CASE pc' \in {"next", "play", "idle"} \/ (pc' = "call" /\ call'.who = "real" /\ call'.then # "tried")
  BY <1>3, <1>4, Bystander
<1>5. CASE IdleLoad(c) \/ IdleSet(c) \/ AltSrcStep(c) \/ LoadAppend(c) \/ Load(c) \/ Stop(c) \/ SetOption(c)
  <2>1. CASE IdleLoad(c)
    <3>1. Call("step", 0, FALSE, "real", "started") \/ pc' = "idle"
      BY <2>1 DEF IdleLoad
    <3> QED BY <1>4, <3>1 DEF Call, Called
  <2>2. CASE AltSrcStep(c)
    <3>1. Leave(PT_NEXT_SRC) \/ Leave(PT_PREV_SRC) \/ pc' = pc
      BY <2>2 DEF AltSrcStep
    <3> QED BY <1>2, <1>4, <3>1
  <2>3. CASE IdleSet(c) \/ LoadAppend(c) \/ SetOption(c)
    <3>1. pc' = pc
      BY <2>3 DEF IdleSet, LoadAppend, SetOption, iters
    <3> QED BY <1>2, <1>4, <3>1
  <2>4. CASE Load(c) \/ Stop(c)
    <3>1. Call("up", 0, TRUE, "real", "rewound") \/ Call("up", 0, TRUE, "real", "stopping")
      BY <2>4 DEF Load, Stop
    <3> QED BY <1>4, <3>1 DEF Call, Called
  <2> QED BY <1>5, <2>1, <2>2, <2>3, <2>4
<1>6. CASE PtStep(c) \/ PtUpStep(c)
  <2> DEFINE n == StepBy(c)
  <2>1. CASE c.force
    BY <1>4, <1>6, <2>1 DEF PtStep, PtUpStep
  <2>2. CASE ~c.force
    <3>1. /\ pc = "play" /\ UNCHANGED <<kids, iter>> /\ copy' = iter
          /\ \/ /\ Call("step", n, FALSE, "copy", "tried")
                /\ want' = <<IF n > 0 THEN PT_NEXT_ENTRY ELSE PT_PREV_ENTRY, n>>
             \/ /\ Call("up", n, FALSE, "copy", "tried") /\ c.id = "pt_up_step"
                /\ want' = <<IF n > 0 THEN PT_UP_NEXT ELSE PT_UP_PREV, play_tree_step>>
      BY <1>6, <2>2 DEF PtStep, PtUpStep, Obey, tree, NewCopy
    <3>2. Walks(copy)'
      <4>1. StandsIn(kids, iter)
        BY <3>1, Standing
      <4>2. Rank \in [Nodes -> 0 .. MaxDepth] /\ kids \in [Nodes -> Seq(Nodes)] /\ Falling(Rank, kids)
        BY RankIs DEF TreeInv, Grows
      <4>3. iter.tree \in InTree
        BY <4>1, <4>2, StackIs, FloorsInTree DEF StandsIn, InTree
      <4> QED BY <3>1, <4>3 DEF Walks, InTree, LevelsInv, IsIter
    <3>3. /\ pc' = "call" /\ call'.who = "copy" /\ call'.then = "tried" /\ call'.nodes = FALSE
          /\ call'.fn \in {"step", "up"}
      BY <3>1 DEF Call, Called
    <3>4. want'[1] \in Tries
      <4>1. /\ (IF n > 0 THEN PT_NEXT_ENTRY ELSE PT_PREV_ENTRY) \in Tries
            /\ (IF n > 0 THEN PT_UP_NEXT ELSE PT_UP_PREV) \in Tries
        BY DEF Tries
      <4> DEFINE e == IF n > 0 THEN PT_NEXT_ENTRY ELSE PT_PREV_ENTRY
                 u == IF n > 0 THEN PT_UP_NEXT ELSE PT_UP_PREV
      <4>2. want' = <<e, n>> \/ want' = <<u, play_tree_step>>
        BY <3>1
      <4>3. e \in Tries /\ u \in Tries
        BY <4>1
      <4> HIDE DEF e, u
      <4> QED BY <4>2, <4>3
    <3>5. Spot(call'.fn, call'.d, copy') = Start(want'[1], want'[2], iter')
      <4>1. CASE Call("step", n, FALSE, "copy", "tried")
                 /\ want' = <<IF n > 0 THEN PT_NEXT_ENTRY ELSE PT_PREV_ENTRY, n>>
        BY <3>1, <4>1 DEF Call, Called, Start
      <4>2. CASE Call("up", n, FALSE, "copy", "tried") /\ c.id = "pt_up_step"
                 /\ want' = <<IF n > 0 THEN PT_UP_NEXT ELSE PT_UP_PREV, play_tree_step>>
        <5>1. n = IF n > 0 THEN 1 ELSE -1
          BY <4>2 DEF StepBy
        <5>2. /\ want'[1] \notin {PT_NEXT_ENTRY, PT_PREV_ENTRY}
              /\ n = IF want'[1] = PT_UP_NEXT THEN 1 ELSE -1
          BY <4>2, <5>1 DEF PT_NEXT_ENTRY, PT_PREV_ENTRY, PT_UP_NEXT, PT_UP_PREV
        <5> QED BY <3>1, <4>2, <5>2 DEF Call, Called, Start
      <4> QED BY <3>1, <4>1, <4>2
    <3>6. Trying'
      BY <1>3, <3>2, <3>3, <3>4, <3>5 DEF Trying, Real
    <3> QED BY <1>3, <3>3, <3>6 DEF TryInv, Found, Promised
  <2> QED BY <2>1, <2>2
<1> QED BY <1>1, <1>5, <1>6

\* AcceptedStepPlays for every command line in which no shuffled list is in one that
\* is gone through again: a step tried on a copy and accepted ends at an entry when
\* the iterator takes it, whatever groups and loop counts are on the way.
THEOREM AcceptedStepsPlay ==
  WellGrown /\ (\A t \in Trees : FitTries(t)) => (Spec => []AcceptedStepPlays)
<1> SUFFICES ASSUME WellGrown, \A t \in Trees : FitTries(t) PROVE Spec => []AcceptedStepPlays
  OBVIOUS
<1>1. Init => TryInv
  <2> SUFFICES ASSUME Init PROVE TryInv
    OBVIOUS
  <2>1. PICK t \in Trees : rnd = t.rnd /\ loop = t.loop
    BY DEF Init
  <2>2. Steady
    BY <2>1 DEF Init, Steady, FitTries
  <2>3. ~accepted /\ pc = "call" /\ call.who = "real" /\ call.then = "started"
    BY DEF Init, Called
  <2> QED BY <2>2, <2>3 DEF TryInv, Trying, Found, Promised, Real
<1>2. LevelsInv /\ TreeInv /\ TryInv /\ [Next]_vars => TryInv'
  <2> SUFFICES ASSUME LevelsInv, TreeInv, TryInv, [Next]_vars PROVE TryInv'
    OBVIOUS
  <2>1. Steady'
    BY SteadyNext DEF TryInv
  <2>2. CASE FileEnds
    <3>1. pc = "play" /\ pc' = "next" /\ accepted' = accepted
      BY <2>2 DEF FileEnds, Leave, told
    <3>2. ~accepted
      BY <3>1 DEF TryInv, Promised
    <3> QED BY <2>1, <3>1, <3>2, Bystander
  <2>3. CASE UNCHANGED vars
    <3>1. SameWays /\ UNCHANGED <<kids, iter, copy, pc, call, res, eof, play_tree_step, want, accepted>>
      BY <2>3 DEF vars, tree, iters, player, told, SameWays
    <3>2. \A z : Leads(z)' <=> Leads(z)
      BY <3>1, SameLeads
    <3>3. Trying'
      BY <3>1, <3>2 DEF TryInv, Trying, Real, Walks, InTree, Start, Spot
    <3>4. Found' /\ Promised'
      BY <3>1, <3>2 DEF TryInv, Found, Promised, Real, Start, Spot
    <3> QED BY <2>1, <3>3, <3>4 DEF TryInv
  <2> QED BY <2>1, <2>2, <2>3, CopyTries, RealTries, GoingTries, ToldTries DEF Next
<1>3. TryInv => AcceptedStepPlays
  BY DEF TryInv, Promised, AcceptedStepPlays
<1> QED BY <1>1, <1>2, <1>3, LevelsInvariant, TreeInvariant, PTL DEF Spec

----------------------------------------------------------------------------
\* The orders that lists are played in.  For an unshuffled list there is one: what has
\* been played and what is still owed, which the iterator's place and stack tell, make
\* it up.  A shuffled list is any order of its entries: those that are marked as played
\* are those that were, each once.

Combined(a, b) == {s \o t : s \in a, t \in b}

\* Sets of which each has one member are joined to one.
LEMMA JoinedIs ==
  ASSUME NEW S, NEW n \in Nat, NEW v \in [1 .. n -> Seq(S)], NEW r, Remainders(r, n, v, S)
  PROVE  Joined([i \in 1 .. n |-> {v[i]}]) = {r[0]}
<1> DEFINE parts == [i \in 1 .. n |-> {v[i]}]
           D == 0 .. n
           Def(g) == [k \in 0 .. Len(parts) |->
                        IF k = 0 THEN {<<>>} ELSE Combined(g[k - 1], parts[k])]
           upto == CHOOSE g : g = Def(g)
<1>1. Len(parts) = n /\ \A k \in 1 .. n : parts[k] = {v[k]}
  OBVIOUS
<1>2. Joined(parts) = upto[n]
  BY <1>1 DEF Joined, Combined
<1>3. PICK w \in [D -> Seq(S)] : w[0] = <<>> /\ \A k \in 1 .. n : w[k] = w[k - 1] \o v[k]
  <2> DEFINE V == Seq(S)
             rank == [i \in D |-> i]
             zero == {0}
             next == [i \in D \ zero |-> i - 1]
             Put(i, t) == IF i \in 1 .. n THEN t \o v[i] ELSE <<>>
             step == [p \in D \X V |-> Put(p[1], p[2])]
  <2>1. rank \in [D -> Nat] /\ zero \in SUBSET D /\ <<>> \in V
    OBVIOUS
  <2>2. next \in [D \ zero -> D] /\ \A i \in D \ zero : next[i] = i - 1
    OBVIOUS
  <2>3. step \in [D \X V -> V]
        /\ \A i \in D, t \in V : step[<<i, t>>] = IF i \in 1 .. n THEN t \o v[i] ELSE <<>>
    <3>1. \A i \in D, t \in V : Put(i, t) \in V
      BY ConcatProperties
    <3>2. \A i \in D, t \in V : Put(i, t) = IF i \in 1 .. n THEN t \o v[i] ELSE <<>>
      OBVIOUS
    <3> HIDE DEF Put
    <3>3. step \in [D \X V -> V] /\ \A i \in D, t \in V : step[<<i, t>>] = Put(i, t)
      BY <3>1
    <3> QED BY <3>2, <3>3
  <2>4. Descends(D, rank, zero, next)
    BY DEF Descends
  <2> HIDE DEF rank, next, step, V
  <2>5. PICK w \in [D -> V] : Solution(w, D, zero, <<>>, next, step)
    BY <2>1, <2>2, <2>3, <2>4, Recursion
  <2>6. w[0] = <<>>
    BY <2>1, <2>5 DEF Solution
  <2>7. ASSUME NEW k \in 1 .. n PROVE w[k] = w[k - 1] \o v[k]
    <3>1. k \in D \ zero /\ k - 1 \in D
      OBVIOUS
    <3>2. w[k] = step[<<k, w[next[k]]>>] /\ next[k] = k - 1 /\ w[k - 1] \in V
      BY <2>2, <2>5, <3>1 DEF Solution
    <3> QED BY <2>3, <3>1, <3>2
  <2> QED BY <2>5, <2>6, <2>7 DEF V
<1> DEFINE f == [k \in D |-> {w[k]}]
<1>4. f = Def(f)
  <2>1. ASSUME NEW k \in 1 .. n PROVE f[k] = Combined(f[k - 1], parts[k])
    <3>1. k \in D /\ k - 1 \in D
      OBVIOUS
    <3>2. f[k] = {w[k]} /\ f[k - 1] = {w[k - 1]} /\ parts[k] = {v[k]} /\ w[k] = w[k - 1] \o v[k]
      BY <1>1, <1>3, <3>1
    <3> HIDE DEF f, parts
    <3> QED BY <3>2 DEF Combined
  <2>2. f[0] = {<<>>}
    BY <1>3
  <2>3. f = [k \in D |-> f[k]]
    OBVIOUS
  <2> HIDE DEF f, parts
  <2>4. \A k \in D : f[k] = IF k = 0 THEN {<<>>} ELSE Combined(f[k - 1], parts[k])
    <3>1. \A k \in D : k = 0 \/ k \in 1 .. n
      OBVIOUS
    <3> QED BY <2>1, <2>2, <3>1, Zenon
  <2>5. Def(f) = [k \in D |-> IF k = 0 THEN {<<>>} ELSE Combined(f[k - 1], parts[k])]
    BY <1>1
  <2> QED BY <2>3, <2>4, <2>5, Zenon
<1> HIDE DEF Def
<1>5. upto = Def(upto)
  BY <1>4
<1> HIDE DEF upto, f
<1>6. \A k \in D : upto[k] = IF k = 0 THEN {<<>>} ELSE Combined(upto[k - 1], parts[k])
  <2>1. upto = [k \in 0 .. Len(parts) |-> IF k = 0 THEN {<<>>} ELSE Combined(upto[k - 1], parts[k])]
    BY <1>5 DEF Def
  <2> HIDE DEF parts
  <2>2. upto = [k \in D |-> IF k = 0 THEN {<<>>} ELSE Combined(upto[k - 1], parts[k])]
    BY <1>1, <2>1
  <2> QED BY <2>2, Zenon
<1> HIDE DEF parts
<1> DEFINE Bad == {k \in D : ~(upto[k] = {w[k]} /\ w[k] \o r[k] = r[0])}
<1>7. Bad = {}
  <2> SUFFICES ASSUME Bad # {} PROVE FALSE
    OBVIOUS
  <2>1. Bad \in SUBSET Nat
    OBVIOUS
  <2>2. PICK k \in Bad : \A j \in Bad : k <= j
    BY <2>1, LeastNatural
  <2>3. k \in D /\ ~(upto[k] = {w[k]} /\ w[k] \o r[k] = r[0])
    OBVIOUS
  <2>4. k # 0
    <3>1. 0 \in D /\ r[0] \in Seq(S)
      BY DEF Remainders
    <3>2. upto[0] = {<<>>}
      BY <1>6, <3>1
    <3>3. <<>> \o r[0] = r[0]
      BY <3>1, ConcatEmptySeq
    <3> QED BY <1>3, <2>3, <3>2, <3>3
  <2>5. k - 1 \in D /\ k \in 1 .. n /\ ~(k <= k - 1)
    BY <2>3, <2>4
  <2>6. upto[k - 1] = {w[k - 1]} /\ w[k - 1] \o r[k - 1] = r[0]
    BY <2>2, <2>5
  <2>7. w[k] = w[k - 1] \o v[k] /\ parts[k] = {v[k]} /\ r[k - 1] = v[k] \o r[k]
    BY <1>1, <1>3, <2>5 DEF Remainders, Join
  <2>8. upto[k] = {w[k]}
    <3>1. upto[k] = Combined(upto[k - 1], parts[k])
      BY <1>6, <2>3, <2>4
    <3> QED BY <2>6, <2>7, <3>1 DEF Combined
  <2>9. w[k - 1] \in Seq(S) /\ v[k] \in Seq(S) /\ r[k] \in Seq(S)
    BY <1>3, <2>3, <2>5 DEF Remainders
  <2>10. w[k] \o r[k] = r[0]
    <3> DEFINE a == w[k - 1]
               b == v[k]
               c == r[k]
    <3>1. a \in Seq(S) /\ b \in Seq(S) /\ c \in Seq(S)
      BY <2>9
    <3>2. w[k] = a \o b /\ r[k - 1] = b \o c /\ a \o r[k - 1] = r[0]
      BY <2>6, <2>7
    <3> HIDE DEF a, b, c
    <3>3. Join(Join(a, b), c) = Join(a, Join(b, c))
      BY <3>1, JoinIs
    <3>4. w[k] \o c = r[0]
      BY <3>2, <3>3 DEF Join
    <3> QED BY <3>4 DEF c
  <2> QED BY <2>3, <2>8, <2>10
<1>8. n \in D /\ w[n] \o <<>> = w[n] /\ r[n] = <<>>
  BY DEF Remainders
<1> QED BY <1>2, <1>7, <1>8 DEF parts

\* The orders a list asks for, by those of what is in it.
Shufflings(t, n) ==
  IF t.rnd[n] THEN {p \in [DOMAIN t.kids[n] -> Set(t.kids[n])] : Set(p) = Set(t.kids[n])}
  ELSE {t.kids[n]}
PartsAt(p, g)    == [i \in DOMAIN p |-> g[p[i]]]
OnceAt(t, n, g)  == UNION {Joined(PartsAt(p, g)) : p \in Shufflings(t, n)}
TimesAt(t, n)    == IF t.loop[n] > 0 THEN t.loop[n] ELSE 1
OrderAt(t, n, g) ==
  IF Files[n] > 0 THEN {<<n>>} ELSE Joined([i \in 1 .. TimesAt(t, n) |-> OnceAt(t, n, g)])

LEMMA OrderLocal ==
  ASSUME NEW t, NEW n, NEW g, NEW h, \A c \in Set(t.kids[n]) : g[c] = h[c]
  PROVE  OrderAt(t, n, g) = OrderAt(t, n, h)
<1>1. ASSUME NEW p \in Shufflings(t, n) PROVE PartsAt(p, g) = PartsAt(p, h)
  <2>1. \A i \in DOMAIN p : p[i] \in Set(t.kids[n])
    BY <1>1 DEF Shufflings, Set
  <2> QED BY <2>1 DEF PartsAt
<1>2. OnceAt(t, n, g) = OnceAt(t, n, h)
  BY <1>1 DEF OnceAt
<1> QED BY <1>2 DEF OrderAt

LEMMA OrdersAre ==
  ASSUME NEW t, t.kids = kids, NEW rank \in [Nodes -> 0 .. MaxDepth], Grows(rank, kids)
  PROVE  \E of : Orders(t) = of[Root] /\ \A n \in Nodes : of[n] = OrderAt(t, n, of)
<1> DEFINE Next1(g) == [n \in Nodes |-> OrderAt(t, n, g)]
           of == CHOOSE g : g = Next1(g)
           Solves(g, k) == \A n \in Nodes : rank[n] < k => g[n] = OrderAt(t, n, g)
           Bad == {k \in Nat : ~ \E g : Solves(g, k)}
<1>1. MaxDepth \in Nat /\ kids \in [Nodes -> Seq(Nodes)] /\ Root \in Nodes
  BY TreeAssumption DEF Grows
<1>2. ASSUME NEW n \in Nodes, NEW c \in Set(t.kids[n]) PROVE c \in Nodes /\ rank[c] < rank[n]
  <2>1. c \in Set(kids[n])
    OBVIOUS
  <2> QED BY <1>1, <2>1, SetIs DEF Grows, Falling
<1>3. ASSUME NEW k \in Nat, NEW g, Solves(g, k)
      PROVE  \A n \in Nodes : rank[n] < k + 1 => OrderAt(t, n, Next1(g)) = OrderAt(t, n, g)
  <2> SUFFICES ASSUME NEW n \in Nodes, rank[n] < k + 1 PROVE OrderAt(t, n, Next1(g)) = OrderAt(t, n, g)
    OBVIOUS
  <2>1. ASSUME NEW c \in Set(t.kids[n]) PROVE Next1(g)[c] = g[c]
    <3>1. c \in Nodes /\ rank[c] < rank[n] /\ rank[c] \in Nat /\ rank[n] \in Nat
      BY <1>1, <1>2
    <3>2. rank[c] < k
      BY <3>1
    <3>3. g[c] = OrderAt(t, c, g)
      BY <1>3, <3>1, <3>2
    <3> QED BY <3>1, <3>3
  <2> HIDE DEF Next1
  <2> QED BY <2>1, OrderLocal
<1>4. Bad = {}
  <2> SUFFICES ASSUME Bad # {} PROVE FALSE
    OBVIOUS
  <2>1. Bad \in SUBSET Nat
    OBVIOUS
  <2>2. PICK k \in Bad : \A j \in Bad : k <= j
    BY <2>1, LeastNatural
  <2>3. k \in Nat /\ ~ \E g : Solves(g, k)
    OBVIOUS
  <2>4. k # 0
    <3>1. \A n \in Nodes : ~(rank[n] < 0)
      BY <1>1
    <3>2. Solves([n \in Nodes |-> {}], 0)
      BY <3>1
    <3> HIDE DEF Solves
    <3> QED BY <2>3, <3>2
  <2>5. k - 1 \in Nat /\ ~(k <= k - 1) /\ (k - 1) + 1 = k
    BY <2>3, <2>4
  <2>6. k - 1 \notin Bad
    BY <2>2, <2>5
  <2>7. PICK g : Solves(g, k - 1)
    BY <2>5, <2>6
  <2>8. \A n \in Nodes : rank[n] < k => OrderAt(t, n, Next1(g)) = OrderAt(t, n, g)
    <3> HIDE DEF Solves, Next1
    <3> QED BY <1>3, <2>5, <2>7
  <2>9. Solves(Next1(g), k)
    BY <2>8
  <2> HIDE DEF Solves
  <2> QED BY <2>3, <2>9
<1>5. MaxDepth + 1 \in Nat /\ \A n \in Nodes : rank[n] < MaxDepth + 1
  BY <1>1
<1>6. PICK g : Solves(g, MaxDepth + 1)
  BY <1>4, <1>5
<1>7. \A n \in Nodes : OrderAt(t, n, Next1(g)) = OrderAt(t, n, g)
  <2>1. \A n \in Nodes : rank[n] < (MaxDepth + 1) + 1
    BY <1>1
  <2> HIDE DEF Solves, Next1
  <2> QED BY <1>3, <1>5, <1>6, <2>1
<1>8. Next1(g) = Next1(Next1(g))
  BY <1>7
<1>9. Orders(t) = of[Root]
  BY DEF Orders, OrderAt, OnceAt, PartsAt, Shufflings, TimesAt
<1> HIDE DEF Next1
<1>10. of = Next1(of)
  BY <1>8
<1> HIDE DEF of
<1>11. \A n \in Nodes : of[n] = OrderAt(t, n, of)
  BY <1>10 DEF Next1
<1> QED BY <1>9, <1>11

\* A list's order when nothing is shuffled: o.all[n] is what is played for n,
\* o.rest[n][i] is what is played of one pass through n after its first i children,
\* o.more[n][j] what is played of n after j passes.
Rounds(n) == IF loop[n] > 0 THEN loop[n] ELSE 1
Ordered(o) ==
  \A n \in Nodes :
    /\ o.all[n] \in Seq(Nodes)
    /\ n \in Entries => o.all[n] = <<n>>
    /\ n \notin Entries =>
         /\ Remainders(o.rest[n], Len(kids[n]), [i \in 1 .. Len(kids[n]) |-> o.all[kids[n][i]]], Nodes)
         /\ Remainders(o.more[n], Rounds(n), [j \in 1 .. Rounds(n) |-> o.rest[n][0]], Nodes)
         /\ o.all[n] = o.more[n][0]

LEMMA OrderedIs ==
  ASSUME NEW t, t.kids = kids, t.loop = loop, loop \in [Nodes -> Int], \A n \in Nodes : ~t.rnd[n],
         NEW rank \in [Nodes -> 0 .. MaxDepth], Grows(rank, kids)
  PROVE  \E o : Ordered(o) /\ Orders(t) = {o.all[Root]}
<1>1. PICK of : Orders(t) = of[Root] /\ \A n \in Nodes : of[n] = OrderAt(t, n, of)
  BY OrdersAre
<1> DEFINE One(n) == \E s \in Seq(Nodes) : of[n] = {s}
           all == [n \in Nodes |-> CHOOSE s \in Seq(Nodes) : of[n] = {s}]
           len(n) == Len(kids[n])
           v(n) == [i \in 1 .. len(n) |-> all[kids[n][i]]]
           rest == [n \in Nodes |-> CHOOSE r : Remainders(r, len(n), v(n), Nodes)]
           u(n) == [j \in 1 .. Rounds(n) |-> rest[n][0]]
           more == [n \in Nodes |-> CHOOSE r : Remainders(r, Rounds(n), u(n), Nodes)]
<1>2. MaxDepth \in Nat /\ kids \in [Nodes -> Seq(Nodes)] /\ Root \in Nodes
  BY TreeAssumption DEF Grows
<1>3. \A n \in Nodes : One(n) => all[n] \in Seq(Nodes) /\ of[n] = {all[n]}
  OBVIOUS
<1>4. ASSUME NEW n \in Nodes
      PROVE  /\ len(n) \in Nat /\ Rounds(n) \in Nat /\ Rounds(n) >= 1
             /\ DOMAIN kids[n] = 1 .. len(n) /\ \A i \in 1 .. len(n) : kids[n][i] \in Set(kids[n]) /\ kids[n][i] \in Nodes
  <2>1. kids[n] \in Seq(Nodes) /\ loop[n] \in Int
    BY <1>2
  <2> QED BY <2>1, LenProperties, ElementOfSeq DEF Rounds, Set
<1> HIDE DEF all
<1>5. ASSUME NEW n \in Nodes, n \notin Entries, \A c \in Set(kids[n]) : One(c)
      PROVE  /\ Remainders(rest[n], len(n), v(n), Nodes) /\ Remainders(more[n], Rounds(n), u(n), Nodes)
             /\ of[n] = {more[n][0]}
  <2>1. \A i \in 1 .. len(n) : all[kids[n][i]] \in Seq(Nodes) /\ of[kids[n][i]] = {all[kids[n][i]]}
    BY <1>3, <1>4, <1>5
  <2>2. v(n) \in [1 .. len(n) -> Seq(Nodes)]
    BY <2>1
  <2>3. \E r : Remainders(r, len(n), v(n), Nodes)
    <3> HIDE DEF v, len
    <3> QED BY <1>4, <2>2, RemaindersExist
  <2>4. Remainders(rest[n], len(n), v(n), Nodes)
    <3> HIDE DEF v, len
    <3> QED BY <2>3
  <2> HIDE DEF rest
  <2>5. rest[n][0] \in Seq(Nodes)
    <3> HIDE DEF v, len
    <3>1. 0 \in 0 .. len(n)
      BY <1>4
    <3> QED BY <2>4, <3>1 DEF Remainders
  <2>6. u(n) \in [1 .. Rounds(n) -> Seq(Nodes)]
    BY <2>5
  <2>7. \E r : Remainders(r, Rounds(n), u(n), Nodes)
    <3> HIDE DEF u
    <3> QED BY <1>4, <2>6, RemaindersExist
  <2>8. Remainders(more[n], Rounds(n), u(n), Nodes)
    <3> HIDE DEF u
    <3> QED BY <2>7
  <2> HIDE DEF more
  <2>9. OnceAt(t, n, of) = {rest[n][0]}
    <3>1. Shufflings(t, n) = {kids[n]}
      BY DEF Shufflings
    <3>2. PartsAt(kids[n], of) = [i \in 1 .. len(n) |-> {v(n)[i]}]
      BY <1>4, <2>1 DEF PartsAt
    <3>3. Joined([i \in 1 .. len(n) |-> {v(n)[i]}]) = {rest[n][0]}
      <4> HIDE DEF v, len
      <4> QED BY <1>4, <2>2, <2>4, JoinedIs
    <3>4. OnceAt(t, n, of) = Joined(PartsAt(kids[n], of))
      BY <3>1 DEF OnceAt
    <3> QED BY <3>2, <3>3, <3>4
  <2>10. of[n] = Joined([j \in 1 .. Rounds(n) |-> {u(n)[j]}])
    <3>1. TimesAt(t, n) = Rounds(n) /\ ~(Files[n] > 0)
      BY <1>5 DEF TimesAt, Rounds, Entries
    <3>2. of[n] = Joined([j \in 1 .. Rounds(n) |-> OnceAt(t, n, of)])
      BY <1>1, <3>1 DEF OrderAt
    <3>3. [j \in 1 .. Rounds(n) |-> OnceAt(t, n, of)] = [j \in 1 .. Rounds(n) |-> {u(n)[j]}]
      BY <2>9
    <3> QED BY <3>2, <3>3
  <2>11. Joined([j \in 1 .. Rounds(n) |-> {u(n)[j]}]) = {more[n][0]}
    <3> HIDE DEF u
    <3> QED BY <1>4, <2>6, <2>8, JoinedIs
  <2> QED BY <2>4, <2>8, <2>10, <2>11
<1>6. ASSUME NEW n \in Nodes, n \in Entries PROVE of[n] = {<<n>>} /\ <<n>> \in Seq(Nodes)
  <2>1. Files[n] > 0
    BY <1>6 DEF Entries
  <2>2. of[n] = {<<n>>}
    BY <1>1, <2>1 DEF OrderAt
  <2> QED BY <2>2
<1> HIDE DEF rest, more, v, u, len
<1>7. \A n \in Nodes : One(n)
  <2> DEFINE Bad == {n \in Nodes : ~One(n)}
  <2> SUFFICES ASSUME Bad # {} PROVE FALSE
    OBVIOUS
  <2>1. rank \in [Nodes -> Nat] /\ Bad \in SUBSET Nodes
    BY <1>2
  <2>2. PICK b \in Bad : \A x \in Bad : rank[b] <= rank[x]
    BY <2>1, LeastRanked
  <2>3. b \in Nodes /\ ~One(b)
    OBVIOUS
  <2>4. \A c \in Set(kids[b]) : One(c)
    <3> SUFFICES ASSUME NEW c \in Set(kids[b]) PROVE One(c)
      OBVIOUS
    <3>1. c \in Nodes
      BY <1>2, <2>3, SetIs
    <3>2. rank[c] < rank[b] /\ rank[c] \in Int /\ rank[b] \in Int
      BY <2>1, <2>3, <3>1 DEF Grows, Falling
    <3>3. c \notin Bad
      <4> HIDE DEF Bad
      <4> QED BY <2>2, <3>2
    <3> HIDE DEF One
    <3> QED BY <3>1, <3>3
  <2>5. CASE b \in Entries
    BY <1>6, <2>3, <2>5
  <2>6. CASE b \notin Entries
    <3>1. Remainders(more[b], Rounds(b), u(b), Nodes) /\ of[b] = {more[b][0]}
      BY <1>5, <2>3, <2>4, <2>6
    <3>2. more[b][0] \in Seq(Nodes)
      BY <1>4, <2>3, <3>1 DEF Remainders
    <3> QED BY <2>3, <3>1, <3>2
  <2> QED BY <2>5, <2>6
<1> DEFINE o == [all |-> all, rest |-> rest, more |-> more]
<1>8. Ordered(o)
  <2> SUFFICES ASSUME NEW n \in Nodes
               PROVE  /\ all[n] \in Seq(Nodes)
                      /\ n \in Entries => all[n] = <<n>>
                      /\ n \notin Entries =>
                           /\ Remainders(rest[n], len(n), v(n), Nodes)
                           /\ Remainders(more[n], Rounds(n), u(n), Nodes)
                           /\ all[n] = more[n][0]
    BY DEF Ordered, v, u, len
  <2>1. all[n] \in Seq(Nodes) /\ of[n] = {all[n]}
    BY <1>3, <1>7
  <2>2. \A c \in Set(kids[n]) : One(c)
    BY <1>2, <1>7, SetIs
  <2> HIDE DEF One
  <2>3. CASE n \in Entries
    BY <1>6, <2>1, <2>3
  <2>4. CASE n \notin Entries
    BY <1>5, <2>1, <2>2, <2>4
  <2> QED BY <2>3, <2>4
<1>9. Orders(t) = {o.all[Root]}
  BY <1>1, <1>2, <1>3, <1>7
<1> QED BY <1>8, <1>9

\* What is due after the node c of a list p in the pass that the counter l says, and
\* after c and all the lists it is in, whose counters are on the stack.
Pass(p, l) == IF loop[p] > 0 THEN loop[p] - l ELSE 1
Fits(p, l) == loop[p] > 0 => l \in 0 .. loop[p] - 1
After(o, p, c, l) == Join(o.rest[p][Place(c)], o.more[p][Pass(p, l)])
Counter(s, l, j)  == IF j = Len(s) THEN l ELSE s[j + 1]
Due(o, c, l, s, q) ==
  \E w, r :
    /\ Way(kids, Len(s), c, w)
    /\ r \in [0 .. Len(s) -> Seq(Nodes)] /\ r[0] = <<>> /\ r[Len(s)] = q
    /\ \A j \in 1 .. Len(s) :
         /\ Fits(w[j - 1], Counter(s, l, j))
         /\ r[j] = Join(After(o, w[j - 1], w[j], Counter(s, l, j)), r[j - 1])

Ordering(o) ==
  /\ Grows(Rank, kids) /\ Filled(kids) /\ loop \in [Nodes -> Nat] /\ \A n \in Nodes : ~rnd[n]
  /\ Ordered(o)

LEMMA PlaceIs ==
  ASSUME Grows(Rank, kids), NEW p \in Nodes
  PROVE  /\ Len(kids[p]) \in Nat /\ DOMAIN kids[p] = 1 .. Len(kids[p])
         /\ \A i \in 1 .. Len(kids[p]) :
              /\ kids[p][i] \in Set(kids[p]) /\ kids[p][i] \in Nodes
              /\ Parent(kids[p][i]) = p /\ kids[p][i] # Root /\ Place(kids[p][i]) = i
         /\ \A c \in Set(kids[p]) : Place(c) \in 1 .. Len(kids[p]) /\ kids[p][Place(c)] = c
<1>1. kids[p] \in Seq(Nodes)
  BY DEF Grows
<1>2. Len(kids[p]) \in Nat /\ DOMAIN kids[p] = 1 .. Len(kids[p])
  BY <1>1, LenProperties
<1>3. ASSUME NEW i \in 1 .. Len(kids[p])
      PROVE  /\ kids[p][i] \in Set(kids[p]) /\ kids[p][i] \in Nodes
             /\ Parent(kids[p][i]) = p /\ kids[p][i] # Root /\ Place(kids[p][i]) = i
  <2> DEFINE c == kids[p][i]
  <2>1. c \in Set(kids[p])
    BY <1>2 DEF Set
  <2>2. c \in Nodes /\ c # Root /\ Parent(c) = p
    BY <2>1, ParentIs
  <2>3. Siblings(c) = kids[p]
    BY <2>2 DEF Siblings
  <2>4. \A j \in DOMAIN kids[p] : kids[p][j] = c => j = i
    BY <1>2 DEF Grows, OnePlace, Distinct
  <2> HIDE DEF c
  <2>5. \E j \in DOMAIN kids[p] : kids[p][j] = c
    BY <1>2 DEF c
  <2>6. Place(c) = i
    BY <2>3, <2>4, <2>5 DEF Place
  <2> QED BY <2>1, <2>2, <2>6 DEF c
<1>4. ASSUME NEW c \in Set(kids[p]) PROVE Place(c) \in 1 .. Len(kids[p]) /\ kids[p][Place(c)] = c
  <2>1. PICK i \in 1 .. Len(kids[p]) : c = kids[p][i]
    BY <1>2 DEF Set
  <2> QED BY <1>3, <2>1
<1> QED BY <1>2, <1>3, <1>4

LEMMA AfterIs ==
  ASSUME NEW o, Ordering(o), NEW p \in Nodes, NEW c \in Set(kids[p]), NEW l, Fits(p, l)
  PROVE  /\ p \notin Entries /\ c \in Nodes /\ Place(c) \in 1 .. Len(kids[p])
         /\ Pass(p, l) \in 1 .. Rounds(p) /\ Rounds(p) \in Nat /\ Len(kids[p]) \in Nat
         /\ o.rest[p][Place(c)] \in Seq(Nodes) /\ o.more[p][Pass(p, l)] \in Seq(Nodes)
         /\ After(o, p, c, l) \in Seq(Nodes)
<1>1. p \notin Entries
  BY SetIs DEF Ordering, Grows, Leaves, Set
<1>2. c \in Nodes /\ Place(c) \in 1 .. Len(kids[p]) /\ Len(kids[p]) \in Nat
  BY PlaceIs, ParentIs DEF Ordering
<1>3. loop[p] \in Int
  BY DEF Ordering
<1>4. Pass(p, l) \in 1 .. Rounds(p) /\ Rounds(p) \in Nat
  BY <1>3 DEF Pass, Rounds, Fits
<1>5. o.rest[p] \in [0 .. Len(kids[p]) -> Seq(Nodes)] /\ o.more[p] \in [0 .. Rounds(p) -> Seq(Nodes)]
  BY <1>1 DEF Ordering, Ordered, Remainders
<1>6. o.rest[p][Place(c)] \in Seq(Nodes) /\ o.more[p][Pass(p, l)] \in Seq(Nodes)
  BY <1>2, <1>4, <1>5
<1>7. After(o, p, c, l) \in Seq(Nodes)
  BY <1>6, JoinIs DEF After
<1> QED BY <1>1, <1>2, <1>4, <1>6, <1>7

\* From one child to the next, into a list and around.
LEMMA AfterNext ==
  ASSUME NEW o, Ordering(o), NEW p \in Nodes, NEW c \in Set(kids[p]), NEW l, Fits(p, l),
         Place(c) + 1 \in DOMAIN kids[p]
  PROVE  LET n == kids[p][Place(c) + 1]
         IN n \in Set(kids[p]) /\ o.all[n] \in Seq(Nodes) /\ After(o, p, c, l) = Join(o.all[n], After(o, p, n, l))
<1> DEFINE i == Place(c) + 1
           n == kids[p][i]
           k == Len(kids[p])
           f == o.rest[p]
           m == o.more[p][Pass(p, l)]
<1>1. /\ p \notin Entries /\ Place(c) \in 1 .. k /\ k \in Nat /\ m \in Seq(Nodes) /\ f[Place(c)] \in Seq(Nodes)
  BY AfterIs
<1>2. DOMAIN kids[p] = 1 .. k
  BY PlaceIs DEF Ordering
<1>3. i \in 1 .. k /\ i - 1 = Place(c)
  BY <1>1, <1>2
<1>4. n \in Set(kids[p]) /\ n \in Nodes /\ Place(n) = i
  BY <1>3, PlaceIs DEF Ordering
<1>5. f[i] \in Seq(Nodes) /\ o.all[n] \in Seq(Nodes)
  <2>1. f[Place(n)] \in Seq(Nodes)
    BY <1>4, AfterIs
  <2>2. o.all[n] \in Seq(Nodes)
    BY <1>4 DEF Ordering, Ordered
  <2> QED BY <1>4, <2>1, <2>2
<1>6. f[Place(c)] = Join(o.all[n], f[i])
  <2>1. f[i - 1] = Join([j \in 1 .. k |-> o.all[kids[p][j]]][i], f[i])
    BY <1>1, <1>3 DEF Ordering, Ordered, Remainders
  <2> HIDE DEF f, i
  <2> QED BY <1>3, <2>1
<1> HIDE DEF i, n, k, f, m
<1>7. Join(Join(o.all[n], f[i]), m) = Join(o.all[n], Join(f[i], m))
  <2> DEFINE a == o.all[n]
             b == f[i]
  <2>1. a \in Seq(Nodes) /\ b \in Seq(Nodes)
    BY <1>5
  <2> HIDE DEF a, b
  <2>2. Join(Join(a, b), m) = Join(a, Join(b, m))
    BY <1>1, <2>1, JoinIs
  <2> QED BY <2>2 DEF a, b
<1>8. After(o, p, c, l) = Join(f[Place(c)], m) /\ After(o, p, n, l) = Join(f[Place(n)], m)
  BY DEF After, f, m
<1> QED BY <1>4, <1>5, <1>6, <1>7, <1>8 DEF n, i

LEMMA AfterPass ==
  ASSUME NEW o, Ordering(o), NEW p \in Nodes, kids[p] # <<>>, NEW l, Fits(p, l)
  PROVE  LET n == kids[p][1]
         IN /\ n \in Set(kids[p]) /\ o.all[n] \in Seq(Nodes) /\ p \notin Entries
            /\ o.more[p][Pass(p, l) - 1] = Join(o.all[n], After(o, p, n, l))
<1> DEFINE n == kids[p][1]
           k == Len(kids[p])
           f == o.rest[p]
           a == Pass(p, l)
           m == o.more[p]
<1>1. k \in Nat /\ 1 \in 1 .. k
  <2>1. kids[p] \in Seq(Nodes)
    BY DEF Ordering, Grows
  <2> QED BY <2>1, EmptySeq, LenProperties
<1>2. n \in Set(kids[p]) /\ n \in Nodes /\ Place(n) = 1
  BY <1>1, PlaceIs DEF Ordering
<1>3. /\ p \notin Entries /\ a \in 1 .. Rounds(p) /\ Rounds(p) \in Nat /\ f[1] \in Seq(Nodes) /\ m[a] \in Seq(Nodes)
  BY <1>2, AfterIs
<1>4. o.all[n] \in Seq(Nodes)
  BY <1>2 DEF Ordering, Ordered
<1>5. f[0] = Join(o.all[n], f[1])
  <2>1. f[1 - 1] = Join([j \in 1 .. k |-> o.all[kids[p][j]]][1], f[1])
    BY <1>1, <1>3 DEF Ordering, Ordered, Remainders
  <2> HIDE DEF f
  <2> QED BY <1>1, <2>1
<1>6. m[a - 1] = Join(f[0], m[a])
  <2>1. m[a - 1] = Join([j \in 1 .. Rounds(p) |-> f[0]][a], m[a])
    BY <1>3 DEF Ordering, Ordered, Remainders
  <2> HIDE DEF f, m, a
  <2> QED BY <1>3, <2>1
<1> HIDE DEF n, k, f, m, a
<1>7. Join(Join(o.all[n], f[1]), m[a]) = Join(o.all[n], Join(f[1], m[a]))
  <2> DEFINE x == o.all[n]
             y == f[1]
             z == m[a]
  <2>1. x \in Seq(Nodes) /\ y \in Seq(Nodes) /\ z \in Seq(Nodes)
    BY <1>3, <1>4
  <2> HIDE DEF x, y, z
  <2>2. Join(Join(x, y), z) = Join(x, Join(y, z))
    BY <2>1, JoinIs
  <2> QED BY <2>2 DEF x, y, z
<1>8. After(o, p, n, l) = Join(f[Place(n)], m[a])
  BY DEF After, f, m, a
<1> QED BY <1>2, <1>3, <1>4, <1>5, <1>6, <1>7, <1>8 DEF n, m, a

LEMMA AfterLast ==
  ASSUME NEW o, Ordering(o), NEW p \in Nodes, NEW c \in Set(kids[p]), NEW l, Fits(p, l),
         Place(c) = Len(kids[p])
  PROVE  /\ After(o, p, c, l) = o.more[p][Pass(p, l)] /\ o.more[p][Pass(p, l)] \in Seq(Nodes)
         /\ Pass(p, l) = Rounds(p) => o.more[p][Pass(p, l)] = <<>>
<1>1. p \notin Entries /\ o.more[p][Pass(p, l)] \in Seq(Nodes)
  BY AfterIs
<1>2. o.rest[p][Place(c)] = <<>> /\ o.more[p][Rounds(p)] = <<>>
  BY <1>1 DEF Ordering, Ordered, Remainders
<1> QED BY <1>1, <1>2, ConcatEmptySeq DEF After, Join

LEMMA WayDown ==
  ASSUME NEW k \in [Nodes -> Seq(Nodes)], NEW n \in Nat, NEW t, NEW w, Way(k, n, t, w), NEW c \in Set(k[t])
  PROVE  \E x : Way(k, n + 1, c, x) /\ \A d \in 0 .. n : x[d] = w[d]
<1> DEFINE x == [d \in 0 .. n + 1 |-> IF d = n + 1 THEN c ELSE w[d]]
<1>0. t \in Nodes /\ n \in 0 .. n /\ 0 \in 0 .. n
  BY DEF Way
<1>1. c \in Nodes
  BY <1>0, SetIs
<1>2. x \in [0 .. n + 1 -> Nodes] /\ x[n + 1] = c /\ \A d \in 0 .. n : x[d] = w[d]
  BY <1>1 DEF Way
<1> HIDE DEF x
<1>3. x[0] = Root
  BY <1>0, <1>2 DEF Way
<1>4. ASSUME NEW d \in 0 .. (n + 1) - 1 PROVE x[d + 1] \in Set(k[x[d]])
  <2>1. CASE d = n
    BY <1>0, <1>2, <2>1 DEF Way
  <2>2. CASE d # n
    <3>1. d \in 0 .. n - 1 /\ d \in 0 .. n /\ d + 1 \in 0 .. n
      BY <2>2
    <3> QED BY <1>2, <3>1 DEF Way
  <2> QED BY <2>1, <2>2
<1>5. Way(k, n + 1, c, x)
  BY <1>2, <1>3, <1>4 DEF Way
<1> QED BY <1>2, <1>5

\* What is due moves with the iterator.
LEMMA DueTop ==
  ASSUME NEW o, NEW c, NEW l, NEW q, Due(o, c, l, <<>>, q)
  PROVE  c = Root /\ q = <<>>
<1>1. Len(<<>>) = 0
  OBVIOUS
<1> QED BY <1>1 DEF Due, Way

LEMMA DueRoot ==
  ASSUME NEW o, NEW l PROVE Due(o, Root, l, <<>>, <<>>)
<1> DEFINE w == [d \in 0 .. 0 |-> Root]
           r == [d \in 0 .. 0 |-> <<>>]
<1>1. Len(<<>>) = 0 /\ Root \in Nodes
  BY TreeAssumption
<1>2. Way(kids, 0, Root, w)
  BY <1>1 DEF Way
<1>3. r \in [0 .. 0 -> Seq(Nodes)] /\ r[0] = <<>>
  OBVIOUS
<1> HIDE DEF w, r
<1>4. /\ Way(kids, 0, Root, w) /\ r \in [0 .. 0 -> Seq(Nodes)] /\ r[0] = <<>> /\ r[0] = <<>>
      /\ \A j \in 1 .. 0 :
           /\ Fits(w[j - 1], Counter(<<>>, l, j))
           /\ r[j] = Join(After(o, w[j - 1], w[j], Counter(<<>>, l, j)), r[j - 1])
  BY <1>2, <1>3
<1> QED BY <1>1, <1>4 DEF Due

LEMMA DueIs ==
  ASSUME NEW o, NEW c, NEW l, NEW S, NEW s \in Seq(S), NEW q, Due(o, c, l, s, q)
  PROVE  q \in Seq(Nodes) /\ c \in Nodes
<1>1. Len(s) \in Nat /\ Len(s) \in 0 .. Len(s)
  BY LenProperties
<1> QED BY <1>1 DEF Due, Way

LEMMA DueFrom ==
  ASSUME NEW o, NEW c, NEW l, NEW s, NEW q, NEW n, n = Len(s), NEW w, NEW r, Way(kids, n, c, w),
         r \in [0 .. n -> Seq(Nodes)], r[0] = <<>>, r[n] = q,
         \A j \in 1 .. n :
           /\ Fits(w[j - 1], Counter(s, l, j))
           /\ r[j] = Join(After(o, w[j - 1], w[j], Counter(s, l, j)), r[j - 1])
  PROVE  Due(o, c, l, s, q)
  BY DEF Due

LEMMA DueUp ==
  ASSUME NEW o, Ordering(o), NEW c, NEW l, NEW S, NEW s \in Seq(S), s # <<>>, NEW q, Due(o, c, l, s, q)
  PROVE  LET p == Parent(c)
             t == SubSeq(s, 1, Len(s) - 1)
         IN /\ c # Root /\ p \in Nodes /\ c \in Set(kids[p]) /\ Fits(p, l)
            /\ \E r : Due(o, p, s[Len(s)], t, r) /\ q = Join(After(o, p, c, l), r)
<1> DEFINE n == Len(s)
           m == n - 1
           t == SubSeq(s, 1, m)
           e == s[n]
           p == Parent(c)
<1>1. PICK w, r :
        /\ Way(kids, n, c, w)
        /\ r \in [0 .. n -> Seq(Nodes)] /\ r[0] = <<>> /\ r[n] = q
        /\ \A j \in 1 .. n :
             /\ Fits(w[j - 1], Counter(s, l, j))
             /\ r[j] = Join(After(o, w[j - 1], w[j], Counter(s, l, j)), r[j - 1])
  BY DEF Due
<1>2. n \in Nat /\ n # 0 /\ Len(t) = m /\ \A i \in 1 .. m : t[i] = s[i]
  BY FrontIs
<1>3. m \in Nat /\ n \in 1 .. n /\ n - 1 = m
  BY <1>2
<1> HIDE DEF n
<1>4. /\ w[n - 1] = Parent(c) /\ w[n - 1] \in Nodes /\ c \in Set(kids[w[n - 1]])
      /\ \E x : Way(kids, n - 1, w[n - 1], x) /\ \A d \in 0 .. n - 1 : x[d] = w[d]
  <2>1. Grows(Rank, kids)
    BY DEF Ordering
  <2> QED BY <1>1, <1>2, <2>1, WayUp
<1>5. c # Root
  BY <1>4 DEF Ordering, Grows, RootOnTop
<1>6. Counter(s, l, n) = l /\ w[n] = c
  BY <1>1 DEF Counter, Way, n
<1>7. Fits(p, l) /\ q = Join(After(o, p, c, l), r[m])
  BY <1>1, <1>3, <1>4, <1>6
<1>8. PICK x : Way(kids, m, p, x) /\ \A d \in 0 .. m : x[d] = w[d]
  BY <1>3, <1>4
<1> DEFINE z == [d \in 0 .. m |-> r[d]]
<1>9. z \in [0 .. m -> Seq(Nodes)] /\ \A d \in 0 .. m : z[d] = r[d]
  BY <1>1, <1>2
<1> HIDE DEF z
<1>10. ASSUME NEW j \in 1 .. m
       PROVE  /\ Fits(x[j - 1], Counter(t, e, j))
              /\ z[j] = Join(After(o, x[j - 1], x[j], Counter(t, e, j)), z[j - 1])
  <2>1. j \in 1 .. n /\ j \in 0 .. m /\ j - 1 \in 0 .. m /\ j # n
    BY <1>2
  <2>2. Counter(t, e, j) = Counter(s, l, j)
    <3>1. Counter(s, l, j) = s[j + 1]
      BY <2>1 DEF Counter, n
    <3>2. CASE j = m
      <4>1. Counter(t, e, j) = e /\ j + 1 = n
        BY <1>2, <3>2 DEF Counter
      <4> QED BY <3>1, <4>1
    <3>3. CASE j # m
      <4>1. j + 1 \in 1 .. m
        BY <1>3, <3>3
      <4>2. Counter(t, e, j) = t[j + 1]
        BY <1>2, <3>3 DEF Counter
      <4> QED BY <1>2, <3>1, <4>1, <4>2
    <3> QED BY <3>2, <3>3
  <2>3. x[j] = w[j] /\ x[j - 1] = w[j - 1] /\ z[j] = r[j] /\ z[j - 1] = r[j - 1]
    BY <1>8, <1>9, <2>1
  <2> QED BY <1>1, <2>1, <2>2, <2>3
<1>11. z[0] = <<>> /\ z[m] = r[m]
  BY <1>1, <1>3, <1>9
<1>12. Due(o, p, e, t, z[m])
  <2> HIDE DEF t, e, p, m
  <2> DEFINE v == z[m]
  <2>1. z[m] = v /\ m = Len(t)
    BY <1>2
  <2>2. z[0] = <<>> /\ Way(kids, m, p, x)
    BY <1>8, <1>11
  <2> HIDE DEF v
  <2>3. Due(o, p, e, t, v)
    BY <1>9, <1>10, <2>1, <2>2, DueFrom
  <2> QED BY <2>3 DEF v
<1>13. q = Join(After(o, p, c, l), z[m])
  BY <1>7, <1>11
<1> HIDE DEF p
<1>14. p \in Nodes /\ c \in Set(kids[p])
  BY <1>4 DEF p
<1> QED BY <1>5, <1>7, <1>12, <1>13, <1>14 DEF t, m, e, n, p

LEMMA DueDown ==
  ASSUME NEW o, Ordering(o), NEW p, NEW l, NEW S, NEW s \in Seq(S), NEW q, Due(o, p, l, s, q),
         NEW c \in Set(kids[p]), NEW b, Fits(p, b)
  PROVE  Due(o, c, b, Append(s, l), Join(After(o, p, c, b), q))
<1> DEFINE n == Len(s)
           t == Append(s, l)
<1>1. PICK w, r :
        /\ Way(kids, n, p, w)
        /\ r \in [0 .. n -> Seq(Nodes)] /\ r[0] = <<>> /\ r[n] = q
        /\ \A j \in 1 .. n :
             /\ Fits(w[j - 1], Counter(s, l, j))
             /\ r[j] = Join(After(o, w[j - 1], w[j], Counter(s, l, j)), r[j - 1])
  BY DEF Due
<1>2. n \in Nat
  BY LenProperties
<1>3. Len(t) = n + 1 /\ t[n + 1] = l /\ \A i \in 1 .. n : t[i] = s[i]
  <2>1. s \in Seq(S \union {l}) /\ l \in S \union {l}
    BY LenProperties
  <2>2. \A i \in 1 .. Len(s) + 1 : t[i] = IF i = Len(s) + 1 THEN l ELSE s[i]
    BY <2>1, AppendProperties
  <2>3. Len(t) = n + 1
    BY <2>1, AppendProperties
  <2> QED BY <1>2, <2>2, <2>3
<1> HIDE DEF n, t
<1>4. PICK x : Way(kids, n + 1, c, x) /\ \A d \in 0 .. n : x[d] = w[d]
  <2>1. kids \in [Nodes -> Seq(Nodes)]
    BY DEF Ordering, Grows
  <2>2. Way(kids, n, p, w)
    BY <1>1
  <2>3. c \in Set(kids[p])
    OBVIOUS
  <2>4. \A t0, w0 : Way(kids, n, t0, w0) =>
          \A c0 \in Set(kids[t0]) : \E x : Way(kids, n + 1, c0, x) /\ \A d \in 0 .. n : x[d] = w0[d]
    BY <1>2, <2>1, WayDown
  <2>5. \A c0 \in Set(kids[p]) : \E x : Way(kids, n + 1, c0, x) /\ \A d \in 0 .. n : x[d] = w[d]
    <3>1. \A w0 : Way(kids, n, p, w0) =>
          \A c0 \in Set(kids[p]) : \E x : Way(kids, n + 1, c0, x) /\ \A d \in 0 .. n : x[d] = w0[d]
      BY <2>4, Zenon
    <3>2. Way(kids, n, p, w) =>
          \A c0 \in Set(kids[p]) : \E x : Way(kids, n + 1, c0, x) /\ \A d \in 0 .. n : x[d] = w[d]
      BY <3>1, Zenon
    <3> QED BY <2>2, <3>2, Zenon
  <2>6. \E x : Way(kids, n + 1, c, x) /\ \A d \in 0 .. n : x[d] = w[d]
    BY <2>3, <2>5, Zenon
  <2> QED BY <2>6
<1> DEFINE y == Join(After(o, p, c, b), q)
           z == [d \in 0 .. n + 1 |-> IF d = n + 1 THEN y ELSE r[d]]
<1>5. p \in Nodes /\ q \in Seq(Nodes) /\ w[n] = p
  BY <1>1, <1>2 DEF Way
<1>6. y \in Seq(Nodes)
  <2>1. After(o, p, c, b) \in Seq(Nodes)
    BY <1>5, AfterIs
  <2> QED BY <1>5, <2>1, JoinIs
<1> HIDE DEF y
<1>7. z \in [0 .. n + 1 -> Seq(Nodes)] /\ z[n + 1] = y /\ \A d \in 0 .. n : z[d] = r[d]
  BY <1>1, <1>2, <1>6
<1> HIDE DEF z
<1>8. ASSUME NEW j \in 1 .. n + 1
      PROVE  /\ Fits(x[j - 1], Counter(t, b, j))
             /\ z[j] = Join(After(o, x[j - 1], x[j], Counter(t, b, j)), z[j - 1])
  <2>1. CASE j = n + 1
    <3>1. j - 1 = n /\ n \in 0 .. n
      BY <1>2, <2>1
    <3>2. x[j] = c /\ x[j - 1] = p /\ z[j] = y /\ z[j - 1] = q /\ Counter(t, b, j) = b
      BY <1>1, <1>3, <1>4, <1>5, <1>7, <2>1, <3>1 DEF Counter, Way
    <3> QED BY <3>2 DEF y
  <2>2. CASE j # n + 1
    <3>1. j \in 1 .. n /\ j \in 0 .. n /\ j - 1 \in 0 .. n
      BY <1>2, <2>2
    <3>2. Counter(t, b, j) = Counter(s, l, j)
      <4>1. Counter(t, b, j) = t[j + 1]
        BY <1>3, <2>2 DEF Counter
      <4>2. CASE j = n
        BY <1>3, <4>1, <4>2 DEF Counter, n
      <4>3. CASE j # n
        <5>1. j + 1 \in 1 .. n
          BY <1>2, <3>1, <4>3
        <5> QED BY <1>3, <4>1, <4>3, <5>1 DEF Counter, n
      <4> QED BY <4>2, <4>3
    <3>3. x[j] = w[j] /\ x[j - 1] = w[j - 1] /\ z[j] = r[j] /\ z[j - 1] = r[j - 1]
      BY <1>4, <1>7, <3>1
    <3> QED BY <1>1, <3>1, <3>2, <3>3
  <2> QED BY <2>1, <2>2
<1>9. z[0] = <<>>
  <2>1. 0 \in 0 .. n
    BY <1>2
  <2> QED BY <1>1, <1>7, <2>1
<1>10. Due(o, c, b, t, y)
  <2> DEFINE m == n + 1
  <2>1. m = Len(t) /\ Way(kids, m, c, x) /\ z[m] = y
    BY <1>3, <1>4, <1>7
  <2> QED BY <1>7, <1>8, <1>9, <2>1, DueFrom
<1> QED BY <1>10 DEF t, y

\* To another child of the same list.
LEMMA DueAside ==
  ASSUME NEW o, Ordering(o), NEW c, NEW l, NEW S, NEW s \in Seq(S), s # <<>>, NEW r,
         NEW p \in Nodes, p = Parent(c), Due(o, p, s[Len(s)], SubSeq(s, 1, Len(s) - 1), r),
         NEW n \in Set(kids[p]), NEW b, Fits(p, b)
  PROVE  Due(o, n, b, s, Join(After(o, p, n, b), r))
<1> DEFINE t == SubSeq(s, 1, Len(s) - 1)
           e == s[Len(s)]
<1>1. t \in Seq(S) /\ Append(t, e) = s
  BY FrontIs
<1>2. Due(o, p, e, t, r)
  OBVIOUS
<1> HIDE DEF t, e
<1>3. Due(o, n, b, Append(t, e), Join(After(o, p, n, b), r))
  BY <1>1, <1>2, DueDown
<1> QED BY <1>1, <1>3

\* What is still to be played from a spot of a walk.
Owes(o, x, q) ==
  \/ x.fn = "step" /\ x.d = 1 /\ Due(o, x.tree, x.loop, x.stack, q)
  \/ /\ \/ x.fn = "step" /\ x.d = 0
        \/ x.fn = "down" /\ x.d \in {0, 1} /\ kids[x.tree] # <<>>
     /\ \E r : Due(o, x.tree, x.loop, x.stack, r) /\ q = Join(o.all[x.tree], r)
  \/ /\ x.fn = "up" /\ x.d = 1 /\ Due(o, x.tree, x.loop, x.stack, q)
     /\ x.tree # Root => /\ Place(x.tree) = Len(kids[Parent(x.tree)])
                         /\ Pass(Parent(x.tree), x.loop) = Rounds(Parent(x.tree))

LEMMA EmptyAll ==
  ASSUME NEW o, Ordering(o), kids[Root] = <<>>
  PROVE  o.all[Root] = <<>>
<1> DEFINE n == Rounds(Root)
           m == o.more[Root]
           Bad == {k \in Nat : k \in 0 .. n /\ m[n - k] # <<>>}
<1>1. Root \in Nodes /\ Root \notin Entries
  BY TreeAssumption DEF Entries
<1>2. n \in Nat
  BY <1>1 DEF Ordering, Rounds
<1>3. Remainders(m, n, [j \in 1 .. n |-> o.rest[Root][0]], Nodes) /\ o.all[Root] = m[0]
  BY <1>1 DEF Ordering, Ordered
<1>4. o.rest[Root][0] = <<>>
  <2>1. Len(kids[Root]) = 0
    OBVIOUS
  <2> QED BY <1>1, <2>1 DEF Ordering, Ordered, Remainders
<1> HIDE DEF n, m
<1>5. m[n] = <<>> /\ \A i \in 1 .. n : m[i - 1] = Join(<<>>, m[i])
  BY <1>3, <1>4 DEF Remainders
<1>6. Bad = {}
  <2> SUFFICES ASSUME Bad # {} PROVE FALSE
    OBVIOUS
  <2>1. PICK k \in Bad : \A j \in Bad : k <= j
    <3>1. Bad \in SUBSET Nat
      OBVIOUS
    <3> QED BY <3>1, LeastNatural
  <2>2. k \in 0 .. n /\ m[n - k] # <<>> /\ k # 0
    BY <1>2, <1>5
  <2>3. k - 1 \in Nat /\ k - 1 \in 0 .. n /\ n - (k - 1) \in 1 .. n /\ (n - (k - 1)) - 1 = n - k /\ ~(k <= k - 1)
    BY <1>2, <2>2
  <2>4. m[n - (k - 1)] = <<>>
    BY <2>1, <2>3
  <2>5. m[n - k] = Join(<<>>, <<>>)
    BY <1>5, <2>3, <2>4
  <2> QED BY <2>2, <2>5 DEF Join
<1>7. n \in 0 .. n /\ n - n = 0 /\ n \in Nat
  BY <1>2
<1> QED BY <1>3, <1>6, <1>7

LEMMA SpotPlace ==
  ASSUME NEW o, Ordering(o), NEW c, NEW l, NEW s, s \in Seq(Range(s)), NEW q, Due(o, c, l, s, q)
  PROVE  \/ s = <<>> /\ c = Root /\ q = <<>> /\ Siblings(c) = <<Root>> /\ Place(c) = 1
         \/ /\ s # <<>> /\ c # Root
            /\ \E p \in Nodes : \E r \in Seq(Nodes) :
                 /\ p = Parent(c) /\ c \in Set(kids[p]) /\ c \in Nodes /\ Siblings(c) = kids[p]
                 /\ Len(kids[p]) \in Nat /\ DOMAIN kids[p] = 1 .. Len(kids[p])
                 /\ Place(c) \in 1 .. Len(kids[p]) /\ kids[p][Place(c)] = c
                 /\ Fits(p, l) /\ After(o, p, c, l) \in Seq(Nodes)
                 /\ Due(o, p, s[Len(s)], SubSeq(s, 1, Len(s) - 1), r) /\ q = Join(After(o, p, c, l), r)
<1>1. CASE s = <<>>
  <2>1. Due(o, c, l, <<>>, q)
    BY <1>1
  <2>2. c = Root /\ q = <<>>
    BY <2>1, DueTop
  <2>3. Siblings(c) = <<Root>>
    BY <2>2 DEF Siblings
  <2>4. Place(c) = 1
    BY <2>2, <2>3 DEF Place
  <2> QED BY <1>1, <2>2, <2>3, <2>4
<1>2. CASE s # <<>>
  <2> DEFINE p == Parent(c)
             t == SubSeq(s, 1, Len(s) - 1)
  <2>1. /\ c # Root /\ p \in Nodes /\ c \in Set(kids[p]) /\ Fits(p, l)
        /\ \E r : Due(o, p, s[Len(s)], t, r) /\ q = Join(After(o, p, c, l), r)
    BY <1>2, DueUp
  <2>2. PICK r : Due(o, p, s[Len(s)], t, r) /\ q = Join(After(o, p, c, l), r)
    BY <2>1
  <2>3. t \in Seq(Range(s))
    BY <1>2, FrontIs
  <2>4. r \in Seq(Nodes)
    <3> HIDE DEF t, p
    <3> QED BY <2>2, <2>3, DueIs
  <2>5. Siblings(c) = kids[p]
    BY <2>1 DEF Siblings
  <2> HIDE DEF p
  <2>6. /\ Len(kids[p]) \in Nat /\ DOMAIN kids[p] = 1 .. Len(kids[p])
        /\ Place(c) \in 1 .. Len(kids[p]) /\ kids[p][Place(c)] = c
    BY <2>1, PlaceIs DEF Ordering
  <2>7. c \in Nodes /\ After(o, p, c, l) \in Seq(Nodes)
    BY <2>1, AfterIs
  <2> QED BY <1>2, <2>1, <2>2, <2>4, <2>5, <2>6, <2>7 DEF p, t
<1> QED BY <1>1, <1>2

LEMMA AtIs ==
  ASSUME NEW fn, NEW d, NEW n, NEW l, NEW s
  PROVE  LET x == At(fn, d, n, l, s)
         IN x.fn = fn /\ x.d = d /\ x.tree = n /\ x.loop = l /\ x.stack = s
  BY DEF At

\* Every node of the tree is an entry or a list, the root maybe neither.
LEMMA ListOrEntry ==
  ASSUME NEW o, Ordering(o), Rank \in [Nodes -> 0 .. MaxDepth], NEW n \in Nodes
  PROVE  /\ kids[n] # <<>> <=> IsList(n)
         /\ \A p \in Nodes : n \in Set(kids[p]) => n \in Entries \/ IsList(n)
         /\ n \in Entries <=> Files[n] > 0
         /\ Files[n] \in Nat
<1>1. kids \in [Nodes -> Seq(Nodes)] /\ Filled(kids) /\ Grows(Rank, kids) /\ Falling(Rank, kids)
  BY DEF Ordering, Grows
<1>2. ASSUME kids[n] # <<>> PROVE IsList(n)
  <2> DEFINE c == kids[n][1]
  <2>1. kids[n] \in Seq(Nodes)
    BY <1>1
  <2>2. 1 \in 1 .. Len(kids[n])
    BY <1>2, <2>1, EmptySeq, LenProperties
  <2>3. c \in Set(kids[n]) /\ c \in Nodes
    BY <1>1, <2>2, PlaceIs
  <2>4. c \in Entries \/ kids[c] # <<>>
    BY <1>1, <2>3 DEF Filled
  <2>5. Valid(kids, c)
    BY <1>1, <2>3, <2>4, AllValid
  <2> QED BY <1>2, <2>5 DEF IsList
<1>3. IsList(n) => kids[n] # <<>>
  BY DEF IsList
<1>4. \A p \in Nodes : n \in Set(kids[p]) => n \in Entries \/ kids[n] # <<>>
  BY <1>1 DEF Filled
<1> QED BY <1>2, <1>3, <1>4, TreeAssumption DEF Entries

Owing(o, x, q) ==
  /\ Ordering(o) /\ Rank \in [Nodes -> 0 .. MaxDepth]
  /\ x.stack \in Seq(Range(x.stack)) /\ Owes(o, x, q)

\* A step by 0 stays, and a step by 1 goes to the next child.
LEMMA StayAhead ==
  ASSUME NEW o, NEW x, NEW q, Owing(o, x, q), x.fn = "step", x.d = 0
  PROVE  /\ Ahead(x) = {x.tree} /\ Over(x) = 0 /\ Siblings(x.tree)[Place(x.tree) + x.d] = x.tree
         /\ x.tree \in Nodes /\ ~Shuffled(x.tree)
<1>1. PICK r : Due(o, x.tree, x.loop, x.stack, r)
  BY DEF Owing, Owes
<1> DEFINE c == x.tree
           l == x.loop
           s == x.stack
<1>2. Place(c) \in DOMAIN Siblings(c) /\ Siblings(c)[Place(c)] = c /\ c \in Nodes /\ Place(c) + 0 = Place(c)
      /\ (c = Root \/ Parent(c) \in Nodes)
  <2>1. Due(o, c, l, s, r) /\ Ordering(o) /\ s \in Seq(Range(s))
    BY <1>1 DEF Owing
  <2> HIDE DEF c, l, s
  <2>2. CASE c = Root /\ Siblings(c) = <<Root>> /\ Place(c) = 1
    BY <2>2, TreeAssumption
  <2>3. CASE \E p \in Nodes :
               /\ p = Parent(c) /\ c \in Nodes /\ Siblings(c) = kids[p]
               /\ Len(kids[p]) \in Nat /\ DOMAIN kids[p] = 1 .. Len(kids[p])
               /\ Place(c) \in 1 .. Len(kids[p]) /\ kids[p][Place(c)] = c
    BY <2>3
  <2> QED BY <2>1, <2>2, <2>3, SpotPlace
<1>3. ~Shuffled(c)
  BY <1>2 DEF Shuffled, Owing, Ordering
<1>4. NthFrom(c, 0) = {c}
  BY <1>2 DEF NthFrom
<1> QED BY <1>2, <1>3, <1>4 DEF Ahead, Over

LEMMA NextAhead ==
  ASSUME NEW o, NEW x, NEW q, Owing(o, x, q), x.fn = "step", x.d = 1
  PROVE  /\ Over(x) = 1 /\ x.tree \in Nodes /\ ~Shuffled(x.tree)
         /\ \/ x.tree = Root /\ q = <<>> /\ x.stack = <<>> /\ Ahead(x) = {}
            \/ /\ x.tree # Root /\ x.stack # <<>>
               /\ \E p \in Nodes : \E r \in Seq(Nodes) :
                    LET k == Len(kids[p])
                        i == Place(x.tree)
                    IN /\ p = Parent(x.tree) /\ x.tree \in Set(kids[p]) /\ Siblings(x.tree) = kids[p]
                       /\ k \in Nat /\ DOMAIN kids[p] = 1 .. k /\ i \in 1 .. k
                       /\ Fits(p, x.loop) /\ After(o, p, x.tree, x.loop) \in Seq(Nodes)
                       /\ Due(o, p, x.stack[Len(x.stack)], SubSeq(x.stack, 1, Len(x.stack) - 1), r)
                       /\ q = Join(After(o, p, x.tree, x.loop), r)
                       /\ \/ i + 1 \in 1 .. k /\ Ahead(x) = {kids[p][i + 1]}
                          \/ i = k /\ Ahead(x) = {}
<1> DEFINE c == x.tree
           l == x.loop
           s == x.stack
<1>1. Due(o, c, l, s, q) /\ Ordering(o) /\ s \in Seq(Range(s))
  BY DEF Owing, Owes
<1>2. \/ s = <<>> /\ c = Root /\ q = <<>> /\ Siblings(c) = <<Root>> /\ Place(c) = 1
      \/ /\ s # <<>> /\ c # Root
         /\ \E p \in Nodes : \E r \in Seq(Nodes) :
              /\ p = Parent(c) /\ c \in Set(kids[p]) /\ c \in Nodes /\ Siblings(c) = kids[p]
              /\ Len(kids[p]) \in Nat /\ DOMAIN kids[p] = 1 .. Len(kids[p])
              /\ Place(c) \in 1 .. Len(kids[p]) /\ kids[p][Place(c)] = c
              /\ Fits(p, l) /\ After(o, p, c, l) \in Seq(Nodes)
              /\ Due(o, p, s[Len(s)], SubSeq(s, 1, Len(s) - 1), r) /\ q = Join(After(o, p, c, l), r)
  <2> HIDE DEF c, l, s
  <2> QED BY <1>1, SpotPlace
<1>3. CASE s = <<>> /\ c = Root /\ q = <<>> /\ Siblings(c) = <<Root>> /\ Place(c) = 1
  <2>1. ~Shuffled(c) /\ c \in Nodes
    BY <1>3, TreeAssumption DEF Shuffled
  <2>2. NthFrom(c, 1) = {} /\ Len(Siblings(c)) = 1
    BY <1>3 DEF NthFrom
  <2>3. Ahead(x) = {}
    BY <2>1, <2>2 DEF Ahead
  <2>4. Over(x) = 1
    BY <1>3, <2>1, <2>2, <2>3 DEF Over, Sign
  <2> QED BY <1>3, <2>1, <2>3, <2>4
<1>4. ASSUME s # <<>>, c # Root, NEW p \in Nodes, NEW r \in Seq(Nodes),
             p = Parent(c), c \in Nodes, Siblings(c) = kids[p],
             Len(kids[p]) \in Nat, DOMAIN kids[p] = 1 .. Len(kids[p]), Place(c) \in 1 .. Len(kids[p])
      PROVE  /\ Over(x) = 1 /\ ~Shuffled(c)
             /\ \/ Place(c) + 1 \in 1 .. Len(kids[p]) /\ Ahead(x) = {kids[p][Place(c) + 1]}
                \/ Place(c) = Len(kids[p]) /\ Ahead(x) = {}
  <2>1. ~Shuffled(c)
    BY <1>1, <1>4 DEF Shuffled, Ordering
  <2>2. Ahead(x) = NthFrom(c, 1)
    BY <2>1 DEF Ahead
  <2>3. CASE Place(c) + 1 \in 1 .. Len(kids[p])
    <3>1. Ahead(x) = {kids[p][Place(c) + 1]}
      BY <1>4, <2>2, <2>3 DEF NthFrom
    <3>2. Over(x) = 1
      BY <2>1, <3>1 DEF Over, Sign
    <3> QED BY <2>1, <2>3, <3>1, <3>2
  <2>4. CASE Place(c) + 1 \notin 1 .. Len(kids[p])
    <3>1. Ahead(x) = {}
      BY <1>4, <2>2, <2>4 DEF NthFrom
    <3>2. Place(c) = Len(kids[p])
      BY <1>4, <2>4
    <3>3. 1 - (Len(kids[p]) - Place(c)) - 1 = 0
      BY <1>4, <3>2
    <3>4. Over(x) = 1
      BY <1>4, <2>1, <3>3 DEF Over, Sign
    <3> QED BY <2>1, <3>1, <3>2, <3>4
  <2> QED BY <2>3, <2>4
<1>5. CASE /\ s # <<>> /\ c # Root
           /\ \E p \in Nodes : \E r \in Seq(Nodes) :
                /\ p = Parent(c) /\ c \in Set(kids[p]) /\ c \in Nodes /\ Siblings(c) = kids[p]
                /\ Len(kids[p]) \in Nat /\ DOMAIN kids[p] = 1 .. Len(kids[p])
                /\ Place(c) \in 1 .. Len(kids[p]) /\ kids[p][Place(c)] = c
                /\ Fits(p, l) /\ After(o, p, c, l) \in Seq(Nodes)
                /\ Due(o, p, s[Len(s)], SubSeq(s, 1, Len(s) - 1), r) /\ q = Join(After(o, p, c, l), r)
  <2>1. PICK p \in Nodes, r \in Seq(Nodes) :
              /\ p = Parent(c) /\ c \in Set(kids[p]) /\ c \in Nodes /\ Siblings(c) = kids[p]
              /\ Len(kids[p]) \in Nat /\ DOMAIN kids[p] = 1 .. Len(kids[p])
              /\ Place(c) \in 1 .. Len(kids[p]) /\ kids[p][Place(c)] = c
              /\ Fits(p, l) /\ After(o, p, c, l) \in Seq(Nodes)
              /\ Due(o, p, s[Len(s)], SubSeq(s, 1, Len(s) - 1), r) /\ q = Join(After(o, p, c, l), r)
    BY <1>5
  <2>2. /\ Over(x) = 1 /\ ~Shuffled(c)
        /\ \/ Place(c) + 1 \in 1 .. Len(kids[p]) /\ Ahead(x) = {kids[p][Place(c) + 1]}
           \/ Place(c) = Len(kids[p]) /\ Ahead(x) = {}
    BY <1>4, <1>5, <2>1
  <2> QED BY <1>5, <2>1, <2>2, Zenon
<1> QED BY <1>2, <1>3, <1>5

\* A walk that comes to a list owes what it owed.
LEMMA OwesUp ==
  ASSUME NEW o, NEW x, NEW q, Owing(o, x, q), x.fn = "up", ~Ends(x)
  PROVE  Owes(o, Onward(x), q)
<1> DEFINE c == x.tree
           l == x.loop
           s == x.stack
           t == SubSeq(s, 1, Len(s) - 1)
           e == s[Len(s)]
<1>1. /\ Due(o, c, l, s, q) /\ Ordering(o) /\ s \in Seq(Range(s)) /\ c # Root
      /\ Place(c) = Len(kids[Parent(c)]) /\ Pass(Parent(c), l) = Rounds(Parent(c))
  BY DEF Owing, Owes, Ends
<1>2. PICK p \in Nodes, r \in Seq(Nodes) :
        /\ p = Parent(c) /\ c \in Set(kids[p]) /\ Fits(p, l)
        /\ Due(o, p, e, t, r) /\ q = Join(After(o, p, c, l), r)
  <2> HIDE DEF c, l, s
  <2> QED BY <1>1, SpotPlace DEF t, e
<1>3. After(o, p, c, l) = <<>>
  <2> HIDE DEF c, l, s
  <2> QED BY <1>1, <1>2, AfterLast
<1>4. q = r
  BY <1>2, <1>3, ConcatEmptySeq DEF Join
<1>5. Onward(x) = At("step", 1, p, e, t)
  BY <1>2 DEF Onward, Raised, Owing, Owes
<1> HIDE DEF t, e
<1> QED BY <1>2, <1>4, <1>5, AtIs DEF Owes

LEMMA OwesDown ==
  ASSUME NEW o, NEW x, NEW q, Owing(o, x, q), x.fn = "down"
  PROVE  Owes(o, Onward(x), q)
<1> DEFINE c == x.tree
           l == x.loop
           s == x.stack
           n == kids[c][1]
           b == loop[c] - 1
           t == Append(s, l)
<1>1. Ordering(o) /\ s \in Seq(Range(s)) /\ kids[c] # <<>> /\ x.d \in {0, 1}
  BY DEF Owing, Owes
<1>2. PICK r : Due(o, c, l, s, r) /\ q = Join(o.all[c], r)
  BY DEF Owing, Owes
<1>3. c \in Nodes /\ r \in Seq(Nodes)
  <2> HIDE DEF c, l, s
  <2> QED BY <1>1, <1>2, DueIs
<1>4. Fits(c, b) /\ Pass(c, b) = 1
  <2>1. loop[c] \in Nat
    BY <1>3 DEF Ordering, Owing
  <2> QED BY <2>1 DEF Fits, Pass
<1>5. /\ n \in Set(kids[c]) /\ o.all[n] \in Seq(Nodes) /\ c \notin Entries
      /\ o.more[c][Pass(c, b) - 1] = Join(o.all[n], After(o, c, n, b))
  <2> HIDE DEF c, b
  <2> QED BY <1>1, <1>3, <1>4, AfterPass DEF n
<1>6. o.all[c] = Join(o.all[n], After(o, c, n, b))
  <2> HIDE DEF c, b
  <2>1. o.all[c] = o.more[c][0]
    BY <1>1, <1>3, <1>5 DEF Ordering, Ordered
  <2>2. Pass(c, b) - 1 = 0
    BY <1>4
  <2> QED BY <1>5, <2>1, <2>2
<1> DEFINE y == Join(After(o, c, n, b), r)
<1>7. Due(o, n, b, t, y) /\ After(o, c, n, b) \in Seq(Nodes)
  <2> HIDE DEF c, l, s, n, b
  <2>1. Due(o, n, b, Append(s, l), Join(After(o, c, n, b), r))
    BY <1>1, <1>2, <1>4, <1>5, DueDown
  <2>2. After(o, c, n, b) \in Seq(Nodes)
    BY <1>1, <1>3, <1>4, <1>5, AfterIs
  <2> QED BY <2>1, <2>2 DEF t
<1>8. q = Join(o.all[n], y)
  <2> DEFINE u == o.all[n]
             v == After(o, c, n, b)
  <2>1. u \in Seq(Nodes) /\ v \in Seq(Nodes)
    BY <1>5, <1>7
  <2>2. q = Join(Join(u, v), r)
    BY <1>2, <1>6
  <2>3. Join(Join(u, v), r) = Join(u, Join(v, r))
    <3> HIDE DEF u, v
    <3> QED BY <1>3, <2>1, JoinIs
  <2> QED BY <2>2, <2>3
<1>9. Onward(x) = At("step", 0, n, b, t)
  BY <1>1 DEF Onward, Lowered
<1> HIDE DEF n, b, t, y
<1> QED BY <1>7, <1>8, <1>9, AtIs DEF Owes

LEMMA OwesStay ==
  ASSUME NEW o, NEW x, NEW q, Owing(o, x, q), x.fn = "step", x.d = 0, ~Ends(x), ~Arrives(x)
  PROVE  Owes(o, Onward(x), q)
<1> DEFINE c == x.tree
<1>1. /\ Ahead(x) = {c} /\ Over(x) = 0 /\ Siblings(c)[Place(c) + x.d] = c
      /\ c \in Nodes /\ ~Shuffled(c)
  BY StayAhead
<1>2. Files[c] \in Nat /\ (kids[c] # <<>> <=> IsList(c))
  BY <1>1, ListOrEntry DEF Owing
<1>3. IsList(c) /\ kids[c] # <<>>
  BY <1>1, <1>2 DEF Ends, Arrives
<1>4. Onward(x) = At("down", 0, c, x.loop, x.stack)
  BY <1>1, <1>3 DEF Onward, Passed
<1>5. PICK r : Due(o, c, x.loop, x.stack, r) /\ q = Join(o.all[c], r)
  BY DEF Owing, Owes
<1> QED BY <1>3, <1>4, <1>5, AtIs DEF Owes

\* The step to the next child of the list.
LEMMA OwesNext ==
  ASSUME NEW o, NEW x, NEW q, Owing(o, x, q), x.fn = "step", x.d = 1, NEW n \in Ahead(x)
  PROVE  /\ n = Siblings(x.tree)[Place(x.tree) + x.d] /\ Ahead(x) = {n} /\ n \in Nodes
         /\ n \in Entries \/ IsList(n)
         /\ \E r \in Seq(Nodes) : Due(o, n, x.loop, x.stack, r) /\ q = Join(o.all[n], r)
<1> DEFINE c == x.tree
           l == x.loop
           s == x.stack
           e == s[Len(s)]
           t == SubSeq(s, 1, Len(s) - 1)
<1>1. Ordering(o) /\ s \in Seq(Range(s)) /\ Rank \in [Nodes -> 0 .. MaxDepth] /\ Grows(Rank, kids)
  BY DEF Owing, Ordering
<1>2. PICK p \in Nodes, r \in Seq(Nodes) :
        /\ s # <<>> /\ p = Parent(c) /\ c \in Set(kids[p]) /\ Siblings(c) = kids[p]
        /\ DOMAIN kids[p] = 1 .. Len(kids[p])
        /\ Fits(p, l) /\ Due(o, p, e, t, r) /\ q = Join(After(o, p, c, l), r)
        /\ Place(c) + 1 \in 1 .. Len(kids[p]) /\ Ahead(x) = {kids[p][Place(c) + 1]}
  BY NextAhead
<1>3. n = kids[p][Place(c) + 1]
  BY <1>2
<1>4. n \in Set(kids[p]) /\ o.all[n] \in Seq(Nodes) /\ After(o, p, c, l) = Join(o.all[n], After(o, p, n, l))
  <2>1. Place(c) + 1 \in DOMAIN kids[p]
    BY <1>2
  <2> HIDE DEF c, l, s
  <2> QED BY <1>1, <1>2, <1>3, <2>1, AfterNext
<1>5. n \in Nodes /\ After(o, p, n, l) \in Seq(Nodes)
  BY <1>1, <1>2, <1>4, AfterIs
<1>6. n \in Entries \/ IsList(n)
  BY <1>1, <1>4, <1>5, ListOrEntry
<1> DEFINE v == After(o, p, n, l)
           u == o.all[n]
<1>7. Due(o, n, l, s, Join(v, r))
  <2> HIDE DEF c, l, s
  <2> QED BY <1>1, <1>2, <1>4, DueAside DEF t, e
<1>8. q = Join(u, Join(v, r)) /\ Join(v, r) \in Seq(Nodes)
  <2>1. u \in Seq(Nodes) /\ v \in Seq(Nodes) /\ q = Join(Join(u, v), r)
    BY <1>2, <1>4, <1>5
  <2> HIDE DEF u, v
  <2> QED BY <2>1, JoinIs
<1> HIDE DEF u, v
<1>9. \E y \in Seq(Nodes) : Due(o, n, l, s, y) /\ q = Join(u, y)
  BY <1>7, <1>8
<1> QED BY <1>2, <1>3, <1>5, <1>6, <1>9 DEF u

\* When the list is gone through it is gone through again, or left.
LEMMA OwesLast ==
  ASSUME NEW o, NEW x, NEW q, Owing(o, x, q), x.fn = "step", x.d = 1, Ahead(x) = {}
  PROVE  Owes(o, Onward(x), q)
<1> DEFINE c == x.tree
           l == x.loop
           s == x.stack
           e == s[Len(s)]
           t == SubSeq(s, 1, Len(s) - 1)
<1>1. Ordering(o) /\ s \in Seq(Range(s)) /\ Due(o, c, l, s, q) /\ Over(x) = 1
  <2>1. Ordering(o) /\ s \in Seq(Range(s)) /\ Due(o, c, l, s, q)
    BY DEF Owing, Owes
  <2> QED BY <2>1, NextAhead
<1>2. CASE c = Root
  <2>1. ~Turns(x, Over(x))
    BY <1>2 DEF Turns
  <2>2. Onward(x) = At("up", 1, c, l, s)
    BY <1>1, <2>1 DEF Onward
  <2> QED BY <1>1, <1>2, <2>2, AtIs DEF Owes
<1>3. CASE c # Root
  <2>1. PICK p \in Nodes, r \in Seq(Nodes) :
          /\ s # <<>> /\ p = Parent(c) /\ c \in Set(kids[p]) /\ Siblings(c) = kids[p]
          /\ Fits(p, l) /\ Due(o, p, e, t, r) /\ q = Join(After(o, p, c, l), r) /\ Place(c) = Len(kids[p])
    <3>1. PICK p \in Nodes, r \in Seq(Nodes) :
            LET k == Len(kids[p])
                i == Place(c)
            IN /\ p = Parent(c) /\ c \in Set(kids[p]) /\ Siblings(c) = kids[p]
               /\ k \in Nat /\ DOMAIN kids[p] = 1 .. k /\ i \in 1 .. k
               /\ Fits(p, l) /\ After(o, p, c, l) \in Seq(Nodes)
               /\ Due(o, p, e, t, r)
               /\ q = Join(After(o, p, c, l), r)
               /\ \/ i + 1 \in 1 .. k /\ Ahead(x) = {kids[p][i + 1]}
                  \/ i = k /\ Ahead(x) = {}
      BY <1>3, NextAhead, Zenon
    <3>3. s # <<>>
      BY <1>3, NextAhead
    <3>2. Place(c) = Len(kids[p])
      BY <3>1
    <3> QED BY <3>1, <3>2, <3>3
  <2>2. loop[p] \in Nat /\ (loop[p] > 0 => l \in 0 .. loop[p] - 1)
    BY <2>1 DEF Fits, Owing, Ordering
  <2>3. Turns(x, 1) <=> loop[p] > 0 /\ l # 0
    BY <1>3, <2>1, <2>2 DEF Turns
  <2>4. CASE loop[p] > 0 /\ l # 0
    <3> DEFINE n == kids[p][1]
               b == l - 1
    <3>1. Onward(x) = At("step", 0, n, b, s)
      <4>1. l > 0
        BY <2>2, <2>4
      <4>2. Turned(x) = At("step", 0, n, b, s)
        BY <2>1, <4>1 DEF Turned
      <4> QED BY <1>1, <2>3, <2>4, <4>2 DEF Onward
    <3>2. Fits(p, b) /\ Pass(p, b) - 1 = Pass(p, l)
      BY <2>2, <2>4 DEF Fits, Pass
    <3>3. kids[p] # <<>>
      <4>1. kids[p] \in Seq(Nodes)
        BY <1>1, <2>1 DEF Ordering, Grows
      <4> QED BY <2>1, <4>1, SetIs
    <3>4. /\ n \in Set(kids[p]) /\ o.all[n] \in Seq(Nodes)
          /\ o.more[p][Pass(p, b) - 1] = Join(o.all[n], After(o, p, n, b))
      <4> HIDE DEF b
      <4> QED BY <1>1, <2>1, <3>2, <3>3, AfterPass DEF n
    <3>5. After(o, p, c, l) = o.more[p][Pass(p, l)]
      <4> HIDE DEF c, l, s
      <4> QED BY <1>1, <2>1, AfterLast
    <3> DEFINE v == After(o, p, n, b)
               u == o.all[n]
    <3>6. v \in Seq(Nodes)
      <4> HIDE DEF b, n
      <4> QED BY <1>1, <2>1, <3>2, <3>4, AfterIs
    <3>7. q = Join(Join(u, v), r)
      BY <2>1, <3>2, <3>4, <3>5
    <3>8. q = Join(u, Join(v, r))
      <4>1. u \in Seq(Nodes)
        BY <3>4
      <4> HIDE DEF u, v
      <4> QED BY <3>6, <3>7, <4>1, JoinIs
    <3>9. Due(o, n, b, s, Join(v, r))
      <4> HIDE DEF c, l, s, n, b
      <4> QED BY <1>1, <2>1, <3>2, <3>4, DueAside DEF t, e
    <3> HIDE DEF n, b, v
    <3>10. \E y : Due(o, n, b, s, y) /\ q = Join(o.all[n], y)
      BY <3>8, <3>9
    <3> QED BY <3>1, <3>10, AtIs DEF Owes
  <2>5. CASE ~(loop[p] > 0 /\ l # 0)
    <3>1. Onward(x) = At("up", 1, c, l, s)
      BY <1>1, <2>3, <2>5 DEF Onward
    <3>2. Pass(p, l) = Rounds(p)
      BY <2>2, <2>5 DEF Pass, Rounds
    <3> QED BY <1>1, <2>1, <3>1, <3>2, AtIs DEF Owes
  <2> QED BY <2>4, <2>5
<1> QED BY <1>2, <1>3

\* An activation that goes on owes what was owed.
LEMMA OwesOnward ==
  ASSUME NEW o, NEW x, NEW q, Owing(o, x, q), ~Ends(x), ~Arrives(x)
  PROVE  Owes(o, Onward(x), q)
<1>1. CASE x.fn = "up"
  BY <1>1, OwesUp
<1>2. CASE x.fn = "down"
  BY <1>2, OwesDown
<1>3. CASE x.fn = "step" /\ x.d = 0
  BY <1>3, OwesStay
<1>4. CASE x.fn = "step" /\ x.d = 1
  <2>1. CASE Ahead(x) = {}
    BY <1>4, <2>1, OwesLast
  <2>2. CASE Ahead(x) # {}
    <3>1. PICK n : n \in Ahead(x)
      BY <2>2
    <3>2. /\ n = Siblings(x.tree)[Place(x.tree) + x.d] /\ n \in Nodes /\ (n \in Entries \/ IsList(n))
          /\ \E r \in Seq(Nodes) : Due(o, n, x.loop, x.stack, r) /\ q = Join(o.all[n], r)
      BY <1>4, <3>1, OwesNext
    <3>3. n \notin Entries /\ kids[n] # <<>>
      BY <1>4, <3>1, <3>2 DEF Arrives, Entries, IsList
    <3>4. Over(x) = 1
      BY <1>4, NextAhead
    <3>5. Onward(x) = At("down", 1, n, x.loop, x.stack)
      BY <1>4, <2>2, <3>2, <3>3, <3>4 DEF Onward, Passed
    <3> QED BY <3>2, <3>3, <3>5, AtIs DEF Owes
  <2> QED BY <2>1, <2>2
<1> QED BY <1>1, <1>2, <1>3, <1>4 DEF Owing, Owes

\* An activation that comes to an entry owes the entry and what comes after it.
LEMMA OwesEntry ==
  ASSUME NEW o, NEW x, NEW q, Owing(o, x, q), x.fn = "step", NEW n \in Ahead(x), Files[n] > 0
  PROVE  \E r \in Seq(Nodes) : q = Join(<<n>>, r) /\ Owes(o, At("step", 1, n, x.loop, x.stack), r)
<1>1. n \in Nodes /\ \E r \in Seq(Nodes) : Due(o, n, x.loop, x.stack, r) /\ q = Join(o.all[n], r)
  <2>1. CASE x.d = 0
    <3>1. n = x.tree /\ n \in Nodes
      BY <2>1, StayAhead
    <3>2. PICK r : Due(o, n, x.loop, x.stack, r) /\ q = Join(o.all[n], r)
      BY <2>1, <3>1 DEF Owing, Owes
    <3> DEFINE s == x.stack
    <3>3. Due(o, n, x.loop, s, r) /\ s \in Seq(Range(s))
      BY <3>2 DEF Owing
    <3>4. r \in Seq(Nodes)
      <4> HIDE DEF s
      <4> QED BY <3>3, DueIs
    <3> QED BY <3>1, <3>2, <3>4
  <2>2. CASE x.d = 1
    BY <2>2, OwesNext
  <2> QED BY <2>1, <2>2 DEF Owing, Owes
<1>2. n \in Entries
  BY <1>1 DEF Entries
<1>3. o.all[n] = <<n>>
  BY <1>1, <1>2 DEF Owing, Ordering, Ordered
<1>4. PICK r \in Seq(Nodes) : Due(o, n, x.loop, x.stack, r) /\ q = Join(o.all[n], r)
  BY <1>1
<1>5. Owes(o, At("step", 1, n, x.loop, x.stack), r)
  BY <1>4, AtIs DEF Owes
<1> QED BY <1>3, <1>4, <1>5

\* An activation that ends owes nothing more.
LEMMA OwesEnd ==
  ASSUME NEW o, NEW x, NEW q, Owing(o, x, q), Ends(x)
  PROVE  q = <<>>
<1> DEFINE c == x.tree
           l == x.loop
           s == x.stack
<1>0. s \in Seq(Range(s)) /\ Ordering(o)
  BY DEF Owing
<1>1. ASSUME NEW r, Due(o, Root, l, s, r) PROVE r = <<>>
  <2> HIDE DEF l, s
  <2> QED BY <1>0, <1>1, SpotPlace
<1>2. CASE x.fn = "up"
  <2>1. c = Root /\ Due(o, c, l, s, q)
    BY <1>2 DEF Ends, Owing, Owes
  <2> HIDE DEF c, l, s
  <2> QED BY <1>1, <2>1
<1>3. CASE x.fn = "step" /\ x.d = 0
  <2>1. Ahead(x) = {c} /\ c \in Nodes /\ ~Shuffled(c)
    BY <1>3, StayAhead
  <2>2. ~IsList(c) /\ Files[c] = 0
    BY <1>3, <2>1 DEF Ends
  <2>3. PICK r : Due(o, c, l, s, r) /\ q = Join(o.all[c], r)
    BY <1>3 DEF Owing, Owes
  <2>4. /\ kids[c] # <<>> <=> IsList(c)
        /\ \A p \in Nodes : c \in Set(kids[p]) => c \in Entries \/ IsList(c)
        /\ c \in Entries <=> Files[c] > 0
    <3> HIDE DEF c
    <3> QED BY <2>1, ListOrEntry DEF Owing
  <2>5. kids[c] = <<>> /\ ~ \E p \in Nodes : c \in Set(kids[p])
    BY <2>2, <2>4
  <2>6. c = Root
    <3> HIDE DEF c, l, s
    <3> QED BY <1>0, <2>3, <2>5, SpotPlace
  <2>7. r = <<>>
    <3> HIDE DEF c, l, s
    <3> QED BY <1>1, <2>3, <2>6
  <2>8. o.all[c] = <<>>
    <3> HIDE DEF c
    <3> QED BY <1>0, <2>5, <2>6, EmptyAll
  <2> QED BY <2>3, <2>7, <2>8 DEF Join
<1>4. CASE x.fn = "step" /\ x.d = 1
  <2>1. Over(x) = 1 /\ ~Shuffled(c)
    BY <1>4, NextAhead
  <2> QED BY <1>4, <2>1 DEF Ends
<1>5. CASE x.fn = "down"
  BY <1>5 DEF Ends
<1> QED BY <1>2, <1>3, <1>4, <1>5 DEF Owing, Owes

\* What is owed depends on the tree.
SameTrees == UNCHANGED <<kids, rnd, loop>>
LEMMA SameOwes ==
  ASSUME SameTrees
  PROVE  \A o : /\ Ordering(o)' <=> Ordering(o)
                /\ \A x, q : Owes(o, x, q)' <=> Owes(o, x, q)
<1> USE DEF SameTrees
<1>1. \A n : Parent(n)' = Parent(n)
  BY DEF Parent
<1>2. \A n : Siblings(n)' = Siblings(n)
  BY <1>1 DEF Siblings
<1>3. \A n : Place(n)' = Place(n)
  BY <1>2 DEF Place
<1>4. \A p, l : Pass(p, l)' = Pass(p, l) /\ (Fits(p, l)' <=> Fits(p, l)) /\ Rounds(p)' = Rounds(p)
  BY DEF Pass, Fits, Rounds
<1>5. \A o, p, c, l : After(o, p, c, l)' = After(o, p, c, l)
  BY <1>3, <1>4 DEF After
<1>6. \A o, c, l, s, q : Due(o, c, l, s, q)' <=> Due(o, c, l, s, q)
  <2> SUFFICES ASSUME NEW o, NEW c, NEW l, NEW s, NEW q
               PROVE  Due(o, c, l, s, q)' <=> Due(o, c, l, s, q)
    OBVIOUS
  <2>1. \A w : Way(kids, Len(s), c, w)' <=> Way(kids, Len(s), c, w)
    OBVIOUS
  <2> QED BY <1>4, <1>5, <2>1 DEF Due
<1>7. \A o : Ordered(o)' <=> Ordered(o)
  BY <1>4 DEF Ordered
<1>8. \A o : Ordering(o)' <=> Ordering(o)
  BY <1>7 DEF Ordering
<1>9. \A o, x, q : Owes(o, x, q)' <=> Owes(o, x, q)
  BY <1>1, <1>3, <1>4, <1>6 DEF Owes
<1> QED BY <1>8, <1>9

\* As long as no command comes the player only opens, plays and steps on.
Openings == {"started", "stepped", "again"}
Playing  == {"open", "play", "file", "next"}
Steered ==
  /\ pc \in {"call", "idle", "crash"} \union Openings \union Playing
  /\ play_tree_step = 1
  /\ pc = "call" => Real /\ ~call.nodes /\ call.then \in Openings
  /\ pc = "next" => eof \in {0, 1}
  /\ pc \in {"file", "again"} => eof = 1
  /\ pc = "call" /\ call.then = "again" => eof = 1
Listed ==
  /\ Filled(kids) /\ loop \in [Nodes -> Nat] /\ DOMAIN played = Nodes
  /\ \A n \in Nodes : rnd[n] => n = Root /\ loop[n] = 0

\* What has been played and what is owed make the order that is asked for.
OwesNow(o, q)  == \A x : x = Spot(call.fn, call.d, iter) => Owes(o, x, q)
OwesThen(o, q) == \A x : x = Spot("step", 1, iter) => Owes(o, x, q)
Owed(o, q) ==
  /\ pc = "call" => IF iter.tree = NoNode THEN q = o.all[Root] ELSE OwesNow(o, q)
  /\ pc \in Openings => IF res = "entry" THEN OwesThen(o, q) ELSE q = <<>>
  /\ pc \in Playing => OwesThen(o, q)
  /\ pc = "idle" => q = <<>>
Followed(o, q) ==
  /\ Ordering(o) /\ asked = {o.all[Root]}
  /\ hist \in Seq(Nodes) /\ q \in Seq(Nodes) /\ Join(hist, q) = o.all[Root]
  /\ Owed(o, q)

\* The spot of the player's iterator.
LEMMA HereIs ==
  ASSUME WellGrown, LevelsInv, TreeInv, Steered, Listed, pc = "call", iter.tree # NoNode
  PROVE  LET x == Spot(call.fn, call.d, iter)
         IN Here(x) /\ Real /\ It = iter /\ StandsIn(kids, iter) /\ x.stack \in Seq(Range(x.stack))
            /\ Rank \in [Nodes -> 0 .. MaxDepth] /\ iter.tree \in Nodes
<1>1. Real /\ ~call.nodes /\ It = iter
  BY DEF Steered, It
<1>2. StandsIn(kids, iter) /\ (call.fn = "down" => kids[iter.tree] # <<>>)
  BY <1>1 DEF TreeInv, Stands, Live, Calls, Calling
<1>3. Rank \in [Nodes -> 0 .. MaxDepth] /\ kids \in [Nodes -> Seq(Nodes)] /\ Falling(Rank, kids)
  BY RankIs DEF TreeInv, Grows
<1>4. iter.tree \in InTree
  BY <1>2, <1>3, StackIs, FloorsInTree DEF StandsIn, InTree
<1>5. Walks(iter) /\ iter.stack \in Seq(Range(iter.stack))
  BY <1>4 DEF Walks, LevelsInv, IsIter
<1>6. \A n \in Nodes : rnd[n] => loop[Root] = 0
  BY DEF Listed
<1>7. iter.tree \in Nodes
  BY <1>4, InTreeIs
<1> QED BY <1>1, <1>2, <1>3, <1>5, <1>6, <1>7, SpotIs DEF Here, Listed

LEMMA StepKeeps ==
  ASSUME NEW x, Here(x), IterStep
  PROVE  SameTrees /\ UNCHANGED <<straight, asked, play_tree_step, eof>> /\ pc = "call"
<1>1. UNCHANGED <<straight, asked, play_tree_step, eof>> /\ pc = "call"
  BY DEF IterStep, StepEnter, StepRoundOver, StepAround, StepUp, StepList, StepInvalid, StepEntry,
         UpEnd, UpStep, DownStep, Outside, player, Stepping, Calling
<1>2. kids' = kids /\ rnd' = rnd /\ (loop' = loop \/ StepRoundOver)
  BY DEF IterStep, StepEnter, StepRoundOver, StepAround, StepUp, StepList, StepInvalid, StepEntry,
         UpEnd, UpStep, DownStep, Outside
<1>3. CASE StepRoundOver
  <2>1. It.tree # Root /\ rnd[Parent(It.tree)] /\ It.tree \in InTree
    BY <1>3, LeftSpot DEF StepRoundOver, Here, Shuffled, Walks
  <2>2. loop[Root] = 0
    BY <2>1, InTreeIs DEF Here
  <2> QED BY <1>1, <1>2, <1>3, <2>2 DEF StepRoundOver, SameTrees
<1> QED BY <1>1, <1>2, <1>3 DEF SameTrees

\* A step of the player's iterator comes to an entry, or adds nothing to what has been
\* played.
LEMMA StepBegins ==
  ASSUME NEW x, Here(x), Real, straight, IterStep, call.then \notin {"call", "crash"}
  PROVE  \/ /\ hist' = hist /\ (pc' = call.then => res' # "entry") /\ ~Return("entry")
            /\ \A n \in Nodes : played'[n] = played[n] \/ n = Parent(It.tree)
         \/ \E n \in Ahead(x) :
              /\ x.fn = "step" /\ Files[n] > 0 /\ Return("entry") /\ hist' = Append(hist, n)
              /\ played' = IF Shuffled(It.tree) THEN [played EXCEPT ![n] = TRUE] ELSE played
              /\ iter'.tree = n /\ iter'.loop = x.loop /\ iter'.stack = x.stack
<1>1. /\ x.fn = call.fn /\ x.tree = It.tree /\ x.loop = It.loop /\ x.d = call.d /\ x.stack = It.stack
      /\ WellGrown /\ TreeInv /\ Walks(It)
  BY SpotIs DEF Here
<1>2. /\ DOMAIN Left = DOMAIN NewIter /\ Left.tree = It.tree /\ Left.loop = It.loop /\ Left.stack = It.stack
      /\ (Left.rnd <=> Shuffled(It.tree))
  BY <1>1, LeftSpot
<1>3. ASSUME NEW n \in Nodes, StepEntry(n)
      PROVE  /\ x.fn = "step" /\ n \in Ahead(x) /\ Files[n] > 0 /\ Return("entry") /\ hist' = Append(hist, n)
             /\ played' = IF Shuffled(It.tree) THEN [played EXCEPT ![n] = TRUE] ELSE played
             /\ iter'.tree = n /\ iter'.loop = x.loop /\ iter'.stack = x.stack
  <2>1. n \in Choices(call.d) /\ x.fn = "step"
    BY <1>1, <1>3 DEF StepEntry, Stepping, Calling
  <2>2. n \in Ahead(x)
    BY <1>1, <2>1, AheadIs
  <2>3. iter' = AtEntry(n)
    BY <1>3 DEF StepEntry, SetIt
  <2>4. iter'.tree = n /\ iter'.loop = x.loop /\ iter'.stack = x.stack
    BY <1>1, <1>2, <2>3, Fields DEF AtEntry
  <2>5. Files[n] > 0 /\ Return("entry") /\ hist' = Append(hist, n)
    BY <1>3 DEF StepEntry
  <2>6. played' = IF Shuffled(It.tree) THEN [played EXCEPT ![n] = TRUE] ELSE played
    BY <1>2, <1>3 DEF StepEntry
  <2> QED BY <2>1, <2>2, <2>4, <2>5, <2>6
<1>4. CASE StepRoundOver
  <2>1. It.tree # Root /\ rnd[Parent(It.tree)] /\ It.tree \in InTree
    BY <1>1, <1>2, <1>4 DEF StepRoundOver, Shuffled, Walks
  <2>2. loop[Root] = 0
    BY <1>1, <2>1, InTreeIs DEF Here
  <2>3. Return("end") /\ played' = played /\ hist' = hist
    BY <1>4, <2>2 DEF StepRoundOver
  <2> QED BY <2>3 DEF Return
<1>5. CASE StepEnter \/ StepAround \/ StepUp \/ UpEnd \/ UpStep \/ DownStep
  <2>1. /\ hist' = hist /\ (Return("end") \/ \E fn, d : Again(fn, d))
        /\ \A n \in Nodes : played'[n] = played[n] \/ n = Parent(It.tree)
    <3>1. hist' = hist /\ (Return("end") \/ \E fn, d : Again(fn, d))
      BY <1>5 DEF StepEnter, StepAround, StepUp, UpEnd, UpStep, DownStep
    <3>2. played' = played \/ played' = [played EXCEPT ![Parent(It.tree)] = TRUE]
      BY <1>5 DEF StepEnter, StepAround, StepUp, UpEnd, UpStep, DownStep
    <3>3. DOMAIN played = Nodes
      BY DEF Here
    <3> QED BY <3>1, <3>2, <3>3
  <2>2. (\E fn, d : Again(fn, d)) => pc' = "call"
    <3>1. pc = "call"
      BY StepKeeps
    <3> QED BY <3>1 DEF Again
  <2> QED BY <2>1, <2>2 DEF Return
<1>6. ASSUME NEW n \in Nodes, StepList(n) \/ StepInvalid(n)
      PROVE  hist' = hist /\ (pc' = call.then => res' # "entry") /\ ~Return("entry") /\ played' = played
  <2>1. hist' = hist /\ played' = played
    BY <1>6 DEF StepList, StepInvalid
  <2>2. Return("node") \/ Return("error") \/ pc' = "crash" \/ \E fn, d : Again(fn, d)
    BY <1>6 DEF StepList, StepInvalid
  <2>3. (\E fn, d : Again(fn, d)) => pc' = "call"
    <3>1. pc = "call"
      BY StepKeeps
    <3> QED BY <3>1 DEF Again
  <2> QED BY <2>1, <2>2, <2>3 DEF Return
<1> QED BY <1>3, <1>4, <1>5, <1>6 DEF IterStep

\* Where a call leaves the player.
LEMMA AgainIs ==
  ASSUME TreeInv, NEW fn, NEW d, Again(fn, d)
  PROVE  /\ call'.fn = fn /\ call'.d = d /\ call'.nodes = call.nodes /\ call'.who = call.who
         /\ call'.then = call.then /\ pc' = pc /\ res' = res
  BY CallFields DEF Again, TreeInv, Calls

LEMMA EnterIs ==
  ASSUME WellGrown, LevelsInv, TreeInv, Steered, Listed, IterStep, iter.tree = NoNode
  PROVE  /\ SameTrees /\ UNCHANGED <<straight, asked, play_tree_step, eof, hist, played>>
         /\ pc' = "call" /\ call'.fn = "step" /\ call'.d = 0 /\ call'.nodes = call.nodes /\ call'.who = call.who
         /\ call'.then = call.then
         /\ iter'.tree = Root /\ iter'.stack = <<>> /\ DOMAIN iter' = DOMAIN iter
<1>1. pc = "call"
  BY DEF IterStep, StepEnter, StepRoundOver, StepAround, StepUp, StepList, StepInvalid, StepEntry,
         UpEnd, UpStep, DownStep, Stepping, Calling
<1>2. Real /\ It = iter
  BY <1>1 DEF Steered, It
<1>3. iter.stack = <<>> /\ call = Called("step", 0, FALSE, "real", "started")
  <2>1. ~StandsIn(kids, iter)
    BY <1>2, StackIs, NotNode DEF StandsIn
  <2> QED BY <1>1, <2>1 DEF TreeInv, Stands, Live
<1>4. call.fn = "step"
  BY <1>3 DEF Called
<1>5. StepEnter
  BY <1>2, <1>4 DEF IterStep, StepRoundOver, StepAround, StepUp, StepList, StepInvalid, StepEntry,
         UpEnd, UpStep, DownStep, Stepping, Calling
<1>6. /\ SameTrees /\ UNCHANGED <<straight, asked, play_tree_step, eof, hist, played>>
      /\ Again("step", 0) /\ iter' = [iter EXCEPT !.tree = Root]
  BY <1>2, <1>5 DEF StepEnter, Outside, player, SameTrees, SetIt
<1>7. iter'.tree = Root /\ iter'.stack = <<>> /\ DOMAIN iter' = DOMAIN iter
  BY <1>3, <1>6, Fields DEF LevelsInv, IsIter
<1> QED BY <1>1, <1>6, <1>7, AgainIs

\* A step keeps to the list.
LEMMA SteeredIter ==
  ASSUME WellGrown, LevelsInv, TreeInv, Steered, Listed, IterStep
  PROVE  Steered' /\ Listed' /\ SameTrees /\ UNCHANGED <<straight, asked>>
<1>1. CASE iter.tree = NoNode
  <2>1. /\ SameTrees /\ UNCHANGED <<straight, asked, play_tree_step, eof, hist, played>>
        /\ pc' = "call" /\ call'.nodes = call.nodes /\ call'.who = call.who /\ call'.then = call.then
    BY <1>1, EnterIs
  <2>2. pc = "call"
    BY DEF IterStep, StepEnter, StepRoundOver, StepAround, StepUp, StepList, StepInvalid, StepEntry,
         UpEnd, UpStep, DownStep, Stepping, Calling
  <2> QED BY <2>1, <2>2 DEF Steered, Listed, SameTrees, Real
<1>2. CASE iter.tree # NoNode
  <2> DEFINE x == Spot(call.fn, call.d, iter)
  <2>1. pc = "call"
    BY DEF IterStep, StepEnter, StepRoundOver, StepAround, StepUp, StepList, StepInvalid, StepEntry,
         UpEnd, UpStep, DownStep, Stepping, Calling
  <2>2. Here(x) /\ Real
    BY <1>2, <2>1, HereIs
  <2> HIDE DEF x
  <2>3. SameTrees /\ UNCHANGED <<straight, asked, play_tree_step, eof>> /\ Outcome(x)
    BY <2>2, StepKeeps, StepOutcome
  <2>4. DOMAIN played' = Nodes
    <3>1. Steady
      BY DEF Listed, Steady
    <3> QED BY <3>1, IterSteady DEF Steady
  <2>5. Listed'
    BY <2>3, <2>4 DEF Listed, SameTrees
  <2>6. play_tree_step = 1 /\ ~call.nodes /\ call.then \in Openings /\ call.who = "real"
    BY <2>1, <2>2 DEF Steered, Real
  <2>7. ASSUME NEW r, Return(r) PROVE Steered'
    BY <2>1, <2>3, <2>6, <2>7 DEF Return, Steered, Openings
  <2>8. ASSUME NEW fn, NEW d, Again(fn, d) PROVE Steered'
    BY <2>1, <2>3, <2>6, <2>8, AgainIs DEF Steered, Real
  <2>9. ASSUME pc' = "crash" PROVE Steered'
    BY <2>3, <2>6, <2>9 DEF Steered
  <2> QED BY <2>3, <2>5, <2>7, <2>8, <2>9 DEF Outcome
<1> QED BY <1>1, <1>2

\* In an unshuffled list a step takes from what is owed what it adds to what was played.
LEMMA FollowedIter ==
  ASSUME WellGrown, LevelsInv, TreeInv, Steered, Listed, straight, IterStep, NEW o, NEW q, Followed(o, q)
  PROVE  \E r : Followed(o, r)'
<1>0. pc = "call"
  BY DEF IterStep, StepEnter, StepRoundOver, StepAround, StepUp, StepList, StepInvalid, StepEntry,
         UpEnd, UpStep, DownStep, Stepping, Calling
<1>1. SameTrees /\ asked' = asked
  BY SteeredIter
<1>2. Ordering(o)' /\ \A x, r : Owes(o, x, r)' <=> Owes(o, x, r)
  BY <1>1, SameOwes DEF Followed
<1>3. asked' = {o.all[Root]} /\ hist \in Seq(Nodes) /\ q \in Seq(Nodes) /\ Join(hist, q) = o.all[Root]
  BY <1>1 DEF Followed
<1>4. CASE iter.tree = NoNode
  <2>1. /\ hist' = hist /\ pc' = "call" /\ call'.fn = "step" /\ call'.d = 0
        /\ iter'.tree = Root /\ iter'.stack = <<>>
    BY <1>4, EnterIs
  <2> DEFINE y == Spot(call'.fn, call'.d, iter')
  <2>2. q = o.all[Root]
    BY <1>0, <1>4 DEF Followed, Owed
  <2>3. y.fn = "step" /\ y.d = 0 /\ y.tree = Root /\ y.stack = <<>>
    BY <2>1, SpotIs
  <2> HIDE DEF y
  <2>4. Due(o, y.tree, y.loop, y.stack, <<>>)
    BY <2>3, DueRoot
  <2>5. q = Join(o.all[y.tree], <<>>)
    BY <1>3, <2>2, <2>3, ConcatEmptySeq DEF Join
  <2>6. Owes(o, y, q)
    BY <2>3, <2>4, <2>5 DEF Owes
  <2>7. OwesNow(o, q)'
    <3>1. SUFFICES ASSUME NEW z, z = Spot(call'.fn, call'.d, iter') PROVE Owes(o, z, q)'
      BY DEF OwesNow, Spot
    <3>2. Owes(o, z, q)
      BY <2>6, <3>1 DEF y
    <3> QED BY <1>2, <3>2
  <2>8. iter'.tree # NoNode
    BY <2>1, TreeAssumption
  <2>9. Owed(o, q)'
    BY <2>1, <2>7, <2>8 DEF Owed, Openings, Playing
  <2> QED BY <1>2, <1>3, <2>1, <2>9 DEF Followed
<1>5. CASE iter.tree # NoNode
  <2> DEFINE x == Spot(call.fn, call.d, iter)
  <2>1. /\ Here(x) /\ Real /\ x.stack \in Seq(Range(x.stack)) /\ Rank \in [Nodes -> 0 .. MaxDepth]
        /\ It = iter
    BY <1>0, <1>5, HereIs
  <2>2. Owes(o, x, q)
    BY <1>0, <1>5 DEF Followed, Owed, OwesNow
  <2> HIDE DEF x
  <2>3. Owing(o, x, q)
    BY <2>1, <2>2 DEF Owing, Followed
  <2>4. call.then \in Openings
    BY <1>0 DEF Steered
  <2>5. Outcome(x)
    BY <2>1, StepOutcome
  <2>6. CASE \E n \in Ahead(x) :
               /\ x.fn = "step" /\ Files[n] > 0 /\ Return("entry") /\ hist' = Append(hist, n)
               /\ iter'.tree = n /\ iter'.loop = x.loop /\ iter'.stack = x.stack
    <3>1. PICK n \in Ahead(x) :
               /\ x.fn = "step" /\ Files[n] > 0 /\ Return("entry") /\ hist' = Append(hist, n)
               /\ iter'.tree = n /\ iter'.loop = x.loop /\ iter'.stack = x.stack
      BY <2>6
    <3>2. PICK r \in Seq(Nodes) : q = Join(<<n>>, r) /\ Owes(o, At("step", 1, n, x.loop, x.stack), r)
      BY <2>3, <3>1, OwesEntry
    <3>3. n \in Nodes
      BY <2>1, SpotIs, AheadIs DEF Here
    <3>4. hist' \in Seq(Nodes) /\ hist' = Join(hist, <<n>>)
      <4>1. Append(hist, n) = Join(hist, <<n>>)
        BY <1>3, <3>3, AppendIsConcat DEF Join
      <4>2. Append(hist, n) \in Seq(Nodes)
        BY <1>3, <3>3, AppendProperties
      <4> QED BY <3>1, <4>1, <4>2
    <3>5. Join(hist', r) = o.all[Root]
      <4> DEFINE u == <<n>>
      <4>1. u \in Seq(Nodes) /\ q = Join(u, r) /\ hist' = Join(hist, u)
        BY <3>2, <3>3, <3>4
      <4> HIDE DEF u
      <4>2. Join(Join(hist, u), r) = Join(hist, Join(u, r))
        BY <1>3, <4>1, JoinIs
      <4> QED BY <1>3, <4>1, <4>2
    <3>6. Spot("step", 1, iter') = At("step", 1, n, x.loop, x.stack)
      BY <3>1 DEF Spot
    <3>7. pc' \in Openings /\ res' = "entry"
      BY <2>4, <3>1 DEF Return
    <3>8. OwesThen(o, r)'
      <4>1. SUFFICES ASSUME NEW z, z = Spot("step", 1, iter') PROVE Owes(o, z, r)'
        BY DEF OwesThen, Spot
      <4>2. Owes(o, z, r)
        BY <3>2, <3>6, <4>1
      <4> QED BY <1>2, <4>2
    <3>9. Owed(o, r)'
      BY <3>7, <3>8 DEF Owed, Openings, Playing
    <3> QED BY <1>2, <1>3, <3>2, <3>4, <3>5, <3>9 DEF Followed
  <2>7. CASE hist' = hist /\ (pc' = call.then => res' # "entry") /\ ~Return("entry")
    <3>1. CASE Ends(x) /\ \E r : Return(r) /\ r # "entry"
      <4>1. pc' \in Openings /\ res' # "entry"
        BY <2>4, <3>1 DEF Return
      <4>2. q = <<>>
        BY <2>3, <3>1, OwesEnd
      <4>3. Owed(o, q)'
        BY <4>1, <4>2 DEF Owed, Openings, Playing
      <4> QED BY <1>2, <1>3, <2>7, <4>3 DEF Followed
    <3>2. CASE pc' = "crash"
      <4>1. Owed(o, q)'
        BY <3>2 DEF Owed, Openings, Playing
      <4> QED BY <1>2, <1>3, <2>7, <4>1 DEF Followed
    <3>3. CASE /\ ~Ends(x) /\ ~Arrives(x)
               /\ \E fn, d, i :
                    /\ Again(fn, d) /\ SetIt(i) /\ Walks(i) /\ Spot(fn, d, i) = Onward(x)
      <4>1. PICK fn, d, i : Again(fn, d) /\ SetIt(i) /\ Walks(i) /\ Spot(fn, d, i) = Onward(x)
        BY <3>3
      <4>2. pc' = "call" /\ call'.fn = fn /\ call'.d = d /\ iter' = i
        BY <1>0, <2>1, <4>1, AgainIs DEF SetIt
      <4>3. Owes(o, Onward(x), q)
        BY <2>3, <3>3, OwesOnward
      <4>4. OwesNow(o, q)'
        <5>1. SUFFICES ASSUME NEW z, z = Spot(call'.fn, call'.d, iter') PROVE Owes(o, z, q)'
          BY DEF OwesNow, Spot
        <5>2. Owes(o, z, q)
          BY <4>1, <4>2, <4>3, <5>1
        <5> QED BY <1>2, <5>2
      <4>5. iter'.tree # NoNode
        BY <2>1, <4>1, <4>2, InTreeIs, TreeAssumption DEF Walks, Here
      <4>6. Owed(o, q)'
        BY <4>2, <4>4, <4>5 DEF Owed, Openings, Playing
      <4> QED BY <1>2, <1>3, <2>7, <4>6 DEF Followed
    <3> QED BY <2>5, <2>7, <3>1, <3>2, <3>3 DEF Outcome
  <2>8. call.then \notin {"call", "crash"}
    BY <2>4 DEF Openings
  <2> QED BY <2>1, <2>6, <2>7, <2>8, StepBegins
<1> QED BY <1>4, <1>5

\* What the player does between its steps as long as no command comes: it ends,
\* goes on with the entry it has come to, or steps to the next one.
SameSpot == iter'.tree = iter.tree /\ iter'.loop = iter.loop /\ iter'.stack = iter.stack
Between ==
  \/ pc \in Openings /\ res # "entry" /\ pc' = "idle"
  \/ pc \in Openings /\ res = "entry" /\ pc' \in Playing /\ SameSpot
  \/ pc \in Playing /\ pc' \in Playing /\ SameSpot
  \/ pc \in Playing /\ pc' = "call" /\ call' = Called("step", 1, FALSE, "real", call'.then)
     /\ call'.then \in Openings /\ iter' = iter

LEMMA GoesOn ==
  ASSUME LevelsInv, TreeInv, Steered, Going \/ FileEnds \/ Told, straight'
  PROVE  /\ SameTrees /\ UNCHANGED <<straight, asked, hist, played, play_tree_step>>
         /\ Between /\ (pc' = "next" => eof' \in {0, 1}) /\ (pc' = "file" => eof' = 1)
         /\ (pc' = "call" /\ call'.then = "again" => eof' = 1) /\ pc' # "again"
<1> USE DEF Openings, Playing
<1>1. DOMAIN iter = DOMAIN NewIter
  BY DEF LevelsInv, IsIter
<1>2. ASSUME NEW f, iter' = [iter EXCEPT !.file = f] PROVE SameSpot
  BY <1>1, <1>2, Fields DEF SameSpot
<1>3. ASSUME iter' = iter PROVE SameSpot
  BY <1>3 DEF SameSpot
<1>4. CASE Started
  BY <1>2, <1>4 DEF Started, Freed, Went, told, plays, tree, SameTrees, Between
<1>5. CASE OpenFails
  BY <1>3, <1>5 DEF OpenFails, Leave, Went, Sent, plays, tree, SameTrees, Between, PT_NEXT_ENTRY
<1>6. CASE Opens
  BY <1>3, <1>6 DEF Opens, Leave, Went, told, plays, tree, SameTrees, Between, Steered
<1>7. CASE OpenList
  BY <1>7 DEF OpenList
<1>8. CASE ListRead \/ Tried \/ Rewound \/ Headed \/ Stopping
  BY <1>8 DEF Steered, ListRead, Tried, Rewound, Headed, Stopping
<1>9. CASE NextFile
  <2>1. /\ pc = "next" /\ eof \in {0, 1} /\ play_tree_step = 1
        /\ SameTrees /\ UNCHANGED <<straight, asked, hist, played, play_tree_step>>
    BY <1>9 DEF NextFile, Steered, told, plays, tree, SameTrees
  <2>2. CASE eof = 1
    <3>1. Call("step", 1, FALSE, "real", "stepped") /\ iter' = iter
      <4>1. eof \in {PT_NEXT_ENTRY, PT_PREV_ENTRY}
        BY <2>2 DEF PT_NEXT_ENTRY
      <4>2. eof \notin {PT_UP_NEXT, PT_UP_PREV} /\ eof # PT_STOP
        BY <2>2 DEF PT_UP_NEXT, PT_UP_PREV, PT_STOP
      <4>3. Call("step", play_tree_step, FALSE, "real", "stepped") /\ iter' = iter
        BY <1>9, <4>1, <4>2 DEF NextFile
      <4> QED BY <2>1, <4>3
    <3>2. call' = Called("step", 1, FALSE, "real", "stepped") /\ pc' = "call"
      BY <3>1 DEF Call
    <3>3. call'.then = "stepped"
      BY <3>2 DEF Called
    <3> QED BY <2>1, <3>1, <3>2, <3>3 DEF Between
  <2>3. CASE eof = 0
    <3>1. eof' = 1 /\ pc' = "file" /\ iter' = iter
      BY <1>9, <2>3
         DEF NextFile, PT_NEXT_ENTRY, PT_PREV_ENTRY, PT_UP_NEXT, PT_UP_PREV, PT_STOP, PT_PREV_SRC
    <3> QED BY <1>3, <2>1, <3>1 DEF Between
  <2> QED BY <2>1, <2>2, <2>3
<1>10. CASE Stepped
  <2>1. pc = "stepped"
    BY <1>10 DEF Stepped, Steered
  <2>2. /\ SameTrees /\ UNCHANGED <<straight, asked, hist, played>> /\ play_tree_step' = play_tree_step
    BY <1>10, <2>1 DEF Stepped, Steered, plays, tree, SameTrees
  <2> QED BY <1>3, <1>10, <2>1, <2>2 DEF Stepped, Freed, Between
<1>11. CASE GetFile
  <2>1. /\ pc = "file" /\ eof = 1
        /\ SameTrees /\ UNCHANGED <<straight, asked, hist, played, play_tree_step>>
    BY <1>11 DEF GetFile, Steered, told, plays, tree, SameTrees
  <2>2. CASE Sources(iter, eof) # {}
    BY <1>2, <1>11, <2>1, <2>2 DEF GetFile, Between
  <2>3. CASE Sources(iter, eof) = {}
    <3>1. Call("step", 1, FALSE, "real", "again") /\ iter' = iter /\ eof' = eof
      BY <1>11, <2>1, <2>3 DEF GetFile
    <3>2. call' = Called("step", 1, FALSE, "real", "again") /\ pc' = "call"
      BY <3>1 DEF Call
    <3>3. call'.then = "again"
      BY <3>2 DEF Called
    <3> QED BY <2>1, <3>1, <3>2, <3>3 DEF Between
  <2> QED BY <2>2, <2>3
<1>12. CASE NextAgain
  BY <1>3, <1>12 DEF NextAgain, Freed, Went, Steered, told, plays, tree, SameTrees, Between
<1>13. CASE FileEnds
  BY <1>3, <1>13 DEF FileEnds, Leave, Went, told, plays, tree, SameTrees, Between, PT_NEXT_ENTRY
<1>14. CASE Told
  BY <1>14 DEF Told, IdleLoad, IdleSet, Obey, PtStep, PtUpStep, AltSrcStep, LoadAppend, Load, Stop,
               SetOption, Sent
<1> QED BY <1>4, <1>5, <1>6, <1>7, <1>8, <1>9, <1>10, <1>11, <1>12, <1>13, <1>14 DEF Going

LEMMA SteeredOn ==
  ASSUME LevelsInv, TreeInv, Steered, Listed, Going \/ FileEnds \/ Told, straight'
  PROVE  Steered' /\ Listed'
<1>1. /\ SameTrees /\ UNCHANGED <<straight, asked, hist, played, play_tree_step>>
      /\ Between /\ (pc' = "next" => eof' \in {0, 1}) /\ (pc' = "file" => eof' = 1)
      /\ (pc' = "call" /\ call'.then = "again" => eof' = 1) /\ pc' # "again"
  BY GoesOn
<1>2. Listed'
  BY <1>1 DEF Listed, SameTrees
<1>3. pc' = "call" => call'.who = "real" /\ ~call'.nodes /\ call'.then \in Openings
  BY <1>1 DEF Between, Openings, Playing, Called
<1>4. Steered'
  BY <1>1, <1>3 DEF Steered, Between, Real
<1> QED BY <1>2, <1>4

LEMMA FollowedOn ==
  ASSUME LevelsInv, TreeInv, Steered, Listed, Going \/ FileEnds \/ Told, straight', NEW o, NEW q, Followed(o, q)
  PROVE  Followed(o, q)'
<1>1. SameTrees /\ UNCHANGED <<asked, hist>> /\ Between
  BY GoesOn
<1>2. Ordering(o)' /\ \A x, r : Owes(o, x, r)' <=> Owes(o, x, r)
  BY <1>1, SameOwes DEF Followed
<1>3. ASSUME SameSpot, OwesThen(o, q) PROVE OwesThen(o, q)'
  <2>1. SUFFICES ASSUME NEW z, z = Spot("step", 1, iter') PROVE Owes(o, z, q)'
    BY DEF OwesThen, Spot
  <2>2. z = Spot("step", 1, iter)
    BY <1>3, <2>1 DEF SameSpot, Spot
  <2>3. Owes(o, z, q)
    BY <1>3, <2>2 DEF OwesThen
  <2> QED BY <1>2, <2>3
<1>4. CASE pc \in Openings /\ res # "entry" /\ pc' = "idle"
  <2>1. Owed(o, q)'
    BY <1>4 DEF Followed, Owed, Openings, Playing
  <2> QED BY <1>1, <1>2, <2>1 DEF Followed
<1>5. CASE pc \in Openings /\ res = "entry" /\ pc' \in Playing /\ SameSpot
  <2>1. OwesThen(o, q)
    BY <1>5 DEF Followed, Owed
  <2>2. Owed(o, q)'
    BY <1>3, <1>5, <2>1 DEF Owed, Openings, Playing
  <2> QED BY <1>1, <1>2, <2>2 DEF Followed
<1>6. CASE pc \in Playing /\ pc' \in Playing /\ SameSpot
  <2>1. OwesThen(o, q)
    BY <1>6 DEF Followed, Owed
  <2>2. Owed(o, q)'
    BY <1>3, <1>6, <2>1 DEF Owed, Openings, Playing
  <2> QED BY <1>1, <1>2, <2>2 DEF Followed
<1>7. CASE pc \in Playing /\ pc' = "call" /\ call' = Called("step", 1, FALSE, "real", call'.then) /\ iter' = iter
  <2>1. OwesThen(o, q)
    BY <1>7 DEF Followed, Owed
  <2>2. call'.fn = "step" /\ call'.d = 1
    BY <1>7 DEF Called
  <2>3. OwesNow(o, q)'
    <3>1. SUFFICES ASSUME NEW z, z = Spot(call'.fn, call'.d, iter') PROVE Owes(o, z, q)'
      BY DEF OwesNow, Spot
    <3>2. Owes(o, z, q)
      BY <1>7, <2>1, <2>2, <3>1 DEF OwesThen
    <3> QED BY <1>2, <3>2
  <2>4. iter.tree # NoNode
    <3>1. StandsIn(kids, iter)
      BY <1>7 DEF TreeInv, Stands, Live, Playing
    <3> QED BY <3>1, StackIs, NotNode DEF StandsIn
  <2>5. Owed(o, q)'
    BY <1>7, <2>3, <2>4 DEF Owed, Openings, Playing
  <2> QED BY <1>1, <1>2, <2>5 DEF Followed
<1> QED BY <1>1, <1>4, <1>5, <1>6, <1>7 DEF Between

\* A sequence of different members of a list is at most as long as the list, and is as
\* long only when it has them all.
LEMMA NoLonger ==
  ASSUME NEW S, NEW k \in Seq(S), Distinct(k), Set(k) = S, NEW h \in Seq(S), Distinct(h)
  PROVE  Len(h) \in Nat /\ Len(k) \in Nat /\ Len(h) <= Len(k) /\ (Len(h) = Len(k) <=> Set(h) = S)
<1> DEFINE D == 1 .. Len(k)
           E == 1 .. Len(h)
<1>1. Len(k) \in Nat /\ DOMAIN k = D /\ k \in [D -> S] /\ Len(h) \in Nat /\ DOMAIN h = E /\ h \in [E -> S]
  BY LenProperties
<1>2. k \in Bijection(D, S)
  BY <1>1 DEF Distinct, Set, Bijection, Injection, Surjection, IsInjective
<1>3. h \in Injection(E, S)
  BY <1>1 DEF Distinct, Injection, IsInjective
<1>4. IsFiniteSet(S) /\ Cardinality(S) = Len(k)
  <2>1. ExistsBijection(D, S)
    BY <1>2 DEF ExistsBijection
  <2>2. IsFiniteSet(S)
    BY <1>1, <2>1, FS_NatBijection
  <2> QED BY <1>1, <2>1, <2>2, FS_CountingElements
<1>5. Cardinality(E) = Len(h)
  <2>1. \A n \in Nat : Cardinality(1 .. n) = n
    BY FS_Interval
  <2> HIDE DEF E
  <2> QED BY <1>1, <2>1 DEF E
<1>6. Cardinality(E) <= Cardinality(S) /\ (Cardinality(E) = Cardinality(S) <=> h \in Surjection(E, S))
  BY <1>3, <1>4, FS_Injection
<1>7. h \in Surjection(E, S) <=> Set(h) = S
  BY <1>1 DEF Surjection, Set
<1> QED BY <1>1, <1>4, <1>5, <1>6, <1>7

LEMMA DrawnOne ==
  ASSUME NEW S, NEW h \in Seq(S), Distinct(h), NEW x \in S, x \notin Set(h),
         NEW g, g = Append(h, x)
  PROVE  /\ g \in Seq(S) /\ Distinct(g) /\ (\A y : y \in Set(g) <=> y \in Set(h) \/ y = x)
         /\ Len(g) = Len(h) + 1 /\ \A i \in 1 .. Len(h) : g[i] = h[i]
<1> DEFINE n == Len(h)
<1>1. n \in Nat /\ DOMAIN h = 1 .. n
  BY LenProperties
<1>2. g \in Seq(S) /\ Len(g) = n + 1 /\ (\A i \in 1 .. n : g[i] = h[i]) /\ g[n + 1] = x
  BY AppendProperties
<1>3. DOMAIN g = 1 .. n + 1
  BY <1>2, LenProperties
<1> HIDE DEF n
<1>4. \A i \in DOMAIN g : (i \in DOMAIN h /\ g[i] = h[i]) \/ (i = n + 1 /\ g[i] = x)
  BY <1>1, <1>2, <1>3
<1>5. Distinct(g)
  <2> SUFFICES ASSUME NEW i \in DOMAIN g, NEW j \in DOMAIN g, g[i] = g[j] PROVE i = j
    BY DEF Distinct
  <2>1. \A m \in DOMAIN h : h[m] # x
    BY DEF Set
  <2> QED BY <1>4, <2>1 DEF Distinct
<1>6. \A y : y \in Set(g) <=> y \in Set(h) \/ y = x
  <2>1. \A m \in DOMAIN h : m \in DOMAIN g /\ g[m] = h[m]
    BY <1>1, <1>2, <1>3
  <2>2. n + 1 \in DOMAIN g
    BY <1>1, <1>3
  <2> QED BY <1>2, <1>4, <2>1, <2>2 DEF Set
<1>7. g \in Seq(S) /\ Len(g) = Len(h) + 1 /\ \A i \in 1 .. Len(h) : g[i] = h[i]
  BY <1>2 DEF n
<1> QED BY <1>5, <1>6, <1>7

\* What has been drawn from a list is the beginning of an order of all of it.
LEMMA DrawnGoesOn ==
  ASSUME NEW S, NEW k \in Seq(S), Distinct(k), Set(k) = S, NEW h \in Seq(S), Distinct(h)
  PROVE  \E p \in [DOMAIN k -> S] :
           Set(p) = S /\ Len(h) <= Len(p) /\ h = SubSeq(p, 1, Len(h))
<1> DEFINE n == Len(k)
           Goes(g) == g \in Seq(S) /\ Distinct(g) /\ Len(h) <= Len(g) /\ \A i \in 1 .. Len(h) : g[i] = h[i]
           Gaps == {m \in Nat : \E g : Goes(g) /\ m = n - Len(g)}
<1>1. \A g : Goes(g) => Len(g) \in Nat /\ n \in Nat /\ Len(h) \in Nat /\ Len(g) <= n /\ (Len(g) = n <=> Set(g) = S)
  BY NoLonger
<1>2. Goes(h)
  BY LenProperties
<1> HIDE DEF n, Goes
<1>3. n - Len(h) \in Gaps
  BY <1>1, <1>2
<1>4. PICK m \in Gaps : \A l \in Gaps : m <= l
  <2>1. Gaps \in SUBSET Nat /\ Gaps # {}
    BY <1>3
  <2> HIDE DEF Gaps
  <2> QED BY <2>1, LeastNatural
<1>5. PICK p : Goes(p) /\ m = n - Len(p)
  OBVIOUS
<1>6. Set(p) = S
  <2> SUFFICES ASSUME Set(p) # S PROVE FALSE
    OBVIOUS
  <2>1. p \in Seq(S) /\ Distinct(p) /\ Len(h) <= Len(p) /\ (\A i \in 1 .. Len(h) : p[i] = h[i]) /\ DOMAIN p = 1 .. Len(p)
    BY <1>5, LenProperties DEF Goes
  <2>2. Set(p) \subseteq S
    BY <2>1, ElementOfSeq DEF Set
  <2>3. PICK x \in S : x \notin Set(p)
    BY <2>2
  <2>0. PICK g : g = Append(p, x)
    OBVIOUS
  <2>4. /\ g \in Seq(S) /\ Distinct(g) /\ Len(g) = Len(p) + 1
        /\ \A i \in 1 .. Len(p) : g[i] = p[i]
    <3>1. p \in Seq(S) /\ Distinct(p)
      BY <2>1
    <3>2. Distinct(g)
      BY <2>0, <2>3, <3>1, DrawnOne, Zenon
    <3>3. g \in Seq(S) /\ Len(g) = Len(p) + 1 /\ \A i \in 1 .. Len(p) : g[i] = p[i]
      BY <2>0, <3>1, AppendProperties
    <3> QED BY <3>2, <3>3
  <2>5. Len(h) \in Nat /\ Len(p) \in Nat
    BY <1>1, <1>5
  <2>6. Goes(g)
    BY <2>1, <2>4, <2>5 DEF Goes
  <2>7. n - Len(g) \in Gaps
    BY <1>1, <2>6
  <2> QED BY <1>1, <1>4, <1>5, <2>4, <2>6, <2>7
<1>7. Len(p) = n /\ p \in [1 .. n -> S] /\ DOMAIN k = 1 .. n
  <2>1. Len(p) = n
    BY <1>1, <1>5, <1>6
  <2> QED BY <1>5, <2>1, LenProperties DEF Goes, n
<1>8. h = SubSeq(p, 1, Len(h))
  <2> DEFINE l == Len(h)
             s == SubSeq(p, 1, l)
  <2>1. l \in Nat /\ l <= Len(p) /\ Len(p) \in Nat /\ (\A i \in 1 .. l : p[i] = h[i]) /\ p \in Seq(S)
    BY <1>1, <1>5 DEF Goes
  <2>2. s \in Seq(S) /\ Len(s) = l /\ \A i \in 1 .. l : s[i] = p[i]
    <3> HIDE DEF l
    <3>1. \A i \in 1 .. l : i \in 1 .. Len(p)
      BY <2>1
    <3> QED BY <2>1, <3>1, SubSeqProperties, ElementOfSeq
  <2> HIDE DEF s
  <2>3. \A i \in 1 .. l : s[i] = h[i]
    BY <2>1, <2>2
  <2> QED BY <2>2, <2>3, SeqEqual DEF s
<1>9. Len(h) <= Len(p)
  BY <1>5 DEF Goes
<1> QED BY <1>6, <1>7, <1>8, <1>9

LEMMA JoinedOnes ==
  ASSUME NEW S, NEW p \in Seq(S), NEW n \in Nat, Len(p) = n
  PROVE  Joined([i \in 1 .. n |-> {<<p[i]>>}]) = {p}
<1>1. PICK v, r : v = [i \in 1 .. n |-> <<p[i]>>] /\ r = [k \in 0 .. n |-> SubSeq(p, k + 1, n)]
  OBVIOUS
<1>2. Remainders(r, n, v, S)
  BY <1>1, Ones
<1>3. v \in [1 .. n -> Seq(S)]
  <2>1. \A i \in 1 .. n : <<p[i]>> \in Seq(S)
    BY ElementOfSeq
  <2> QED BY <1>1, <2>1
<1>4. r[0] = p
  <2>1. r[0] = SubSeq(p, 1, n)
    BY <1>1
  <2> QED BY <2>1, SubSeqFull
<1>5. Joined([i \in 1 .. n |-> {v[i]}]) = {r[0]}
  BY <1>2, <1>3, JoinedIs
<1>6. [i \in 1 .. n |-> {v[i]}] = [i \in 1 .. n |-> {<<p[i]>>}]
  BY <1>1
<1> QED BY <1>4, <1>5, <1>6

\* What is joined once is what it is.
LEMMA JoinedOnce ==
  ASSUME NEW S, NEW A \in SUBSET Seq(S), NEW s \in A
  PROVE  s \in Joined([i \in 1 .. 1 |-> A])
<1> DEFINE parts == [i \in 1 .. 1 |-> A]
           Def(g) == [k \in 0 .. Len(parts) |->
                        IF k = 0 THEN {<<>>} ELSE Combined(g[k - 1], parts[k])]
           upto == CHOOSE g : g = Def(g)
           f == [k \in 0 .. 1 |-> IF k = 0 THEN {<<>>} ELSE Combined({<<>>}, A)]
<1>1. Len(parts) = 1 /\ parts[1] = A
  OBVIOUS
<1>2. Joined(parts) = upto[1]
  BY <1>1 DEF Joined, Combined
<1>3. f[0] = {<<>>} /\ f[1] = Combined({<<>>}, A)
  OBVIOUS
<1>4. f = Def(f)
  <2>1. \A k \in 0 .. 1 : f[k] = IF k = 0 THEN {<<>>} ELSE Combined(f[k - 1], parts[k])
    <3>1. \A k \in 0 .. 1 : k = 0 \/ k = 1
      OBVIOUS
    <3>2. f[1] = Combined(f[1 - 1], parts[1])
      BY <1>1, <1>3
    <3> HIDE DEF f, parts
    <3> QED BY <1>3, <3>1, <3>2
  <2>2. f = [k \in 0 .. 1 |-> f[k]]
    OBVIOUS
  <2> HIDE DEF f, parts
  <2> QED BY <1>1, <2>1, <2>2
<1> HIDE DEF Def
<1>5. upto = Def(upto)
  BY <1>4
<1> HIDE DEF upto, f
<1>6. upto[0] = {<<>>} /\ upto[1] = Combined(upto[0], A)
  <2>1. upto = [k \in 0 .. 1 |-> IF k = 0 THEN {<<>>} ELSE Combined(upto[k - 1], parts[k])]
    BY <1>1, <1>5 DEF Def
  <2> HIDE DEF parts
  <2>2. \A k \in 0 .. 1 : upto[k] = IF k = 0 THEN {<<>>} ELSE Combined(upto[k - 1], parts[k])
    BY <2>1, Zenon
  <2> QED BY <1>1, <2>1, <2>2
<1>7. <<>> \o s = s
  <2>1. s \in Seq(S)
    OBVIOUS
  <2> QED BY <2>1, ConcatEmptySeq
<1>8. s \in Combined({<<>>}, A)
  BY <1>7 DEF Combined
<1> QED BY <1>2, <1>6, <1>8

\* A shuffled list of entries asks for all the orders of them.
LEMMA ShuffledAsks ==
  ASSUME NEW t, t.kids = kids, t.rnd[Root], t.loop[Root] = 0,
         NEW rank \in [Nodes -> 0 .. MaxDepth], Grows(rank, kids),
         Set(kids[Root]) \subseteq Entries,
         NEW p \in [DOMAIN kids[Root] -> Set(kids[Root])], Set(p) = Set(kids[Root])
  PROVE  p \in Orders(t)
<1> DEFINE K == Set(kids[Root])
           n == Len(kids[Root])
<1>1. PICK of : Orders(t) = of[Root] /\ \A m \in Nodes : of[m] = OrderAt(t, m, of)
  BY OrdersAre
<1>2. Root \in Nodes /\ ~(Files[Root] > 0) /\ kids[Root] \in Seq(Nodes)
  BY TreeAssumption DEF Grows
<1>3. n \in Nat /\ DOMAIN kids[Root] = 1 .. n
  BY <1>2, LenProperties
<1>4. \A c \in K : c \in Nodes /\ of[c] = {<<c>>}
  BY <1>1 DEF OrderAt, Entries
<1>5. ASSUME NEW q \in Shufflings(t, Root) PROVE q \in Seq(K) /\ Joined(PartsAt(q, of)) = {q}
  <2>1. q \in [1 .. n -> K] /\ q \in Seq(K) /\ Len(q) = n /\ DOMAIN q = 1 .. n
    BY <1>3, <1>5 DEF Shufflings
  <2>2. PartsAt(q, of) = [i \in 1 .. n |-> {<<q[i]>>}]
    <3>1. \A i \in 1 .. n : of[q[i]] = {<<q[i]>>}
      BY <1>4, <2>1
    <3> HIDE DEF n
    <3> QED BY <2>1, <3>1 DEF PartsAt
  <2> HIDE DEF n, K
  <2>3. Joined([i \in 1 .. n |-> {<<q[i]>>}]) = {q}
    BY <1>3, <2>1, JoinedOnes
  <2> QED BY <2>1, <2>2, <2>3
<1>6. p \in Shufflings(t, Root)
  BY DEF Shufflings
<1> DEFINE once == OnceAt(t, Root, of)
<1>7. once \in SUBSET Seq(K) /\ p \in once
  BY <1>5, <1>6 DEF OnceAt
<1>8. of[Root] = Joined([i \in 1 .. 1 |-> once])
  <2>1. TimesAt(t, Root) = 1
    BY DEF TimesAt
  <2> QED BY <1>1, <1>2, <2>1 DEF OrderAt
<1> HIDE DEF once
<1>9. p \in Joined([i \in 1 .. 1 |-> once])
  BY <1>7, JoinedOnce, Zenon
<1> QED BY <1>1, <1>8, <1>9

\* A shuffled list: what has been played is what is marked as played, each entry once.
Drawing == Set(kids[Root])
AllOrders == \A p \in [DOMAIN kids[Root] -> Drawing] : Set(p) = Drawing => p \in asked
Marked == hist \in Seq(Drawing) /\ Distinct(hist) /\ \A n \in Drawing : played[n] <=> n \in Set(hist)
Entering ==
  \/ iter.tree = NoNode
  \/ iter.tree = Root /\ (call.fn = "down" \/ (call.fn = "step" /\ call.d = 0))
  \/ iter.tree \in Drawing /\ call.fn = "step"
Drawn ==
  /\ rnd[Root] /\ AllOrders /\ Marked
  /\ pc = "call" => Entering
  /\ (pc \in Openings /\ res = "entry") \/ pc \in Playing => iter.tree \in Drawing
  /\ (pc \in Openings /\ res # "entry") \/ pc = "idle" => Set(hist) = Drawing

LEMMA DrawingIs ==
  ASSUME TreeInv, Listed, rnd[Root]
  PROVE  /\ kids[Root] \in Seq(Nodes) /\ Distinct(kids[Root]) /\ Drawing \subseteq Nodes /\ loop[Root] = 0
         /\ Root \in Nodes /\ Root \notin Drawing /\ Drawing \subseteq Entries
         /\ \A c \in Drawing :
              /\ Files[c] > 0 /\ Files[c] # 0 /\ ~IsList(c) /\ c # Root /\ c # NoNode
              /\ Shuffled(c) /\ Siblings(c) = kids[Root]
<1>1. kids \in [Nodes -> Seq(Nodes)] /\ Grows(Rank, kids) /\ Root \in Nodes
  BY TreeAssumption DEF TreeInv, Grows
<1>2. kids[Root] \in Seq(Nodes) /\ Distinct(kids[Root]) /\ Drawing \subseteq Nodes /\ loop[Root] = 0
  BY <1>1, SetIs DEF Grows, OnePlace, Drawing, Listed
<1>3. Root \notin Drawing
  BY <1>1 DEF Grows, RootOnTop, Drawing
<1>4. Drawing \subseteq Entries
  BY <1>1 DEF TreeInv, Calm, Media, Drawing
<1>5. ASSUME NEW c \in Drawing
      PROVE  /\ Files[c] > 0 /\ Files[c] # 0 /\ ~IsList(c) /\ c # Root /\ c # NoNode
             /\ Shuffled(c) /\ Siblings(c) = kids[Root]
  <2>1. c \in Nodes /\ Files[c] > 0 /\ c # Root /\ c # NoNode
    BY <1>2, <1>3, <1>4, TreeAssumption DEF Entries
  <2>2. kids[c] = <<>>
    BY <1>1, <1>4 DEF Grows, Leaves
  <2>3. Parent(c) = Root
    BY <1>1, ParentIs DEF Drawing
  <2> QED BY <2>1, <2>2, <2>3 DEF IsList, Shuffled, Siblings
<1> QED BY <1>1, <1>2, <1>3, <1>4, <1>5

\* The next entry of a shuffled list is drawn.
LEMMA DrawnNext ==
  ASSUME WellGrown, LevelsInv, TreeInv, Steered, Listed, straight, IterStep, Drawn,
         pc = "call", iter.tree \in Drawing, call.fn = "step"
  PROVE  \/ Return("end") /\ hist' = hist /\ played' = played /\ Set(hist) = Drawing
         \/ \E n \in Drawing : /\ Return("entry") /\ iter'.tree = n /\ n \notin Set(hist)
                               /\ hist' = Append(hist, n) /\ played' = [played EXCEPT ![n] = TRUE]
<1>1. /\ Drawing \subseteq Nodes /\ loop[Root] = 0
      /\ \A c \in Drawing : /\ Files[c] > 0 /\ Files[c] # 0 /\ ~IsList(c) /\ c # Root /\ c # NoNode
                            /\ Shuffled(c) /\ Siblings(c) = kids[Root]
  BY DrawingIs DEF Drawn
<1>2. Real /\ It = iter /\ Walks(It) /\ TreeInv /\ WellGrown
  <2>1. iter.tree # NoNode
    BY <1>1
  <2> QED BY <2>1, HereIs DEF Here
<1>3. /\ DOMAIN Left = DOMAIN NewIter /\ Left.tree = It.tree /\ Left.rnd = TRUE
  <2>1. Left.rnd <=> Shuffled(It.tree)
    BY <1>2, LeftSpot
  <2>2. Left.rnd \in BOOLEAN
    BY <1>2, Fields DEF Walks, Left, LeftAt, TreeInv, Calm
  <2> QED BY <1>1, <1>2, <2>1, <2>2, LeftSpot
<1>4. \A d : Choices(d) = {n \in Drawing : ~played[n]}
  <2>1. Siblings(It.tree) = kids[Root]
    BY <1>1, <1>2
  <2> QED BY <1>3, <2>1 DEF Choices, Drawing
<1>5. \A n \in Drawing : played[n] <=> n \in Set(hist)
  BY DEF Drawn, Marked
<1>6. CASE StepRoundOver
  <2>1. Return("end") /\ hist' = hist /\ played' = played /\ Choices(call.d) = {}
    BY <1>1, <1>6 DEF StepRoundOver
  <2>2. Set(hist) \subseteq Drawing
    BY SetIs DEF Drawn, Marked
  <2> QED BY <1>4, <1>5, <2>1, <2>2
<1>7. ASSUME NEW n \in Nodes, StepEntry(n)
      PROVE  /\ n \in Drawing /\ Return("entry") /\ iter'.tree = n /\ n \notin Set(hist)
             /\ hist' = Append(hist, n) /\ played' = [played EXCEPT ![n] = TRUE]
  <2>1. n \in Choices(call.d) /\ iter' = AtEntry(n) /\ Return("entry")
    BY <1>2, <1>7 DEF StepEntry, SetIt
  <2>2. iter'.tree = n
    BY <1>3, <2>1, Fields DEF AtEntry
  <2>3. hist' = Append(hist, n) /\ played' = [played EXCEPT ![n] = TRUE]
    BY <1>2, <1>3, <1>7 DEF StepEntry
  <2>4. n \in Drawing /\ n \notin Set(hist)
    BY <1>4, <1>5, <2>1
  <2> QED BY <2>1, <2>2, <2>3, <2>4
<1>8. ~StepEnter /\ ~StepAround /\ ~StepUp /\ ~UpEnd /\ ~UpStep /\ ~DownStep
  BY <1>1, <1>2, <1>3 DEF StepEnter, StepAround, StepUp, UpEnd, UpStep, DownStep, Calling
<1>9. \A n \in Nodes : ~StepList(n) /\ ~StepInvalid(n)
  BY <1>1, <1>4 DEF StepList, StepInvalid
<1> QED BY <1>6, <1>7, <1>8, <1>9 DEF IterStep

\* The way into the list.
LEMMA DrawnInto ==
  ASSUME WellGrown, LevelsInv, TreeInv, Steered, Listed, straight, IterStep, Drawn,
         pc = "call", iter.tree = Root
  PROVE  /\ hist' = hist /\ played' = played
         /\ \/ pc' = "crash"
            \/ Return("error") /\ Drawing = {}
            \/ pc' = "call" /\ call'.fn = "down" /\ iter'.tree = Root
            \/ pc' = "call" /\ call'.fn = "step" /\ iter'.tree \in Drawing
<1>1. /\ kids[Root] \in Seq(Nodes) /\ Drawing \subseteq Nodes /\ Drawing \subseteq Entries /\ Root \in Nodes
      /\ Root \notin Drawing /\ Root # NoNode /\ Files[Root] = 0
  BY DrawingIs, TreeAssumption DEF Drawn
<1>2. Real /\ It = iter /\ Walks(It) /\ ~call.nodes /\ (call.fn = "down" => kids[Root] # <<>>)
  BY <1>1, HereIs DEF Here
<1>3. DOMAIN Left = DOMAIN NewIter /\ Left.tree = Root /\ ~Left.rnd
  BY <1>2, LeftSpot DEF Shuffled
<1>4. kids[Root] # <<>> => kids[Root][1] \in Drawing /\ kids[Root][Len(kids[Root])] \in Drawing
  <2>1. DOMAIN kids[Root] = 1 .. Len(kids[Root]) /\ Len(kids[Root]) \in Nat
    BY <1>1, LenProperties
  <2>2. kids[Root] # <<>> => Len(kids[Root]) >= 1
    BY <1>1, EmptySeq
  <2> QED BY <2>1, <2>2 DEF Drawing, Set
<1>5. CASE call.fn = "down"
  <2>1. DownStep
    BY <1>2, <1>5 DEF IterStep, StepEnter, StepRoundOver, StepAround, StepUp, StepList, StepInvalid, StepEntry,
       UpEnd, UpStep, Stepping, Calling
  <2>2. hist' = hist /\ played' = played /\ Again("step", 0) /\ iter' = Below(iter, call.d)
    BY <1>2, <2>1 DEF DownStep, SetIt
  <2>3. iter'.tree \in {kids[Root][1], kids[Root][Len(kids[Root])]}
    BY <1>2, <2>2, Fields DEF Below, Walks
  <2> QED BY <1>2, <1>4, <1>5, <2>2, <2>3, AgainIs
<1>6. CASE call.fn # "down"
  <2>1. call.fn = "step" /\ call.d = 0
    BY <1>1, <1>6 DEF Drawn, Entering
  <2>2. Choices(0) = {Root} /\ Rest(0) = 0
    <3>1. Siblings(Root) = <<Root>>
      BY DEF Siblings
    <3>2. Place(Root) = 1
      BY <3>1 DEF Place
    <3>3. NthFrom(Root, 0) = {Root}
      BY <3>1, <3>2 DEF NthFrom
    <3> QED BY <1>2, <1>3, <3>3, RestIs DEF Choices
  <2>3. PICK n \in Nodes : StepList(n) \/ StepInvalid(n) \/ StepEntry(n)
    BY <1>1, <1>2, <1>3, <2>1, <2>2 DEF IterStep, StepEnter, StepRoundOver, StepAround, StepUp, UpEnd, UpStep, DownStep,
       Calling
  <2>4. n = Root
    BY <2>1, <2>2, <2>3 DEF StepList, StepInvalid, StepEntry
  <2>5. ~StepEntry(n)
    BY <1>1, <2>4 DEF StepEntry
  <2>6. CASE StepList(n)
    <3>1. hist' = hist /\ played' = played /\ Again("down", 0) /\ iter' = [Left EXCEPT !.tree = Root]
      BY <1>2, <2>1, <2>2, <2>4, <2>6 DEF StepList, SetIt
    <3>2. iter'.tree = Root
      BY <1>3, <3>1, Fields
    <3> QED BY <3>1, <3>2, AgainIs
  <2>7. CASE StepInvalid(n)
    <3>1. hist' = hist /\ played' = played /\ ~IsList(Root) /\ (pc' = "crash" \/ Return("error"))
      BY <2>1, <2>2, <2>4, <2>7 DEF StepInvalid
    <3>2. Drawing = {}
      <4> SUFFICES ASSUME kids[Root] # <<>> PROVE FALSE
        BY <1>1, SetIs DEF Drawing
      <4>1. kids[Root][1] \in Entries /\ kids[Root][1] \in Nodes
        BY <1>1, <1>4
      <4>2. Valid(kids, kids[Root][1])
        BY <4>1, RankIs, AllValid DEF TreeInv, Grows, Listed
      <4> QED BY <3>1, <4>2 DEF IsList
    <3> QED BY <3>1, <3>2
  <2> QED BY <2>3, <2>5, <2>6, <2>7
<1> QED BY <1>5, <1>6

LEMMA DrawnIter ==
  ASSUME WellGrown, LevelsInv, TreeInv, Steered, Listed, straight, IterStep, Drawn
  PROVE  Drawn'
<1>1. SameTrees /\ asked' = asked /\ pc = "call"
  BY SteeredIter DEF IterStep, StepEnter, StepRoundOver, StepAround, StepUp, StepList, StepInvalid, StepEntry,
         UpEnd, UpStep, DownStep, Stepping, Calling
<1>2. Drawing' = Drawing /\ rnd'[Root] /\ AllOrders'
  BY <1>1 DEF SameTrees, Drawing, Drawn, AllOrders
<1>3. hist \in Seq(Drawing) /\ Distinct(hist) /\ \A n \in Drawing : played[n] <=> n \in Set(hist)
  BY DEF Drawn, Marked
<1>4. call.then \in Openings
  BY <1>1 DEF Steered
<1>5. ASSUME hist' = hist, played' = played PROVE Marked'
  BY <1>2, <1>3, <1>5 DEF Marked
<1> USE DEF Openings, Playing
<1>6. CASE iter.tree = NoNode
  <2>1. /\ UNCHANGED <<hist, played>> /\ pc' = "call" /\ call'.fn = "step" /\ call'.d = 0 /\ iter'.tree = Root
    BY <1>6, EnterIs
  <2> QED BY <1>2, <1>5, <2>1 DEF Drawn, Entering
<1>7. CASE iter.tree = Root
  <2>1. /\ hist' = hist /\ played' = played
        /\ \/ pc' = "crash"
           \/ Return("error") /\ Drawing = {}
           \/ pc' = "call" /\ call'.fn = "down" /\ iter'.tree = Root
           \/ pc' = "call" /\ call'.fn = "step" /\ iter'.tree \in Drawing
    BY <1>1, <1>7, DrawnInto
  <2>2. CASE Return("error") /\ Drawing = {}
    <3>1. Set(hist) = Drawing
      BY <1>3, <2>2, SetIs
    <3> QED BY <1>2, <1>4, <1>5, <2>1, <2>2, <3>1 DEF Drawn, Return
  <2> QED BY <1>2, <1>5, <2>1, <2>2 DEF Drawn, Entering
<1>8. CASE iter.tree \in Drawing /\ call.fn = "step"
  <2>1. CASE Return("end") /\ hist' = hist /\ played' = played /\ Set(hist) = Drawing
    BY <1>2, <1>4, <1>5, <2>1 DEF Drawn, Return
  <2>2. ASSUME NEW n \in Drawing, Return("entry"), iter'.tree = n, n \notin Set(hist),
               hist' = Append(hist, n), played' = [played EXCEPT ![n] = TRUE]
        PROVE  Drawn'
    <3>1. hist' \in Seq(Drawing) /\ Distinct(hist') /\ Set(hist') = Set(hist) \union {n}
      <4>1. hist \in Seq(Drawing) /\ Distinct(hist)
        BY <1>3
      <4>2. PICK S, h, g : S = Drawing /\ h = hist /\ g = hist'
        OBVIOUS
      <4>3. h \in Seq(S) /\ Distinct(h) /\ n \in S /\ n \notin Set(h) /\ g = Append(h, n)
        BY <2>2, <4>1, <4>2
      <4>4. g \in Seq(S)
        BY <4>3, AppendProperties
      <4>5. Distinct(g)
        BY <4>3, DrawnOne, Zenon
      <4>6. \A y : y \in Set(g) <=> y \in Set(h) \/ y = n
        BY <4>3, DrawnOne, Zenon
      <4> QED BY <4>2, <4>4, <4>5, <4>6
    <3>2. DOMAIN played = Nodes /\ Drawing \subseteq Nodes
      BY DrawingIs DEF Listed, Drawn
    <3>3. Marked'
      BY <1>2, <1>3, <2>2, <3>1, <3>2 DEF Marked
    <3> QED BY <1>2, <1>4, <2>2, <3>3 DEF Drawn, Return
  <2> QED BY <1>1, <1>8, <2>1, <2>2, DrawnNext
<1> QED BY <1>1, <1>6, <1>7, <1>8 DEF Drawn, Entering

LEMMA DrawnOn ==
  ASSUME LevelsInv, TreeInv, Steered, Listed, Going \/ FileEnds \/ Told, straight', Drawn
  PROVE  Drawn'
<1>1. SameTrees /\ UNCHANGED <<asked, hist, played>> /\ Between
  BY GoesOn
<1>2. Drawing' = Drawing /\ rnd'[Root] /\ AllOrders' /\ Marked'
  BY <1>1 DEF SameTrees, Drawing, Drawn, AllOrders, Marked
<1> USE DEF Openings, Playing
<1>3. CASE pc \in Openings /\ res # "entry" /\ pc' = "idle"
  BY <1>1, <1>2, <1>3 DEF Drawn
<1>4. CASE pc' \in Playing /\ SameSpot /\ iter.tree \in Drawing
  BY <1>2, <1>4 DEF Drawn, SameSpot
<1>5. CASE pc \in Playing /\ pc' = "call" /\ call' = Called("step", 1, FALSE, "real", call'.then) /\ iter' = iter
  <2>1. call'.fn = "step"
    BY <1>5 DEF Called
  <2>2. iter'.tree \in Drawing
    BY <1>5 DEF Drawn
  <2> QED BY <1>2, <1>5, <2>1, <2>2 DEF Drawn, Entering
<1> QED BY <1>1, <1>3, <1>4, <1>5 DEF Between, Drawn

PlayInv ==
  straight =>
    /\ Steered /\ Listed
    /\ Drawn \/ (~rnd[Root] /\ \E o, q : Followed(o, q))

LEMMA StillFollowed ==
  ASSUME SameTrees, UNCHANGED <<asked, hist, pc, call, res, iter>>, NEW o, NEW q, Followed(o, q)
  PROVE  Followed(o, q)'
<1>1. Ordering(o)' /\ \A x, r : Owes(o, x, r)' <=> Owes(o, x, r)
  BY SameOwes DEF Followed
<1>2. OwesNow(o, q) => OwesNow(o, q)'
  <2> SUFFICES ASSUME OwesNow(o, q), NEW z, z = Spot(call'.fn, call'.d, iter') PROVE Owes(o, z, q)'
    BY DEF OwesNow, Spot
  <2> QED BY <1>1 DEF OwesNow
<1>3. OwesThen(o, q) => OwesThen(o, q)'
  <2> SUFFICES ASSUME OwesThen(o, q), NEW z, z = Spot("step", 1, iter') PROVE Owes(o, z, q)'
    BY DEF OwesThen, Spot
  <2> QED BY <1>1 DEF OwesThen
<1>4. Owed(o, q)'
  BY <1>2, <1>3 DEF Followed, Owed
<1> QED BY <1>1, <1>4 DEF Followed

LEMMA PlayInit ==
  ASSUME WellGrown, Init, \A t \in Trees : FitOrders(t)
  PROVE  PlayInv
<1> SUFFICES ASSUME straight PROVE PlayInv
  BY DEF PlayInv
<1>1. PICK t \in Trees :
        /\ kids = Cleaned(t.kids) /\ loop = t.loop /\ rnd = t.rnd
        /\ straight = (\A n \in Nodes : t.loop[n] >= 0)
        /\ asked = IF straight THEN Orders(t) ELSE {}
  BY DEF Init
<1>2. FitOrders(t) /\ t.kids = kids /\ asked = Orders(t) /\ \A n \in Nodes : t.loop[n] >= 0
  BY <1>1 DEF FitOrders
<1>3. Rank \in [Nodes -> 0 .. MaxDepth] /\ Grows(Rank, kids) /\ Calm(kids, rnd, t.sends)
  BY <1>1, RankIs DEF WellGrownBy, GrownBy
<1>4. Filled(kids) /\ loop \in [Nodes -> Nat] /\ \A n \in Nodes : rnd[n] => n = Root /\ loop[n] = 0
  BY <1>1, <1>2 DEF FitOrders
<1>5. /\ played = [n \in Nodes |-> FALSE] /\ hist = <<>> /\ iter.tree = NoNode
      /\ pc = "call" /\ call = Called("step", 0, FALSE, "real", "started")
      /\ eof = 0 /\ play_tree_step = 1
  BY Fields DEF Init, NewIter
<1>6. Listed
  BY <1>4, <1>5 DEF Listed
<1>7. Steered
  BY <1>5 DEF Steered, Called, Real, Openings, Playing
<1>8. CASE rnd[Root]
  <2>1. Set(kids[Root]) \subseteq Entries
    BY <1>3, <1>8, TreeAssumption DEF Calm, Media
  <2>2. t.rnd[Root] /\ t.loop[Root] = 0
    BY <1>1, <1>4, <1>8, TreeAssumption
  <2>3. AllOrders
    BY <1>2, <1>3, <2>1, <2>2, ShuffledAsks DEF AllOrders, Drawing
  <2>4. Marked
    <3>1. Drawing \subseteq Nodes
      BY <1>3, SetIs, TreeAssumption DEF Grows, Drawing
    <3>2. \A n \in Drawing : ~played[n]
      BY <1>5, <3>1
    <3>3. Set(<<>>) = {} /\ Distinct(<<>>) /\ <<>> \in Seq(Drawing)
      BY DEF Set, Distinct
    <3> QED BY <1>5, <3>2, <3>3 DEF Marked
  <2>5. Drawn
    BY <1>5, <1>8, <2>3, <2>4 DEF Drawn, Entering, Openings, Playing
  <2> QED BY <1>6, <1>7, <2>5 DEF PlayInv
<1>9. CASE ~rnd[Root]
  <2>1. (\A n \in Nodes : ~t.rnd[n]) /\ loop \in [Nodes -> Int] /\ t.loop = loop
    BY <1>1, <1>4, <1>9
  <2>2. PICK o : Ordered(o) /\ Orders(t) = {o.all[Root]}
    BY <1>2, <1>3, <2>1, OrderedIs
  <2>3. Ordering(o)
    BY <1>1, <1>3, <1>4, <2>1, <2>2 DEF Ordering
  <2>4. o.all[Root] \in Seq(Nodes) /\ <<>> \in Seq(Nodes)
    <3>1. Root \in Nodes
      BY TreeAssumption
    <3>2. \A n \in Nodes : o.all[n] \in Seq(Nodes)
      BY <2>2, Zenon DEF Ordered
    <3> QED BY <3>1, <3>2
  <2>5. Join(hist, o.all[Root]) = o.all[Root]
    BY <1>5, <2>4, ConcatEmptySeq DEF Join
  <2>6. Owed(o, o.all[Root])
    BY <1>5 DEF Owed, Openings, Playing
  <2>7. Followed(o, o.all[Root])
    BY <1>2, <1>5, <2>2, <2>3, <2>4, <2>5, <2>6 DEF Followed
  <2> QED BY <1>6, <1>7, <1>9, <2>7 DEF PlayInv
<1> QED BY <1>8, <1>9

LEMMA PlayNext ==
  ASSUME WellGrown, LevelsInv, TreeInv, PlayInv, [Next]_vars
  PROVE  PlayInv'
<1> SUFFICES ASSUME straight' PROVE (Steered /\ Listed /\ (Drawn \/ (~rnd[Root] /\ \E o, q : Followed(o, q))))'
  BY DEF PlayInv
<1>1. CASE IterStep
  <2>1. straight
    BY <1>1 DEF IterStep, StepEnter, StepRoundOver, StepAround, StepUp, StepList, StepInvalid, StepEntry,
         UpEnd, UpStep, DownStep, Outside
  <2>2. Steered /\ Listed
    BY <2>1 DEF PlayInv
  <2>3. Steered' /\ Listed' /\ SameTrees
    BY <1>1, <2>2, SteeredIter
  <2>4. CASE Drawn
    BY <1>1, <2>1, <2>2, <2>3, <2>4, DrawnIter
  <2>5. CASE ~rnd[Root] /\ \E o, q : Followed(o, q)
    <3>1. PICK o, q : Followed(o, q)
      BY <2>5
    <3>2. \E r : Followed(o, r)'
      BY <1>1, <2>1, <2>2, <3>1, FollowedIter
    <3> QED BY <2>3, <2>5, <3>2 DEF SameTrees
  <2> QED BY <2>1, <2>4, <2>5 DEF PlayInv
<1>2. CASE Going \/ FileEnds \/ Told
  <2>1. straight
    BY <1>2 DEF Going, Started, OpenFails, Opens, OpenList, ListRead, Tried, Rewound, Headed, Stopping, NextFile,
       Stepped, GetFile, NextAgain, FileEnds, Told, IdleLoad, IdleSet, Obey, PtStep, PtUpStep, AltSrcStep,
       LoadAppend, Load, Stop, SetOption, Sent, told, plays
  <2>2. Steered /\ Listed
    BY <2>1 DEF PlayInv
  <2>3. Steered' /\ Listed' /\ SameTrees
    BY <1>2, <2>2, SteeredOn, GoesOn
  <2>4. CASE Drawn
    BY <1>2, <2>2, <2>3, <2>4, DrawnOn
  <2>5. CASE ~rnd[Root] /\ \E o, q : Followed(o, q)
    <3>1. PICK o, q : Followed(o, q)
      BY <2>5
    <3>2. Followed(o, q)'
      BY <1>2, <2>2, <3>1, FollowedOn
    <3> QED BY <2>3, <2>5, <3>2 DEF SameTrees
  <2> QED BY <2>1, <2>4, <2>5 DEF PlayInv
<1>3. CASE UNCHANGED vars
  <2>1. /\ SameTrees
        /\ UNCHANGED <<played, iter, pc, call, res, eof, play_tree_step, straight, asked, hist>>
    BY <1>3 DEF vars, tree, iters, player, told, plays, SameTrees
  <2>2. Steered /\ Listed
    BY <2>1 DEF PlayInv
  <2>3. Steered' /\ Listed'
    BY <2>1, <2>2 DEF Steered, Listed, SameTrees, Real
  <2>4. CASE Drawn
    BY <2>1, <2>3, <2>4 DEF SameTrees, Drawn, AllOrders, Marked, Entering, Drawing
  <2>5. CASE ~rnd[Root] /\ \E o, q : Followed(o, q)
    <3>1. PICK o, q : Followed(o, q)
      BY <2>5
    <3>2. Followed(o, q)'
      BY <2>1, <3>1, StillFollowed
    <3> QED BY <2>1, <2>3, <2>5, <3>2 DEF SameTrees
  <2> QED BY <2>1, <2>4, <2>5 DEF PlayInv
<1> QED BY <1>1, <1>2, <1>3 DEF Next

\* PlaysAsAsked for every command line without empty lists in which only the whole list
\* may be shuffled and is then gone through once: left alone, the player begins the
\* entries in an order the lists and loop counts ask for, however deep they are nested,
\* and is idle only at the end of it.
THEOREM ListsPlayAsAsked ==
  WellGrown /\ (\A t \in Trees : FitOrders(t)) => (Spec => []PlaysAsAsked)
<1> SUFFICES ASSUME WellGrown, \A t \in Trees : FitOrders(t) PROVE Spec => []PlaysAsAsked
  OBVIOUS
<1>1. Init => PlayInv
  BY PlayInit
<1>2. LevelsInv /\ TreeInv /\ PlayInv /\ [Next]_vars => PlayInv'
  BY PlayNext
<1>3. TreeInv /\ PlayInv => PlaysAsAsked
  <2> SUFFICES ASSUME TreeInv, PlayInv, straight
               PROVE  /\ \E o \in asked : Len(hist) <= Len(o) /\ hist = SubSeq(o, 1, Len(hist))
                      /\ pc = "idle" => hist \in asked
    BY DEF PlaysAsAsked
  <2>1. CASE Drawn
    <3>1. Steered /\ Listed /\ rnd[Root] /\ AllOrders /\ Marked
      BY <2>1 DEF PlayInv, Drawn
    <3>2. kids[Root] \in Seq(Drawing) /\ Distinct(kids[Root]) /\ Set(kids[Root]) = Drawing
      <4>1. kids[Root] \in Seq(Nodes) /\ Distinct(kids[Root])
        BY <3>1, DrawingIs
      <4>2. kids[Root] \in Seq(Set(kids[Root]))
        BY <4>1, LenProperties DEF Set
      <4> QED BY <4>1, <4>2 DEF Drawing
    <3>3. hist \in Seq(Drawing) /\ Distinct(hist)
      BY <3>1 DEF Marked
    <3>4. \E p \in [DOMAIN kids[Root] -> Drawing] :
            Set(p) = Drawing /\ Len(hist) <= Len(p) /\ hist = SubSeq(p, 1, Len(hist))
      BY <3>2, <3>3, DrawnGoesOn
    <3>5. ASSUME pc = "idle" PROVE hist \in asked
      <4>1. Set(hist) = Drawing
        BY <2>1, <3>5 DEF Drawn
      <4>2. Len(hist) = Len(kids[Root])
        BY <3>2, <3>3, <4>1, NoLonger
      <4>3. hist \in [DOMAIN kids[Root] -> Drawing]
        BY <3>2, <3>3, <4>2, LenProperties
      <4> QED BY <3>1, <4>1, <4>3 DEF AllOrders
    <3> QED BY <3>1, <3>4, <3>5 DEF AllOrders
  <2>2. CASE ~rnd[Root] /\ \E o, q : Followed(o, q)
    <3>1. PICK o, q : Followed(o, q)
      BY <2>2
    <3>2. /\ asked = {o.all[Root]} /\ hist \in Seq(Nodes) /\ q \in Seq(Nodes) /\ Join(hist, q) = o.all[Root]
          /\ pc = "idle" => q = <<>>
      BY <3>1 DEF Followed, Owed
    <3>3. Len(hist) <= Len(hist \o q) /\ hist = SubSeq(hist \o q, 1, Len(hist))
      BY <3>2, Begins
    <3>4. pc = "idle" => hist \o q = hist
      BY <3>2, ConcatEmptySeq
    <3> QED BY <3>2, <3>3, <3>4 DEF Join
  <2> QED BY <2>1, <2>2 DEF PlayInv
<1> QED BY <1>1, <1>2, <1>3, LevelsInvariant, TreeInvariant, PTL DEF Spec
=============================================================================
