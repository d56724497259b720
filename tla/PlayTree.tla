------------------------------ MODULE PlayTree ------------------------------
(***************************************************************************)
(* The play tree of playtree.c, its iterator, the options m_config.c keeps *)
(* per entry, and the player that walks the tree: mplayer.c's start, idle  *)
(* loop, opening of a file and choice of the next one, and the commands of *)
(* command.c that move the iterator or change the tree.                    *)
(*                                                                         *)
(* play_tree_iter_step, _up_step and _down_step call each other as the     *)
(* last thing they do, so a call is a loop: `call' holds the function that *)
(* runs, each action is one activation of it, and `then' is where the      *)
(* player goes on with the result.                                         *)
(*                                                                         *)
(* SlaveControl has the pauses, prefixes and races of those commands, over *)
(* a flat list; here each command is obeyed at once, over a tree.          *)
(***************************************************************************)
EXTENDS Options, FiniteSets

CONSTANTS
  Nodes, Root,   \* what trees are made of, and mpctx->playtree
  Files,         \* how many files (sources) an entry has; 0 for a NODE
  Kind,          \* what opening its files gives: "media", "broken", "nodemux"
                 \* or "list", a playlist
  ListOf,        \* the node a playlist is parsed to, NoNode when it is empty
  Content,       \* the children a parsed list has
  Trees,         \* command lines: the tree's kids, loop, rnd and params, and
                 \* `sends', the commands the front end may send
  MaxCommands,   \* how many commands it sends
  MaxDepth,      \* no tree is deeper
  Values         \* of the option

NoNode  == "NULL"
NoValue == "unset"
Default == "default"
Entries == {n \in Nodes : Files[n] > 0}

ASSUME TreeAssumption ==
  /\ Root \in Nodes /\ NoNode \notin Nodes
  /\ Files \in [Nodes -> Nat] /\ Files[Root] = 0
  /\ ListOf \in [Nodes -> Nodes \union {NoNode}]
  /\ MaxCommands \in Nat /\ MaxDepth \in Nat /\ Default \in Values

\* mp_core.h, and playtree.h's results of a step
PT_NEXT_ENTRY == 1
PT_PREV_ENTRY == -1
PT_NEXT_SRC   == 2
PT_PREV_SRC   == -2
PT_UP_NEXT    == 3
PT_UP_PREV    == -3
PT_STOP       == 4
Results == {"error", "entry", "node", "end"}

VARIABLES
  kids, loop, rnd, played, params,  \* the tree; played: PLAY_TREE_RND_PLAYED
  iter, copy,                       \* playtree_iter, and a copy to try a step
  cfg,                              \* the option
  pc, call, res,
  eof, play_tree_step,
  old,                              \* the entry a playlist replaces
  want,                             \* what a step that is tried will set
  sends, cmds,                      \* what the front end may send, and how
                                    \* much it has sent
  floor, base, own,                 \* history: the level below the iterator;
                                    \* the option outside the list; its value
                                    \* when set while an entry plays
  accepted,                         \* history: a step was tried and accepted
  straight, asked, hist             \* history: no command yet; the orders the
                                    \* list asks for; the entries begun

tree   == <<kids, loop, rnd, played, params>>
iters  == <<iter, copy, cfg, pc, call, res>>
player == <<eof, play_tree_step, old, want, sends, cmds>>
plays  == <<straight, asked, hist>>
told   == <<floor, base, own, accepted, plays>>
vars   == <<tree, iters, player, told>>

----------------------------------------------------------------------------
\* The tree.

Set(s) == {s[i] : i \in DOMAIN s}

Subtree(k, n) ==
  LET Down[d \in 0 .. MaxDepth] ==
        IF d = 0 THEN {n} ELSE LET s == Down[d - 1] IN s \union UNION {Set(k[m]) : m \in s}
  IN Down[MaxDepth]

\* play_tree_is_valid
Valid(k, n) == \E e \in Subtree(k, n) : e \in Entries

\* play_tree_cleanup
Cleaned(k) == [n \in Nodes |-> SelectSeq(k[n], LAMBDA m : Valid(k, m))]

InTree    == Subtree(kids, Root)
Parent(n) == IF n = Root THEN NoNode ELSE CHOOSE p \in Nodes : n \in Set(kids[p])
Siblings(n) == IF n = Root THEN <<Root>> ELSE kids[Parent(n)]
Place(n)  == CHOOSE i \in DOMAIN Siblings(n) : Siblings(n)[i] = n

\* play_tree_insert_entry(at, n), play_tree_remove(n), on the children k
Insert(k, at, n) ==
  LET p == Parent(at)
      i == Place(at)
  IN [k EXCEPT ![p] = SubSeq(@, 1, i) \o <<n>> \o SubSeq(@, i + 1, Len(@))]
Remove(k, n) ==
  LET p == Parent(n)
      i == Place(n)
  IN [m \in Nodes |->
        IF m \in Subtree(k, n) THEN <<>>
        ELSE IF m = p THEN SubSeq(k[p], 1, i - 1) \o SubSeq(k[p], i + 1, Len(k[p]))
        ELSE k[m]]

\* A node as its parser makes it.
Grown(k, n) == [k EXCEPT ![n] = Content[n]]
New(n)      == Subtree(Grown(kids, n), n)
IsNew(n)    == New(n) \intersect InTree = {}

----------------------------------------------------------------------------
\* Iterators and their calls.

NewIter ==
  [tree |-> NoNode, file |-> 0, nfiles |-> 0, loop |-> 0, stack |-> <<>>, pushed |-> 0, rnd |-> FALSE]
NoIter  == [NewIter EXCEPT !.tree = "freed"]
Called(fn, d, nodes, who, then) ==
  [fn |-> fn, d |-> d, nodes |-> nodes, who |-> who, then |-> then]
NoCall  == Called("none", 0, FALSE, "real", "none")

\* play_tree_iter_new_copy: its config is NULL.
NewCopyNoLoop == [iter EXCEPT !.loop = 0]
NewCopy == iter

Real == call.who = "real"
It   == IF Real THEN iter ELSE copy
SetIt(i) == IF Real THEN iter' = i /\ UNCHANGED copy ELSE copy' = i /\ UNCHANGED iter

Again(fn, d) == call' = [call EXCEPT !.fn = fn, !.d = d] /\ UNCHANGED <<pc, res>>
Return(r)    == call' = NoCall /\ pc' = call.then /\ res' = r
Outside == <<kids, rnd, params, player, floor, base, accepted, straight, asked>>

\* play_tree_iter_push_params
PushParams(c, n) == Apply(Push(c), params[n])

\* The first lines of a step: the options of the entry are popped.
LeftAt(i)  == [i EXCEPT !.pushed = IF Real THEN 0 ELSE @, !.file = -1,
                        !.rnd = i.tree # Root /\ rnd[Parent(i.tree)]]
Left       == LeftAt(It)
LeftCfgAlways == IF Real /\ cfg.lvl > 1 THEN Pop(cfg) ELSE cfg
LeftCfg    == IF Real /\ It.pushed > 0 THEN Pop(cfg) ELSE cfg

\* The siblings a step may go to: one at random in a shuffled list.
NthFrom(n, d) ==
  IF Place(n) + d \in DOMAIN Siblings(n) THEN {Siblings(n)[Place(n) + d]} ELSE {}
Choices(d) ==
  IF Left.rnd THEN {n \in Set(Siblings(It.tree)) : ~played[n]} ELSE NthFrom(It.tree, d)

\* What is left of d when the siblings are gone through.
Sign(d) == IF d > 0 THEN 1 ELSE -1
Rest(d) ==
  IF Left.rnd \/ d = 0 THEN d
  ELSE LET beyond == IF d > 0 THEN d - (Len(Siblings(It.tree)) - Place(It.tree)) - 1
                     ELSE d + Place(It.tree)
       IN IF Choices(d) # {} \/ beyond = 0 THEN Sign(d) ELSE beyond

\* May the list of n be gone through again?
LoopsAt(n, d) ==
  n # Root /\
  LET l == loop[Parent(n)]
  IN /\ l # 0
     /\ \/ d > 0 /\ It.loop # 0
        \/ d < 0 /\ (It.loop < 0 \/ It.loop < l)

\* play_tree_iter_step: "Stop on the node, or follow it".
IsList(n) == kids[n] # <<>> /\ Valid(kids, kids[n][1])

Calling(fn) == pc = "call" /\ call.fn = fn
Stepping    == Calling("step") /\ It.tree # NoNode

StepEnter ==
  /\ Calling("step") /\ It.tree = NoNode
  /\ SetIt([It EXCEPT !.tree = Root]) /\ Again("step", 0)
  /\ UNCHANGED <<Outside, loop, played, cfg, hist, own>>

\* All of a shuffled list is played: end, or start all of the tree again.
StepRoundOver ==
  /\ Stepping /\ Left.rnd /\ Choices(call.d) = {}
  /\ SetIt(Left) /\ cfg' = LeftCfg
  /\ IF loop[Root] = 0
     THEN Return("end") /\ UNCHANGED <<loop, played>>
     ELSE /\ Again("step", 0)
          /\ played' = [n \in Nodes |-> played[n] /\ n \notin InTree]
          /\ loop' = [loop EXCEPT ![Root] = IF @ > 0 THEN @ - 1 ELSE @]
  /\ UNCHANGED <<Outside, hist, own>>

\* To the first entry again, or back to the last one.
AroundForEver(d) ==
  LET s == Siblings(It.tree) IN [Left EXCEPT !.tree = IF d > 0 THEN s[1] ELSE s[Len(s)]]
Around(d) ==
  LET s == Siblings(It.tree)
      l == It.loop
  IN IF d > 0
     THEN [Left EXCEPT !.tree = s[1], !.loop = IF l > 0 THEN l - 1 ELSE l]
     ELSE [Left EXCEPT !.tree = s[Len(s)],
                       !.loop = IF l >= 0 /\ l < loop[Parent(It.tree)] THEN l + 1 ELSE l]
StepAround ==
  /\ Stepping /\ ~Left.rnd /\ Choices(call.d) = {} /\ LoopsAt(It.tree, Rest(call.d))
  /\ SetIt(Around(call.d)) /\ cfg' = LeftCfg /\ Again("step", 0)
  /\ UNCHANGED <<Outside, loop, played, hist, own>>

StepUp ==
  /\ Stepping /\ ~Left.rnd /\ Choices(call.d) = {} /\ ~LoopsAt(It.tree, Rest(call.d))
  /\ SetIt(Left) /\ cfg' = LeftCfg /\ Again("up", Rest(call.d))
  /\ UNCHANGED <<Outside, loop, played, hist, own>>

StepList(n) ==
  /\ Stepping /\ n \in Choices(call.d) /\ IsList(n)
  /\ SetIt([Left EXCEPT !.tree = n]) /\ cfg' = LeftCfg
  /\ IF call.nodes THEN Return("node") ELSE Again("down", Rest(call.d))
  /\ UNCHANGED <<Outside, loop, played, hist, own>>

\* "Not a valid entry : go to next one".  A node whose first child is not
\* valid, though another one is, is taken for an entry: its files are NULL.
StepInvalidGoesOn(n) ==
  /\ Stepping /\ n \in Choices(call.d) /\ ~IsList(n) /\ Files[n] = 0
  /\ SetIt(Left) /\ cfg' = LeftCfg
  /\ IF Valid(kids, n) THEN pc' = "crash" /\ UNCHANGED <<call, res>>
     ELSE Again("step", Rest(call.d))
  /\ UNCHANGED <<Outside, loop, played, hist, own>>
StepInvalid(n) ==
  /\ Stepping /\ n \in Choices(call.d) /\ ~IsList(n) /\ Files[n] = 0
  /\ SetIt(Left) /\ cfg' = LeftCfg
  /\ IF Valid(kids, n) THEN pc' = "crash" /\ UNCHANGED <<call, res>>
     ELSE IF Rest(call.d) = 0 THEN Return("error")
     ELSE Again("step", Rest(call.d))
  /\ UNCHANGED <<Outside, loop, played, hist, own>>

AtEntry(n) == [Left EXCEPT !.tree = n, !.nfiles = Files[n], !.pushed = IF Real THEN 1 ELSE @]
StepEntry(n) ==
  /\ Stepping /\ n \in Choices(call.d) /\ Files[n] > 0
  /\ SetIt(AtEntry(n)) /\ Return("entry")
  /\ cfg' = IF Real THEN PushParams(LeftCfg, n) ELSE cfg
  /\ played' = IF Real /\ Left.rnd THEN [played EXCEPT ![n] = TRUE] ELSE played
  /\ hist' = IF Real /\ straight THEN Append(hist, n) ELSE hist
  /\ own' = IF Real THEN NoValue ELSE own
  /\ UNCHANGED <<Outside, loop>>

\* play_tree_iter_up_step
UpEnd ==
  /\ Calling("up") /\ It.tree = Root
  /\ SetIt([It EXCEPT !.file = -1]) /\ Return("end")
  /\ UNCHANGED <<Outside, loop, played, cfg, hist, own>>
Above(i) ==
  [i EXCEPT !.file = -1, !.tree = Parent(@), !.loop = i.stack[Len(i.stack)],
            !.stack = SubSeq(@, 1, Len(@) - 1)]
UpStep ==
  /\ Calling("up") /\ It.tree # Root /\ It.stack # <<>>
  /\ SetIt(Above(It))
  /\ cfg' = IF Real THEN Pop(cfg) ELSE cfg
  /\ played' = IF Real /\ It.rnd THEN [played EXCEPT ![Parent(It.tree)] = TRUE] ELSE played
  /\ Again("step", call.d)
  /\ UNCHANGED <<Outside, loop, hist, own>>

\* play_tree_iter_down_step
Below(i, d) ==
  LET k == kids[i.tree]
  IN [i EXCEPT !.file = -1, !.stack = Append(@, i.loop), !.loop = loop[i.tree] - 1,
               !.tree = IF d >= 0 THEN k[1] ELSE k[Len(k)]]
DownStep ==
  /\ Calling("down")
  /\ SetIt(Below(It, call.d))
  /\ cfg' = IF Real THEN PushParams(cfg, It.tree) ELSE cfg
  /\ Again("step", 0)
  /\ UNCHANGED <<Outside, loop, played, hist, own>>

IterStep ==
  \/ StepEnter \/ StepRoundOver \/ StepAround \/ StepUp
  \/ \E n \in Nodes : StepList(n) \/ StepInvalid(n) \/ StepEntry(n)
  \/ UpEnd \/ UpStep \/ DownStep

----------------------------------------------------------------------------
\* mplayer.c.

Call(fn, d, nodes, who, then) ==
  call' = Called(fn, d, nodes, who, then) /\ pc' = "call" /\ UNCHANGED res
Went == UNCHANGED <<call, res>>

\* play_tree_iter_get_file: the index of the file, or nothing.
Sources(i, d) ==
  IF Files[i.tree] = 0 \/ i.file >= i.nfiles - 1 \/ i.file < -1 THEN {}
  ELSE IF d > 0 THEN {i.file + 1}
  ELSE {IF i.file <= 0 THEN i.nfiles - 1 ELSE i.file - 1}

\* The entries the list of t asks for: loops gone through, shuffled lists in
\* any order.
Joined(parts) ==
  LET Upto[k \in 0 .. Len(parts)] ==
        IF k = 0 THEN {<<>>} ELSE {s \o t : s \in Upto[k - 1], t \in parts[k]}
  IN Upto[Len(parts)]
Orders(t) ==
  LET ShuffledTo(n) ==
        IF t.rnd[n] THEN {p \in [DOMAIN t.kids[n] -> Set(t.kids[n])] : Set(p) = Set(t.kids[n])}
        ELSE {t.kids[n]}
      Of[n \in Nodes] ==
        IF Files[n] > 0 THEN {<<n>>}
        ELSE LET once == UNION {Joined([i \in DOMAIN p |-> Of[p[i]]]) : p \in ShuffledTo(n)}
             IN Joined([i \in 1 .. (IF t.loop[n] > 0 THEN t.loop[n] ELSE 1) |-> once])
  IN Of[Root]

Init ==
  /\ \E t \in Trees :
       /\ kids = Cleaned(t.kids) /\ loop = t.loop /\ rnd = t.rnd /\ params = t.params
       /\ sends = t.sends
       /\ straight = \A n \in Nodes : t.loop[n] >= 0
       /\ asked = IF straight THEN Orders(t) ELSE {}
  /\ played = [n \in Nodes |-> FALSE]
  /\ cfg = Fresh(Default) /\ base = Default /\ own = NoValue /\ floor = 1
  /\ iter = NewIter /\ copy = NoIter /\ res = "end"
  /\ pc = "call" /\ call = Called("step", 0, FALSE, "real", "started")
  /\ eof = 0 /\ play_tree_step = 1 /\ old = NoNode /\ want = <<0, 1>>
  /\ cmds = 0 /\ accepted = FALSE /\ hist = <<>>

Freed == iter' = NoIter /\ pc' = "idle" /\ eof' = 0

\* After the first step of a new iterator.
Started ==
  /\ pc = "started"
  /\ IF res = "entry"
     THEN /\ \E f \in Sources(iter, 1) : iter' = [iter EXCEPT !.file = f]
          /\ pc' = "open" /\ UNCHANGED eof
     ELSE Freed
  /\ Went /\ UNCHANGED <<tree, copy, cfg, play_tree_step, old, want, sends, cmds, told>>

\* A new list of the one node n: play_tree_free_list, play_tree_set_child.
Anew(f, n, v) == [m \in Nodes |-> IF m \in New(n) THEN v ELSE f[m]]
Replanted(n) ==
  [m \in Nodes |-> IF m = Root THEN <<n>> ELSE IF m \in New(n) THEN Grown(kids, n)[m] ELSE <<>>]
Replant(n) ==
  /\ kids' = Replanted(n)
  /\ loop' = Anew(loop, n, 0) /\ rnd' = Anew(rnd, n, FALSE)
  /\ played' = Anew(played, n, FALSE) /\ params' = Anew(params, n, <<>>)

Sent(c) ==
  /\ c \in sends /\ cmds < MaxCommands /\ cmds' = cmds + 1 /\ UNCHANGED sends
  /\ straight' = FALSE /\ asked' = {} /\ hist' = <<>>

\* The idle loop.
IdleLoad(c) ==
  /\ pc = "idle" /\ Sent(c) /\ c.id = "load" /\ IsNew(c.file)
  /\ Replant(c.file)
  /\ IF Valid(kids', Root)
     THEN /\ iter' = NewIter /\ floor' = cfg.lvl
          /\ Call("step", 0, FALSE, "real", "started")
     ELSE pc' = "idle" /\ Went /\ UNCHANGED <<iter, floor>>
  /\ UNCHANGED <<copy, cfg, eof, play_tree_step, old, want, base, own, accepted>>
IdleSet(c) ==
  /\ pc = "idle" /\ Sent(c) /\ c.id = "set"
  /\ cfg' = [cfg EXCEPT !.var = c.val] /\ base' = c.val
  /\ UNCHANGED <<tree, iter, copy, pc, call, res, eof, play_tree_step, old, want, floor, own, accepted>>

Leave(e) == pc' = "next" /\ eof' = e /\ Went

\* How far a command steps.
StepBy(c) ==
  IF c.id = "pt_step" THEN IF c.n = 0 THEN 1 ELSE c.n ELSE IF c.n > 0 THEN 1 ELSE -1

\* libmpdemux_was_interrupted, when a file could not be opened.
Interrupted(c) ==
  CASE c.id = "pt_step"      -> <<IF c.n > 0 THEN PT_NEXT_ENTRY ELSE PT_PREV_ENTRY, StepBy(c)>>
    [] c.id = "pt_up_step"   -> <<IF c.n > 0 THEN PT_UP_NEXT ELSE PT_UP_PREV, play_tree_step>>
    [] c.id = "alt_src_step" -> <<IF c.n > 0 THEN PT_NEXT_SRC ELSE PT_PREV_SRC, play_tree_step>>
    [] OTHER                 -> <<PT_NEXT_ENTRY, play_tree_step>>
OpenFails ==
  /\ pc = "open" /\ Kind[iter.tree] = "broken"
  /\ \/ /\ Leave(PT_NEXT_ENTRY)
        /\ UNCHANGED <<play_tree_step, sends, cmds, plays>>
     \/ \E c \in sends :
          /\ Sent(c) /\ Leave(Interrupted(c)[1]) /\ play_tree_step' = Interrupted(c)[2]
  /\ UNCHANGED <<tree, iter, copy, cfg, old, want, floor, base, own, accepted>>

Opens ==
  /\ pc = "open" /\ Kind[iter.tree] \in {"media", "nodemux"}
  /\ IF Kind[iter.tree] = "media" THEN pc' = "play" /\ Went /\ UNCHANGED eof ELSE Leave(0)
  /\ UNCHANGED <<tree, iter, copy, cfg, play_tree_step, old, want, sends, cmds, told>>

\* playtree_add_playlist
OpenList ==
  /\ pc = "open" /\ Kind[iter.tree] = "list"
  /\ LET n == iter.tree
         l == ListOf[n]
     IN /\ old' = n
        /\ IF l = NoNode
           THEN Call("step", 1, FALSE, "real", "emptied") /\ UNCHANGED tree
           ELSE /\ IsNew(l)
                /\ kids' = Insert(Grown(kids, l), n, l)
                /\ loop' = Anew(loop, l, 0) /\ played' = Anew(played, l, FALSE)
                /\ params' = [Anew(params, l, <<>>) EXCEPT ![l] = params[n]]
                /\ rnd' = [Anew(rnd, l, FALSE) EXCEPT ![l] = rnd[n] /\ params[n] # <<>>]
                /\ Call("step", 1, FALSE, "real", "replaced")
  /\ straight' = FALSE /\ asked' = {} /\ hist' = <<>>
  /\ UNCHANGED <<iter, copy, cfg, eof, play_tree_step, want, sends, cmds, floor, base, own, accepted>>
\* "Loop with a single file"
ListReadAtOnce ==
  /\ pc \in {"emptied", "emptied2", "replaced"}
  /\ IF res # "entry" THEN Leave(PT_NEXT_ENTRY) /\ UNCHANGED kids
     ELSE kids' = Remove(kids, old) /\ Leave(PT_NEXT_SRC)
  /\ UNCHANGED <<loop, rnd, played, params, iter, copy, cfg, play_tree_step, old, want, sends, cmds, told>>
ListRead ==
  /\ pc \in {"emptied", "emptied2", "replaced"}
  /\ IF res # "entry" THEN Leave(PT_NEXT_ENTRY) /\ UNCHANGED kids
     ELSE IF pc = "emptied" /\ iter.tree = old
     THEN Call("up", 1, FALSE, "real", "emptied2") /\ UNCHANGED <<kids, eof>>
     ELSE kids' = Remove(kids, old) /\ Leave(PT_NEXT_SRC)
  /\ UNCHANGED <<loop, rnd, played, params, iter, copy, cfg, play_tree_step, old, want, sends, cmds, told>>

\* The file ends, eof = 1.
FileEnds ==
  /\ pc = "play" /\ Leave(PT_NEXT_ENTRY)
  /\ UNCHANGED <<tree, iter, copy, cfg, play_tree_step, old, want, sends, cmds, told>>

\* command.c
Obey(c) == pc = "play" /\ Sent(c) /\ UNCHANGED <<floor, base, accepted>>
PtStep(c) ==
  LET n == StepBy(c)
      e == IF n > 0 THEN PT_NEXT_ENTRY ELSE PT_PREV_ENTRY
  IN /\ Obey(c) /\ c.id = "pt_step"
     /\ IF c.force
        THEN Leave(e) /\ play_tree_step' = n /\ UNCHANGED <<copy, want>>
        ELSE /\ copy' = NewCopy /\ Call("step", n, FALSE, "copy", "tried")
             /\ want' = <<e, n>> /\ UNCHANGED <<eof, play_tree_step>>
     /\ UNCHANGED <<tree, iter, cfg, old, own>>
PtUpStep(c) ==
  LET n == StepBy(c)
      e == IF n > 0 THEN PT_UP_NEXT ELSE PT_UP_PREV
  IN /\ Obey(c) /\ c.id = "pt_up_step"
     /\ IF c.force
        THEN Leave(e) /\ UNCHANGED <<copy, want>>
        ELSE /\ copy' = NewCopy /\ Call("up", n, FALSE, "copy", "tried")
             /\ want' = <<e, play_tree_step>> /\ UNCHANGED eof
     /\ UNCHANGED <<tree, iter, cfg, play_tree_step, old, own>>
Tried ==
  /\ pc = "tried"
  /\ copy' = NoIter
  /\ IF res = "entry"
     THEN Leave(want[1]) /\ play_tree_step' = want[2] /\ accepted' = TRUE
     ELSE pc' = "play" /\ Went /\ UNCHANGED <<eof, play_tree_step, accepted>>
  /\ UNCHANGED <<tree, iter, cfg, old, want, sends, cmds, floor, base, own, plays>>

AltSrcStep(c) ==
  /\ Obey(c) /\ c.id = "alt_src_step"
  /\ IF iter.nfiles > 1 /\ c.n > 0 /\ iter.file < iter.nfiles THEN Leave(PT_NEXT_SRC)
     ELSE IF iter.nfiles > 1 /\ c.n < 0 /\ iter.file > 1 THEN Leave(PT_PREV_SRC)
     ELSE UNCHANGED <<pc, call, res, eof>>
  /\ UNCHANGED <<tree, iter, copy, cfg, play_tree_step, old, want, own>>

\* loadfile and loadlist
LoadAppend(c) ==
  /\ Obey(c) /\ c.id = "append" /\ IsNew(c.file)
  /\ kids' = [Grown(kids, c.file) EXCEPT ![Root] = Append(@, c.file)]
  /\ loop' = Anew(loop, c.file, 0) /\ rnd' = Anew(rnd, c.file, FALSE)
  /\ played' = Anew(played, c.file, FALSE) /\ params' = Anew(params, c.file, <<>>)
  /\ UNCHANGED <<iters, eof, play_tree_step, old, want, own>>
Load(c) ==
  /\ Obey(c) /\ c.id = "load" /\ IsNew(c.file)
  /\ old' = c.file /\ Call("up", 0, TRUE, "real", "rewound")
  /\ UNCHANGED <<tree, iter, copy, cfg, eof, play_tree_step, want, own>>
\* "Go back to the starting point.", then pt_iter_goto_head
Rewound ==
  /\ pc = "rewound"
  /\ IF res # "end"
     THEN Call("up", 0, TRUE, "real", "rewound") /\ UNCHANGED <<tree, iter>>
     ELSE /\ Replant(old)
          /\ iter' = [iter EXCEPT !.tree = Root]
          /\ Call("step", 0, FALSE, "real", "headed")
  /\ UNCHANGED <<copy, cfg, eof, play_tree_step, old, want, sends, cmds, told>>
Headed ==
  /\ pc = "headed" /\ Leave(PT_NEXT_SRC)
  /\ UNCHANGED <<tree, iter, copy, cfg, play_tree_step, old, want, sends, cmds, told>>
Stop(c) ==
  /\ Obey(c) /\ c.id = "stop" /\ Call("up", 0, TRUE, "real", "stopping")
  /\ UNCHANGED <<tree, iter, copy, cfg, eof, play_tree_step, old, want, own>>
Stopping ==
  /\ pc = "stopping"
  /\ IF res # "end" THEN Call("up", 0, TRUE, "real", "stopping") /\ UNCHANGED eof
     ELSE Leave(PT_STOP)
  /\ UNCHANGED <<tree, iter, copy, cfg, play_tree_step, old, want, sends, cmds, told>>
SetOption(c) ==
  /\ Obey(c) /\ c.id = "set"
  /\ cfg' = [cfg EXCEPT !.var = c.val] /\ own' = c.val
  /\ UNCHANGED <<tree, iter, copy, pc, call, res, eof, play_tree_step, old, want>>

\* goto_next_file
NextFile ==
  /\ pc = "next"
  /\ CASE eof \in {PT_NEXT_ENTRY, PT_PREV_ENTRY} ->
            Call("step", play_tree_step, FALSE, "real", "stepped") /\ UNCHANGED <<iter, eof>>
       [] eof \in {PT_UP_NEXT, PT_UP_PREV} ->
            /\ eof' = IF eof = PT_UP_NEXT THEN 1 ELSE -1
            /\ Call("up", eof', FALSE, "real", "upped") /\ UNCHANGED iter
       [] eof = PT_STOP -> Freed /\ Went
       [] OTHER -> /\ eof' = (IF eof = PT_PREV_SRC THEN -1 ELSE 1)
                   /\ pc' = "file" /\ Went /\ UNCHANGED iter
  /\ UNCHANGED <<tree, copy, cfg, play_tree_step, old, want, sends, cmds, told>>
Stepped ==
  /\ pc \in {"stepped", "upped"}
  /\ IF res = "entry" THEN eof' = 1 /\ pc' = "file" /\ UNCHANGED iter ELSE Freed
  /\ play_tree_step' = IF pc = "stepped" THEN 1 ELSE play_tree_step
  /\ accepted' = FALSE
  /\ Went /\ UNCHANGED <<tree, copy, cfg, old, want, sends, cmds, floor, base, own, plays>>
GetFile ==
  /\ pc = "file"
  /\ IF Sources(iter, eof) # {}
     THEN /\ \E f \in Sources(iter, eof) : iter' = [iter EXCEPT !.file = f]
          /\ pc' = "open" /\ eof' = 0 /\ Went
     ELSE Call("step", eof, FALSE, "real", "again") /\ UNCHANGED <<iter, eof>>
  /\ UNCHANGED <<tree, copy, cfg, play_tree_step, old, want, sends, cmds, told>>
NextAgain ==
  /\ pc = "again"
  /\ IF res = "entry" THEN pc' = "file" /\ UNCHANGED <<iter, eof>> ELSE Freed
  /\ Went /\ UNCHANGED <<tree, copy, cfg, play_tree_step, old, want, sends, cmds, told>>

Going ==
  \/ Started \/ OpenFails \/ Opens \/ OpenList \/ ListRead \/ Tried
  \/ Rewound \/ Headed \/ Stopping \/ NextFile \/ Stepped \/ GetFile \/ NextAgain
Told ==
  \E c \in sends :
    \/ IdleLoad(c) \/ IdleSet(c) \/ PtStep(c) \/ PtUpStep(c) \/ AltSrcStep(c)
    \/ LoadAppend(c) \/ Load(c) \/ Stop(c) \/ SetOption(c)

Next == IterStep \/ Going \/ FileEnds \/ Told

Spec     == Init /\ [][Next]_vars
FairSpec == Spec /\ WF_vars(IterStep \/ Going)

----------------------------------------------------------------------------
\* Lists that are trees: what a command line, a playlist and a loadfile must be
\* for the iterator to stay in the tree.

Distinct(s) == \A i, j \in DOMAIN s : s[i] = s[j] => i = j

\* Every node has one parent and one place, the root has none, entries have no
\* children, and what is not in the tree has none either.  The rank of a node is
\* above that of its children.
Falling(rank, k) == \A n \in Nodes : \A c \in Set(k[n]) : rank[c] < rank[n]
OneParent(k) == \A p, q \in Nodes : \A c \in Set(k[p]) : c \in Set(k[q]) => p = q
OnePlace(k)  == \A p \in Nodes : Distinct(k[p])
RootOnTop(k) == \A p \in Nodes : Root \notin Set(k[p])
Leaves(k)    == \A n \in Entries : k[n] = <<>>
Planted(k)   == \A n \in Nodes : k[n] # <<>> => n \in Subtree(k, Root)
Grows(rank, k) ==
  /\ k \in [Nodes -> Seq(Nodes)] /\ Falling(rank, k)
  /\ OneParent(k) /\ OnePlace(k) /\ RootOnTop(k) /\ Leaves(k) /\ Planted(k)

\* A shuffled list holds media files only, and gets no other by a command.
Media(n) == n \in Entries /\ Kind[n] # "list"
Calm(k, r, s) ==
  /\ r \in [Nodes -> BOOLEAN]
  /\ \A p \in Nodes : r[p] => p \notin Entries /\ \A c \in Set(k[p]) : Media(c)
  /\ \A c \in s : c.id \in {"load", "append"} => c.file \in Nodes /\ (r[Root] => Media(c.file))

\* What the parsers make of a playlist is a node with children of its own.
FitContent(rank) ==
  \A n \in Nodes :
    /\ Content[n] \in Seq(Nodes)
    /\ Distinct(Content[n])
    /\ n \in Entries => Content[n] = <<>>
    /\ \A c \in Set(Content[n]) : rank[c] < rank[n]

GrownBy(rank, t) == Grows(rank, Cleaned(t.kids)) /\ Calm(Cleaned(t.kids), t.rnd, t.sends)

\* For the options: no list is empty but the whole one, what a parser makes holds
\* entries only, a shuffled list has no options and is in none that has, and options
\* are given by their first names.
Fills(n)  == n \in Entries \/ Content[n] # <<>>
Filled(k) == \A p \in Nodes : \A c \in Set(k[p]) : c \in Entries \/ k[c] # <<>>
Plain(k, r, ps) == \A p \in Nodes : r[p] => \A x \in Nodes : p \in Subtree(k, x) => ps[x] = <<>>
FirstNames(ps)  == \A n \in Nodes : ps[n] # <<>> => ~ps[n][1].alias
FitSends(s) ==
  \A c \in s :
    /\ c.id \in {"load", "append"} => Fills(c.file)
    /\ c.id = "set" => c.val # NoValue
Filling ==
  \A n \in Nodes :
    /\ Set(Content[n]) \subseteq Entries
    /\ ListOf[n] # NoNode => Fills(ListOf[n])
FitOptions(t) ==
  /\ Filled(Cleaned(t.kids)) /\ Plain(Cleaned(t.kids), t.rnd, t.params)
  /\ FirstNames(t.params) /\ FitSends(t.sends)

\* For steps that are tried: the root has no loop count when some list is shuffled.
FitTries(t) == \A n \in Nodes : t.rnd[n] => t.loop[Root] = 0

\* For the orders that are asked for: the command line has no list that is empty, and
\* only the whole list may be shuffled, when it has no loop count.
FitOrders(t) ==
  /\ Cleaned(t.kids) = t.kids /\ Filled(t.kids) /\ t.loop \in [Nodes -> Int]
  /\ \A n \in Nodes : t.rnd[n] => n = Root /\ t.loop[n] = 0

----------------------------------------------------------------------------
\* Properties.

Live == pc # "idle"
Floors(n) ==
  LET Level[d \in Nat] == IF d = 0 THEN {Root} ELSE UNION {Set(kids[m]) : m \in Level[d - 1]}
  IN Level[n]

TypeOK ==
  /\ \A n \in Nodes : kids[n] \in Seq(Nodes)
  /\ {loop[n] : n \in Nodes} \subseteq Int
  /\ rnd \in [Nodes -> BOOLEAN] /\ played \in [Nodes -> BOOLEAN]
  /\ iter.tree \in Nodes \union {NoNode, "freed"} /\ iter.pushed \in {0, 1}
  /\ cfg.lvl \in Nat /\ cfg.slots \in Seq(Values) /\ cfg.var \in Values
  /\ res \in Results /\ eof \in -3 .. 4 /\ cmds \in 0 .. MaxCommands

\* Every level of options that was pushed is still to be popped: one for each
\* list the iterator is in and one for its entry.
LevelsBalanced ==
  Live => cfg.lvl = floor + Len(iter.stack) + iter.pushed

\* The iterator stands in the tree, as deep in it as its status stack, also
\* after a playlist has replaced its entry or a command the whole tree.
IteratorInTree ==
  Live => iter.tree = NoNode \/ iter.tree \in Floors(Len(iter.stack))

\* An entry is opened and played with its own options over those of the lists
\* it is in; a change made while it plays goes with it, and none is left in
\* an idle player.
Wanted(n) ==
  LET Of[m \in InTree] ==
        IF params[m] # <<>> THEN params[m][1].val
        ELSE IF m = Root THEN base ELSE Of[Parent(m)]
  IN Of[n]
OptionsAsListed ==
  /\ pc \in {"open", "play"} => cfg.var = IF own = NoValue THEN Wanted(iter.tree) ELSE own
  /\ pc = "idle" => cfg.var = base

\* Left alone, the player goes through the list as its loop counts and shuffle
\* flags ask, and is idle only when it has been through all of it.
PlaysAsAsked ==
  straight =>
    /\ \E o \in asked : Len(hist) <= Len(o) /\ hist = SubSeq(o, 1, Len(hist))
    /\ pc = "idle" => hist \in asked

\* A step that was tried on a copy and accepted finds its entry: it never ends
\* the list.
AcceptedStepPlays ==
  accepted /\ pc \in {"stepped", "upped"} => res = "entry"

\* With files that cannot be opened, loop counts, shuffled and replaced lists, the
\* player gets to the next file or is idle, unless a step back goes onto a group
\* that became empty (playtree.c:636): none does in the lists of the run.
PlayerGoesOn ==
  pc \notin {"open", "play", "idle"} ~> pc \in {"open", "play", "idle"}

\* A node that passes for an entry has files: `assert(pt->files != NULL)'.
EntryHasFiles == pc # "crash"
=============================================================================
