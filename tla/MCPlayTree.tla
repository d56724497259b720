----------------------------- MODULE MCPlayTree -----------------------------
(* Small trees.  a .. d are media files, m has three sources, e is an empty  *)
(* playlist, p one of two files, x cannot be opened, y cannot be demuxed,    *)
(* g and h are groups, l and k what p and a loadlist are parsed to.          *)
EXTENDS PlayTree, TLC

MCNodes == {"root", "g", "h", "l", "k", "a", "b", "c", "d", "m", "e", "p", "x", "y", "u", "v"}
MCFiles ==
  [n \in MCNodes |-> IF n \in {"root", "g", "h", "l", "k"} THEN 0 ELSE IF n = "m" THEN 3 ELSE 1]
MCKind ==
  [n \in MCNodes |-> CASE n \in {"e", "p"} -> "list" [] n = "x" -> "broken"
                       [] n = "y" -> "nodemux" [] OTHER -> "media"]
MCListOf  == [n \in MCNodes |-> IF n = "p" THEN "l" ELSE "NULL"]
MCContent == [n \in MCNodes |-> CASE n = "l" -> <<"u", "v">> [] n = "k" -> <<"d", "p">> [] OTHER -> <<>>]

Tree(k, l, r, p, s) ==
  [kids   |-> k @@ [n \in MCNodes |-> <<>>],
   loop   |-> l @@ [n \in MCNodes |-> 0],
   rnd    |-> [n \in MCNodes |-> n \in r],
   params |-> p @@ [n \in MCNodes |-> <<>>],
   sends  |-> s]
Opt(v) == <<[alias |-> FALSE, val |-> v]>>
None   == [n \in {} |-> <<>>]
Same   == [n \in {} |-> 0]

Step(n, f) == [id |-> "pt_step", n |-> n, force |-> f]
Up(n, f)   == [id |-> "pt_up_step", n |-> n, force |-> f]
Alt(n)     == [id |-> "alt_src_step", n |-> n]
Loads(f)   == [id |-> "load", file |-> f]
Add(f)     == [id |-> "append", file |-> f]
Stopped    == [id |-> "stop"]
SetTo(v)   == [id |-> "set", val |-> v]

MCTrees ==
  {\* Groups with options, sources, a file that cannot be opened.
   Tree(("root" :> <<"g", "a", "x">>) @@ ("g" :> <<"b", "m">>), "g" :> 2, {},
        ("g" :> Opt("low")) @@ ("b" :> Opt("high")),
        {Step(0, TRUE), Step(-1, FALSE), Step(2, FALSE), Step(3, TRUE), Up(0, FALSE), Up(1, TRUE),
         Alt(1), Alt(-1), Loads("c"), Stopped, SetTo("high")}),
   \* Nested groups that are gone through more than once.
   Tree(("root" :> <<"g">>) @@ ("g" :> <<"h", "y">>) @@ ("h" :> <<"a", "b">>),
        ("root" :> 2) @@ ("h" :> 2), {}, ("h" :> Opt("low")) @@ ("y" :> Opt("high")),
        {Step(1, FALSE), Step(-1, FALSE), Up(1, FALSE), Up(-1, FALSE), Loads("k"), Add("d"), SetTo("high")}),
   \* A shuffled list.
   Tree("root" :> <<"a", "b", "c">>, Same, {"root"}, "b" :> Opt("low"),
        {Step(1, FALSE), Step(-1, FALSE), Step(2, TRUE), Loads("d"), Add("d"), Stopped}),
   \* Playlists in a list that is played for ever.
   Tree(("root" :> <<"a", "e", "p">>), "root" :> -1, {}, "p" :> Opt("low"),
        {Step(1, FALSE), Step(-1, FALSE), Up(1, FALSE), Loads("k"), Add("x"), SetTo("high")}),
   \* A group whose only entry is an empty playlist.
   Tree(("root" :> <<"g", "a">>) @@ ("g" :> <<"e">>), ("root" :> 2) @@ ("g" :> 2), {}, None,
        {Step(1, FALSE), Add("c")})}

\* The trees are what WellGrown asks for, but for the playlist that is empty.
MCRank ==
  [n \in MCNodes |-> CASE n = "root" -> 4 [] n = "g" -> 3 [] n \in {"h", "k"} -> 2
                       [] n \in {"l", "p"} -> 1 [] OTHER -> 0]
ASSUME MCGrown ==
  /\ \A n \in Nodes \ {Root} : MCRank[n] < MCRank[Root]
  /\ FitContent(MCRank) /\ \A t \in MCTrees : GrownBy(MCRank, t)
  /\ \A n \in Nodes : ListOf[n] # NoNode => MCRank[ListOf[n]] <= MCRank[n]
  /\ \A n \in Entries \ {"e"} : Kind[n] = "list" => ListOf[n] # NoNode
ASSUME MCFitting == Filling /\ \A t \in MCTrees : FitOptions(t) /\ FitTries(t) /\ FitOrders(t)

(* Trees on which a property fails, as the README tells.                      *)
\* EntryHasFiles: a group whose only entry is an empty playlist comes first.
MCEmptyFirst ==
  {Tree(("root" :> <<"g", "a">>) @@ ("g" :> <<"e">>), Same, {}, None, {Loads("c"), Stopped})}
\* OptionsAsListed: an option given under its second name, as -nosound for -aid.
MCSecondName ==
  {Tree("root" :> <<"a", "b">>, Same, {}, "a" :> <<[alias |-> TRUE, val |-> "low"]>>, {})}
\* OptionsAsListed: a shuffled list with options, all of it played.
MCShuffledOptions ==
  {Tree("root" :> <<"a", "b">>, Same, {"root"}, "root" :> Opt("low"), {})}
\* PlaysAsAsked: a shuffled group in a list, a group in a shuffled list, and a
\* shuffled list with a loop count.
MCShuffledGroups ==
  {Tree(("root" :> <<"g", "c">>) @@ ("g" :> <<"a", "b">>), Same, {shuffled}, None, {})
     : shuffled \in {"g", "root"}}
MCShuffledLoop == {Tree("root" :> <<"a", "b">>, "root" :> 2, {"root"}, None, {})}
\* AcceptedStepPlays: a step tried in a shuffled group of a list with a loop count.
MCShuffledTried ==
  {Tree(("root" :> <<"g", "c">>) @@ ("g" :> <<"b">>), "root" :> 2, {"g"}, None,
        {Step(1, FALSE), Up(1, FALSE)})}
\* PlayerGoesOn: back to the group whose playlist was empty.
MCBackToEmpty ==
  {Tree(("root" :> <<"g", "a">>) @@ ("g" :> <<"e">>), Same, {}, None, {Step(-1, FALSE)})}
\* IteratorInTree: nothing but an empty playlist, for ever, and a loadfile in a
\* shuffled group of a shuffled list.
MCOnlyEmpty == {Tree(("root" :> <<"g">>) @@ ("g" :> <<"e">>), "root" :> -1, {}, None, {})}
MCShuffledLoad ==
  {Tree(("root" :> <<"g", "c">>) @@ ("g" :> <<"a", "b">>), Same, {"g", "root"}, None, {Loads("d")})}
=============================================================================
