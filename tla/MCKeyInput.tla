----------------------------- MODULE MCKeyInput -----------------------------
(* Small instances of KeyInput: a reports pushes, m is a mouse button, mm    *)
(* its double click, t a terminal key.                                      *)
EXTENDS KeyInput, TLC

MCDouble == "m" :> "mm"
MCBound  == {<<"a">>, <<"a", "m">>, <<"m">>, <<"mm">>, <<"t">>}
=============================================================================
