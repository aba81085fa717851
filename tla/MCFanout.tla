------------------------------- MODULE MCFanout -------------------------------
(* Small instances of Fanout for TLC. *)
EXTENDS Fanout

OneRow == {1}
TwoRows == {1, 2}
ThreeRows == {1, 2, 3}
OneText == {"t1"}
TwoTexts == {"t1", "t2"}
ThreeTexts == {"t1", "t2", "t3"}
OneSub == {"s1"}
TwoSubs == {"s1", "s2"}
SecondText == {"t2"}
Nothing == {}
Dead == {"s2"}
NoFaults == {}
OneHandler == {"h1"}
TwoHandlers == {"h1", "h2"}
AllFaults == {"raise", "kill"}
=============================================================================
