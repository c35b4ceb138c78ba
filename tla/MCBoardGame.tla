---------------------------- MODULE MCBoardGame ----------------------------
(* Small minoes for TLC: a dot and a vertical pair, which spawn in the      *)
(* middle column, and an elbow, which has something to rotate.              *)
EXTENDS BoardGame

XY(a, b) == [x |-> a, y |-> b]

Dot  == [minoId |-> 1, coords |-> {XY(0, 0)}]
Pair == [minoId |-> 2, coords |-> {XY(0, 0), XY(0, 1)}]
Elbow == [minoId |-> 3, coords |-> {XY(0, 0), XY(1, 0), XY(0, 1)}]

DotPair == {Dot, Pair}
DotPairElbow == {Dot, Pair, Elbow}
=============================================================================
