-------------------------- MODULE MCBoardReconcile --------------------------
(* The smallest board the CRD allows, with a single dot as the only mino,   *)
(* and players who turn it: their Actions keep the heartbeat's from being   *)
(* handled, and change nothing.                                             *)
EXTENDS BoardReconcile

OneDot == {[minoId |-> 1, coords |-> {[x |-> 0, y |-> 0]}]}

DownAndRotate == {"down", "rotate"}
=============================================================================
