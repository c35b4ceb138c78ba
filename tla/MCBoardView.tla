----------------------------- MODULE MCBoardView -----------------------------
(* BoardView with Boards in which nothing has landed, or one row in reach   *)
(* of every mino.                                                           *)
EXTENDS BoardView

MCLanded == {{}, {0}}
=============================================================================
