--------------------------- MODULE MCRowDropLoop ---------------------------
(* The loop never looks into a row, so one grid whose rows are all          *)
(* different stands for every grid.                                         *)
EXTENDS RowDropLoop

Numbered == {[r \in Rows |-> [x \in Cols |-> r + 1]]}
=============================================================================
