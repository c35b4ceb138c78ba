--------------------------- MODULE MCT4sReconcile ---------------------------
(* T4sReconcile with small plans.  The specs differ in the size alone and   *)
(* in the wait and the Service.                                             *)
EXTENDS T4sReconcile

MCSpecs ==
  {[size |-> 1, wait |-> 1, service |-> 1],
   [size |-> 2, wait |-> 1, service |-> 1],
   [size |-> 1, wait |-> 2, service |-> 2]}

MCMinoes   == <<"mino">>
MCChildren == <<"Service">>
=============================================================================
