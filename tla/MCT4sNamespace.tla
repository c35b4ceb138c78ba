--------------------------- MODULE MCT4sNamespace ---------------------------
(* T4sNamespace with T4s of two names that ask for Boards of two sizes.     *)
EXTENDS T4sNamespace

MCSizeOf == [n \in Names |-> IF n = "a" THEN 1 ELSE 2]
=============================================================================
