------------------------------ MODULE MCTracer ------------------------------
(* Small instances of TracerE1. *)
EXTENDS TracerE1

OneLine == {1}
BothLines == {0, 1}
=============================================================================
