------------------------------ MODULE MCIobuf ------------------------------
(* Four words of either memory, transfers of two and three of them.        *)
EXTENDS Iobuf

MCWords == 0 .. 3
MCLens == {2, 3}
=============================================================================
