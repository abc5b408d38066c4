------------------------------ MODULE MCE1Port ------------------------------
(***************************************************************************)
(* Model-checking instance of E1Port: zones of three or four multiframes   *)
(* of two frames, two descriptors in the core, packets of up to three      *)
(* frames, so that packets straddle multiframes and the end of the zone.   *)
(***************************************************************************)
EXTENDS E1Port
=============================================================================
