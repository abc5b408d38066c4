------------------------------- MODULE MCGps -------------------------------
(* Small instances of Gps. *)
EXTENDS Gps

MCKinds == {"fix", "nofix", "open"}
MCTwoKinds == {"fix", "open"}
MCFillers == {0, 5}
=============================================================================
