----------------------------- MODULE MCE1Framer -----------------------------
(***************************************************************************)
(* Model-checking instance of E1Framer: three kinds of far end, and one    *)
(* disturbance of a line with multiframes at any point.                    *)
(***************************************************************************)
EXTENDS E1Framer

Far(version, crc4, ra, err, trouble_) ==
  [version |-> version, crc4 |-> crc4, ra |-> ra, err |-> err, trouble |-> trouble_]

MCFarEnds == {Far("old", TRUE, FALSE, TRUE, 1),
              Far("new", TRUE, TRUE, FALSE, 1),
              Far("basic", TRUE, FALSE, FALSE, 0)}

MCOldFarEnd == {Far("old", TRUE, FALSE, FALSE, 1)}

=============================================================================
