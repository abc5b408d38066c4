----------------------------- MODULE MCE1Alarms -----------------------------
(***************************************************************************)
(* Model-checking instance of E1Alarms.                                    *)
(***************************************************************************)
EXTENDS E1Alarms

MCPlainLines == Line \ {"alarmed"}
MCAlarmedLines == {"framed", "alarmed"}
MCAlignedOrNot == {"noise", "framed"}

=============================================================================
