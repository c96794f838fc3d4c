--------------------------- MODULE MCRadarUnstage ---------------------------
(***************************************************************************)
(* Instances of RadarUnstage for TLC.                                      *)
(***************************************************************************)
EXTENDS RadarUnstage, TLC

CONSTANTS d1, d2

OneDay == {d1}
TwoDays == {d1, d2}

Symmetry == Permutations(Days)

=============================================================================
