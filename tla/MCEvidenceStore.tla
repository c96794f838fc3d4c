-------------------------- MODULE MCEvidenceStore --------------------------
(***************************************************************************)
(* Instances of EvidenceStore for TLC.                                     *)
(***************************************************************************)
EXTENDS EvidenceStore, TLC

CONSTANTS raw, products, gate, r1, r2, g1, g2, g3, g4

TwoFamilies == {raw, products}
OneFamily == {raw}
OneGate == {gate}
OneReader == {r1}
TwoReaders == {r1, r2}
ThreeGenerations == {g1, g2, g3}
FourGenerations == {g1, g2, g3, g4}
NoFamilies == {}

=============================================================================
