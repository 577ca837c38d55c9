-------------------------- MODULE MCLeafDiagnosis --------------------------
(* Small instances of LeafDiagnosis for TLC. *)
EXTENDS LeafDiagnosis

CONSTANTS p1, p2, b1, b2
=============================================================================
