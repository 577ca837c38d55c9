------------------------------ MODULE MCSwarm ------------------------------
(* Small instances of Swarm for TLC. *)
EXTENDS Swarm

CONSTANTS c1, c2

OnePiece == {1}
TwoBlocksEach == [p \in Piece |-> 2]
=============================================================================
