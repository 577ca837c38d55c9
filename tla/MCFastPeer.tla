----------------------------- MODULE MCFastPeer -----------------------------
(* Small instances of FastPeer for TLC. *)
EXTENDS FastPeer

CONSTANTS c1, c2

TwoPieces == {1, 2}
SecondPiece == {2}
OneBlockEach == [p \in Piece |-> 1]
=============================================================================
