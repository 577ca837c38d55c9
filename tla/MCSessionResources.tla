------------------------- MODULE MCSessionResources -------------------------
(* Two torrents.  In the budgets run their blocks and pieces differ and one   *)
(* piece costs more than a quantum; in the panic run both pieces cost three.  *)
EXTENDS SessionResources

CONSTANTS big, small

Both == {big, small}
Blocks == [t \in Torrent |-> IF t = big THEN 2 ELSE 1]
Pieces == [t \in Torrent |-> IF t = big THEN 3 ELSE 2]
UnitBlocks == [t \in Torrent |-> 1]
LargePieces == [t \in Torrent |-> 3]
=============================================================================
