------------------------- MODULE MCSelectiveStorage -------------------------
(* Small instances of SelectiveStorage for TLC. *)
EXTENDS SelectiveStorage

\* the first piece lies across two files, the second in the second file
TwoFiles == {<<1, 1>>, <<1, 2>>, <<2, 2>>}
OneShared == {<<1, 1>>, <<1, 2>>}
=============================================================================
