---------------------------- MODULE MCCheckpoint ----------------------------
(* A small instance of Checkpoint for TLC: two files, four pieces, one of    *)
(* them across both files and one larger than the dirty limit.               *)
EXTENDS Checkpoint, TLC

CONSTANTS f1, f2

Pieces == {1, 2, 3, 4}
Files == {f1, f2}
Spans == [p \in Pieces |-> CASE p = 1 -> {f1} [] p = 2 -> {f1, f2} [] p = 3 -> {f2} [] OTHER -> {f1}]
Sizes == [p \in Pieces |-> CASE p = 1 -> 1 [] p = 2 -> 2 [] p = 3 -> 5 [] OTHER -> 3]
=============================================================================
