------------------------- MODULE MCStorageExecution -------------------------
(* Three jobs of three torrents, two of them on one storage root.            *)
EXTENDS StorageExecution

CONSTANTS j1, j2, j3

Jobs == {j1, j2, j3}
Torrents == [j \in Job |-> CASE j = j1 -> "t" [] j = j2 -> "u" [] OTHER -> "v"]
Places == [j \in Job |-> IF j = j3 THEN "fast" ELSE "slow"]
=============================================================================
