-------------------------- MODULE MCStoragePipeline --------------------------
(* Three pieces, two of which may be verified without being downloaded.       *)
EXTENDS StoragePipeline

CONSTANTS p1, p2, p3

Three == {p1, p2, p3}
LastTwo == {p2, p3}
=============================================================================
