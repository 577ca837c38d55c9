--------------------------- MODULE LeafDiagnosis ---------------------------
(***************************************************************************)
(* Leaf diagnosis of v2 pieces (driver.rs: begin_leaf_diagnosis,           *)
(* finish_leaf_diagnosis_if_ready, fallback_leaf_diagnosis, the            *)
(* DiagnoseV2Piece completion and the diagnosis deadline of the run loop). *)
(*                                                                         *)
(* A piece that fails its hash is not thrown away at once: the stored      *)
(* blocks are hashed again by a storage job while authenticated leaf       *)
(* hashes are fetched from peers, and only the blocks that differ are      *)
(* downloaded again.  One piece is diagnosed at a time, and a deadline     *)
(* falls back to the whole piece.  The storage job names its piece but not *)
(* its generation, and it cannot be withdrawn: it completes late.          *)
(*                                                                         *)
(* Swarm leaves the outcome of a diagnosis open (FinishDiagnosis takes any *)
(* set of blocks); this module says which blocks it is.                    *)
(***************************************************************************)
EXTENDS Integers, FiniteSets

CONSTANTS
  Piece, Block,   \* pieces, and the blocks of each
  MaxGeneration,  \* model bound on the generations of a piece
  NoPiece

ASSUME DiagnosisAssumption ==
  /\ NoPiece \notin Piece /\ Block # {} /\ MaxGeneration \in Nat \ {0}

VARIABLES
  state,      \* [Piece -> downloading | hashing | diagnosing | verified]
  generation, \* [Piece -> Nat]
  missing,    \* [Piece -> blocks still to be stored]
  bad,        \* [Piece -> stored blocks whose bytes are corrupt]
  diagnosis,  \* leaf_diagnosis: the piece under diagnosis, or NoPiece
  known,      \* local_leaves is present
  leaves,     \* the blocks that local_leaves says are corrupt
  proofs,     \* every authenticated leaf range has arrived
  jobs,       \* DiagnoseV2Piece commands not executed: [piece, generation]
  done,       \* their completions: [piece, ok, bad]
  run         \* running, or failed

vars == <<state, generation, missing, bad, diagnosis, known, leaves, proofs, jobs,
          done, run>>
diagVars == <<diagnosis, known, leaves, proofs>>

-----------------------------------------------------------------------------
\* mutant: the generation is kept
ResetInPlace(p, B) ==
  /\ state' = [state EXCEPT ![p] = "downloading"]
  /\ missing' = [missing EXCEPT ![p] = B]
  /\ bad' = [bad EXCEPT ![p] = @ \ B]
  /\ UNCHANGED generation

\* mark_piece_hash_failed_blocks: the blocks B of p start over
Reset(p, B) ==
  /\ state' = [state EXCEPT ![p] = "downloading"]
  /\ generation' = [generation EXCEPT ![p] = @ + 1]
  /\ missing' = [missing EXCEPT ![p] = B]
  /\ bad' = [bad EXCEPT ![p] = @ \ B]

NoDiagnosis == diagnosis' = NoPiece /\ known' = FALSE /\ leaves' = {} /\ proofs' = FALSE

\* mutant: the diagnosis is dropped without resetting its piece
Forget == NoDiagnosis /\ UNCHANGED <<state, generation, missing, bad>>

\* fallback_leaf_diagnosis: the whole piece starts over
Fallback == Reset(diagnosis, Block) /\ NoDiagnosis

\* finish_leaf_diagnosis_if_ready once both sides are present
Finish(L) ==
  IF L = {} THEN Fallback
  ELSE Reset(diagnosis, L) /\ NoDiagnosis

-----------------------------------------------------------------------------
\* a block of the piece arrives, is stored and, if it was the last one, the
\* piece is hashed; the peer may have sent corrupt bytes
StoreBlock(p, b, corrupt) ==
  /\ run = "running" /\ state[p] = "downloading" /\ b \in missing[p]
  /\ corrupt => generation[p] < MaxGeneration
  /\ missing' = [missing EXCEPT ![p] = @ \ {b}]
  /\ bad' = IF corrupt THEN [bad EXCEPT ![p] = @ \cup {b}] ELSE bad
  /\ state' = IF missing[p] = {b} THEN [state EXCEPT ![p] = "hashing"] ELSE state
  /\ UNCHANGED <<generation, diagVars, jobs, done, run>>

\* the piece hash completes
Verified(p) ==
  /\ run = "running" /\ state[p] = "hashing" /\ bad[p] = {}
  /\ state' = [state EXCEPT ![p] = "verified"]
  /\ UNCHANGED <<generation, missing, bad, diagVars, jobs, done, run>>

\* the hash failed while another piece is under diagnosis
HashFailed(p) ==
  /\ run = "running" /\ state[p] = "hashing" /\ bad[p] # {} /\ diagnosis # NoPiece
  /\ Reset(p, Block)
  /\ UNCHANGED <<diagVars, jobs, done, run>>

BeginDiagnosis(p) ==
  /\ run = "running" /\ state[p] = "hashing" /\ bad[p] # {} /\ diagnosis = NoPiece
  /\ state' = [state EXCEPT ![p] = "diagnosing"]
  /\ diagnosis' = p /\ known' = FALSE /\ leaves' = {} /\ proofs' = FALSE
  /\ jobs' = jobs \cup {[piece |-> p, generation |-> generation[p]]}
  /\ UNCHANGED <<generation, missing, bad, done, run>>

\* a storage job reads the piece as it is now, or fails to; from the read to
\* the handling of its completion any time may pass (jobs run concurrently)
ExecuteDiagnosis(j) ==
  /\ run = "running" /\ j \in jobs /\ jobs' = jobs \ {j}
  /\ \E ok \in BOOLEAN :
       done' = done \cup {[piece |-> j.piece, ok |-> ok, generation |-> j.generation,
                           bad |-> IF ok THEN bad[j.piece] ELSE {}]}
  /\ UNCHANGED <<state, generation, missing, bad, diagVars, run>>

\* the last leaf range is authenticated
ProofsComplete ==
  /\ run = "running" /\ diagnosis # NoPiece /\ ~proofs
  /\ IF known THEN Finish(leaves)
     ELSE proofs' = TRUE /\ UNCHANGED <<state, generation, missing, bad, diagnosis,
                                         known, leaves>>
  /\ UNCHANGED <<jobs, done, run>>

\* handle_storage_completion, DiagnoseV2Piece: leaves for the current piece
TakeLeaves(d) ==
  /\ run = "running" /\ d \in done /\ diagnosis = d.piece /\ d.ok
  /\ done' = done \ {d}
  /\ IF proofs THEN Finish(d.bad)
     ELSE known' = TRUE /\ leaves' = d.bad
          /\ UNCHANGED <<state, generation, missing, bad, diagnosis, proofs>>
  /\ UNCHANGED <<jobs, run>>

\* the storage job failed: the whole piece starts over
LeafHashingFailed(d) ==
  /\ run = "running" /\ d \in done /\ diagnosis = d.piece /\ ~d.ok
  /\ done' = done \ {d} /\ Fallback
  /\ UNCHANGED <<jobs, run>>

\* no diagnosis is under way: the completion is ignored
IgnoreLeaves(d) ==
  /\ run = "running" /\ d \in done /\ diagnosis = NoPiece
  /\ done' = done \ {d}
  /\ UNCHANGED <<state, generation, missing, bad, diagVars, jobs, run>>

\* another piece is under diagnosis: StorageTask error, the torrent run ends
ForeignLeaves(d) ==
  /\ run = "running" /\ d \in done /\ diagnosis \notin {NoPiece, d.piece}
  /\ done' = done \ {d} /\ run' = "failed"
  /\ UNCHANGED <<state, generation, missing, bad, diagVars, jobs>>

\* mutant: no deadline
NoDeadline == FALSE /\ UNCHANGED vars

\* V2_LEAF_DIAGNOSIS_TIMEOUT
Deadline ==
  /\ run = "running" /\ diagnosis # NoPiece
  /\ Fallback
  /\ UNCHANGED <<jobs, done, run>>

Idle == (run = "failed" \/ \A p \in Piece : state[p] = "verified") /\ UNCHANGED vars

Init ==
  /\ state = [p \in Piece |-> "downloading"]
  /\ generation = [p \in Piece |-> 1]
  /\ missing = [p \in Piece |-> Block] /\ bad = [p \in Piece |-> {}]
  /\ diagnosis = NoPiece /\ known = FALSE /\ leaves = {} /\ proofs = FALSE
  /\ jobs = {} /\ done = {} /\ run = "running"

Next ==
  \/ \E p \in Piece : \/ Verified(p) \/ HashFailed(p) \/ BeginDiagnosis(p)
                      \/ \E b \in Block, corrupt \in BOOLEAN : StoreBlock(p, b, corrupt)
  \/ \E j \in jobs : ExecuteDiagnosis(j)
  \/ \E d \in done : \/ TakeLeaves(d) \/ LeafHashingFailed(d)
                     \/ IgnoreLeaves(d) \/ ForeignLeaves(d)
  \/ ProofsComplete \/ Deadline \/ Idle

Spec == Init /\ [][Next]_vars

(***************************************************************************)
(* Fairness: the run loop compares the deadline with the clock on every    *)
(* turn, and it is woken at least by its maintenance tick.                 *)
(***************************************************************************)
FairSpec == Spec /\ WF_vars(Deadline)

-----------------------------------------------------------------------------
\* Every variable has the shape of the driver state it stands for; the fields of
\* a diagnosis exist only while there is one.
TypeOK ==
  /\ state \in [Piece -> {"downloading", "hashing", "diagnosing", "verified"}]
  /\ generation \in [Piece -> Nat \ {0}]
  /\ missing \in [Piece -> SUBSET Block] /\ bad \in [Piece -> SUBSET Block]
  /\ diagnosis \in Piece \cup {NoPiece} /\ known \in BOOLEAN /\ proofs \in BOOLEAN
  /\ leaves \subseteq Block
  /\ diagnosis = NoPiece => ~known /\ ~proofs /\ leaves = {}
  /\ jobs \subseteq [piece : Piece, generation : Nat]
  /\ done \subseteq [piece : Piece, ok : BOOLEAN, generation : Nat, bad : SUBSET Block]
  /\ run \in {"running", "failed"}

(***************************************************************************)
(* A failed piece is never left without an owner: it is under diagnosis    *)
(* exactly while the diagnosis names it, and otherwise its blocks are      *)
(* being downloaded, hashed, or done, whatever stale completion arrives.   *)
(***************************************************************************)
FailedPieceOwned ==
  \A p \in Piece :
    /\ state[p] = "diagnosing" <=> diagnosis = p
    /\ (state[p] = "downloading") = (missing[p] # {})
    /\ state[p] = "verified" => bad[p] = {}

(***************************************************************************)
(* A diagnosis ends: peers that never deliver leaf hashes and a storage    *)
(* job that never completes cannot stall the piece.                        *)
(***************************************************************************)
DiagnosisEnds == diagnosis # NoPiece ~> (diagnosis = NoPiece \/ run = "failed")

(***************************************************************************)
(* Leaves read for the generation that is under diagnosis are those of the *)
(* bytes on disk: from the read to the comparison no block of the piece is *)
(* replaced, so only corrupt blocks start over and only their senders are  *)
(* blamed (docs/tactical/155: "only contributors of authenticated bad      *)
(* blocks receive known-bad evidence").  TakeLeaves does not look at the   *)
(* generation, so nothing of the kind holds for a job begun earlier.       *)
(***************************************************************************)
FreshLeavesExact ==
  \A d \in done :
    d.ok /\ diagnosis = d.piece /\ d.generation = generation[d.piece] =>
      d.bad = bad[d.piece]
=============================================================================
