----------------------------- MODULE Checkpoint -----------------------------
(***************************************************************************)
(* The durability checkpoint of verified pieces: CheckpointBatchState      *)
(* (crates/rstorrent-engine/src/checkpoint.rs) and the checkpoint owner of *)
(* driver/storage_pipeline.rs (ContentCheckpointPipeline::enqueue,         *)
(* run_content_checkpoint_task, flush_content_checkpoint,                  *)
(* sync_checkpoint_targets).                                               *)
(*                                                                         *)
(* The torrent supervisor hands over each verified piece, after it got an  *)
(* item permit and byte permits.  The checkpoint task gathers pieces into  *)
(* a batch, syncs every file the batch touches, and only then commits the  *)
(* pieces' have bits.  The process may die at any moment: what was synced  *)
(* and what was committed survives, everything else is gone.               *)
(*                                                                         *)
(* Abstractions.  Time is the flag `aged`: the oldest piece of the batch   *)
(* has reached max_age.  The store's commit of a batch is atomic; when it  *)
(* reports an error it may have happened or not.                           *)
(***************************************************************************)
EXTENDS Integers, Sequences, FiniteSets, FiniteSetsExt

CONSTANTS
  Piece,           \* pieces that get verified
  Target,          \* durability targets: wanted files and the part file
  TargetsOf,       \* [Piece -> set of targets that hold the piece's bytes]
  Length,          \* [Piece -> bytes of the piece]
  Unit,            \* CHECKPOINT_BYTE_UNIT
  MaxDirty,        \* CHECKPOINT_MAX_DIRTY_BYTES
  MaxPieces,       \* CHECKPOINT_MAX_PIECES
  Capacity,        \* CHECKPOINT_INTENT_CAPACITY
  SyncConcurrency, \* CHECKPOINT_SYNC_CONCURRENCY
  MaxCrashes,      \* model bound on process deaths
  NoPiece

ASSUME PieceAssumption ==
  /\ IsFiniteSet(Piece) /\ NoPiece \notin Piece
  /\ TargetsOf \in [Piece -> SUBSET Target]
  /\ \A p \in Piece : TargetsOf[p] # {}
  /\ Length \in [Piece -> Nat \ {0}]
ASSUME LimitAssumption ==
  /\ {Unit, MaxDirty, MaxPieces, Capacity, SyncConcurrency} \subseteq Nat \ {0}
  /\ MaxDirty % Unit = 0 /\ MaxCrashes \in Nat

VARIABLES
  cached,   \* [Target -> pieces whose bytes the process has written there]
  synced,   \* [Target -> pieces whose bytes there survive a crash]
  durable,  \* committed have bits
  handed,   \* pieces the supervisor handed over in this process
  stage,    \* where the supervisor is in enqueue: idle, item, bytes, send, failed
  current,  \* the piece it is handing over
  items, bytes, \* free item and byte permits
  queue,    \* the intent channel
  open,     \* the supervisor still holds the sending end
  task,     \* waiting, syncing, committing, stopped or failed
  pending,  \* the intent a FlushBefore put back
  batch,    \* CheckpointBatchState.piece_indices
  dirty,    \* CheckpointBatchState.dirty_bytes
  aged,     \* the oldest piece of the batch reached max_age
  flushing, \* the pieces of the batch being flushed
  toSync,   \* its targets not synced yet
  syncing,  \* running sync calls: [target, pieces written before the call]
  broken,   \* a sync call failed
  crashes

supplyVars == <<handed, stage, current, open>>
batchVars == <<pending, batch, dirty, aged>>
flushVars == <<flushing, toSync, syncing, broken>>
permitVars == <<items, bytes>>
diskVars == <<cached, synced, durable>>
vars == <<diskVars, supplyVars, permitVars, queue, task, batchVars, flushVars, crashes>>

-----------------------------------------------------------------------------
ByteCapacity == MaxDirty \div Unit

\* mutant: the charge is rounded down
ChargeFloor(p) == Min({Length[p] \div Unit, ByteCapacity})

\* enqueue: byte permits of a piece, at most all of them
Charge(p) == Min({(Length[p] + Unit - 1) \div Unit, ByteCapacity})

Charges(P) == MapThenSumSet(Charge, P)
Queued == {queue[i] : i \in 1 .. Len(queue)}

\* pieces whose intent the checkpoint task holds, each with its permits
Owned == Queued \cup batch \cup flushing \cup ({pending} \ {NoPiece})

\* mutant: a piece across two files names only one of them
FirstTargets(P) == {CHOOSE t \in TargetsOf[p] : TRUE : p \in P}

\* CheckpointBatchState.targets: every target of the batch
BatchTargets(P) == UNION {TargetsOf[p] : p \in P}

-----------------------------------------------------------------------------
(* The supervisor: ContentCheckpointPipeline::enqueue, one piece at a time. *)

\* the piece is written and verified; the supervisor starts to hand it over
BeginEnqueue(p) ==
  /\ stage = "idle" /\ open /\ p \notin handed
  /\ cached' = [t \in Target |-> IF t \in TargetsOf[p] THEN cached[t] \cup {p} ELSE cached[t]]
  /\ stage' = "item" /\ current' = p
  /\ UNCHANGED <<synced, durable, handed, open, permitVars, queue, task, batchVars,
                 flushVars, crashes>>

AcquireItem ==
  /\ stage = "item" /\ items > 0
  /\ items' = items - 1 /\ stage' = "bytes"
  /\ UNCHANGED <<diskVars, handed, current, open, bytes, queue, task, batchVars,
                 flushVars, crashes>>

AcquireBytes ==
  /\ stage = "bytes" /\ bytes >= Charge(current)
  /\ bytes' = bytes - Charge(current) /\ stage' = "send"
  /\ UNCHANGED <<diskVars, handed, current, open, items, queue, task, batchVars,
                 flushVars, crashes>>

SendIntent ==
  /\ stage = "send" /\ task # "failed" /\ Len(queue) < Capacity
  /\ queue' = Append(queue, current)
  /\ handed' = handed \cup {current}
  /\ stage' = "idle" /\ current' = NoPiece
  /\ UNCHANGED <<diskVars, open, permitVars, task, batchVars, flushVars, crashes>>

\* the receiving end is gone: the error ends the torrent run
SendRefused ==
  /\ stage = "send" /\ task = "failed"
  /\ items' = items + 1 /\ bytes' = bytes + Charge(current)
  /\ stage' = "failed" /\ current' = NoPiece
  /\ UNCHANGED <<diskVars, handed, open, queue, task, batchVars, flushVars, crashes>>

\* shutdown drops the sending end
CloseIntents ==
  /\ stage \in {"idle", "failed"} /\ open /\ open' = FALSE
  /\ UNCHANGED <<diskVars, handed, stage, current, permitVars, queue, task,
                 batchVars, flushVars, crashes>>

-----------------------------------------------------------------------------
(* The checkpoint task. *)

\* flush_content_checkpoint takes the batch P and its targets
Take(P) ==
  /\ flushing' = P /\ toSync' = BatchTargets(P) /\ syncing' = {} /\ broken' = FALSE
  /\ batch' = {} /\ dirty' = 0 /\ aged' = FALSE
  /\ task' = "syncing"

\* the task returns an error: everything it holds is dropped
Fail ==
  /\ task' = "failed"
  /\ items' = items + Cardinality(Owned) /\ bytes' = bytes + Charges(Owned)
  /\ queue' = <<>> /\ pending' = NoPiece
  /\ batch' = {} /\ dirty' = 0 /\ aged' = FALSE
  /\ flushing' = {} /\ toSync' = {} /\ syncing' = {} /\ broken' = FALSE

\* CheckpointBatchState::admit answers FlushBefore
MustFlushBefore(p) ==
  /\ batch # {}
  /\ aged \/ Cardinality(batch) >= MaxPieces \/ dirty + Length[p] > MaxDirty

\* admit answers Ready
ReadyWith(p) == dirty + Length[p] >= MaxDirty \/ Cardinality(batch) + 1 >= MaxPieces

\* run_content_checkpoint_task admits the intent of p.  (DuplicatePiece cannot
\* arise: a piece is verified, and handed over, once per pipeline.)
Admit(p) ==
  \/ /\ MustFlushBefore(p) /\ Take(batch) /\ pending' = p
  \/ /\ ~MustFlushBefore(p) /\ ReadyWith(p) /\ Take(batch \cup {p}) /\ pending' = NoPiece
  \/ /\ ~MustFlushBefore(p) /\ ~ReadyWith(p)
     /\ batch' = batch \cup {p} /\ dirty' = dirty + Length[p] /\ pending' = NoPiece
     /\ UNCHANGED <<aged, task, flushVars>>

AdmitPending ==
  /\ task = "waiting" /\ pending # NoPiece
  /\ Admit(pending)
  /\ UNCHANGED <<diskVars, supplyVars, permitVars, queue, crashes>>

AdmitNext ==
  /\ task = "waiting" /\ pending = NoPiece /\ queue # <<>>
  /\ Admit(Head(queue)) /\ queue' = Tail(queue)
  /\ UNCHANGED <<diskVars, supplyVars, permitVars, crashes>>

\* mutant: the deadline of the batch passes unnoticed
NeverAges == batch # {} /\ ~aged /\ UNCHANGED vars

\* the clock: the oldest intent of the batch reaches max_age
Ages ==
  /\ batch # {} /\ ~aged /\ aged' = TRUE
  /\ UNCHANGED <<diskVars, supplyVars, permitVars, queue, task, pending, batch,
                 dirty, flushVars, crashes>>

\* the wait for another intent times out
FlushAged ==
  /\ task = "waiting" /\ pending = NoPiece /\ queue = <<>> /\ aged
  /\ Take(batch)
  /\ UNCHANGED <<diskVars, supplyVars, permitVars, queue, pending, crashes>>

\* the channel is closed and empty: the last flush
FlushClosed ==
  /\ task = "waiting" /\ pending = NoPiece /\ queue = <<>> /\ ~open /\ batch # {}
  /\ Take(batch)
  /\ UNCHANGED <<diskVars, supplyVars, permitVars, queue, pending, crashes>>

\* mutant: a closed channel ends the task whatever the batch holds
StopAtOnce ==
  /\ task = "waiting" /\ pending = NoPiece /\ queue = <<>> /\ ~open
  /\ task' = "stopped"
  /\ UNCHANGED <<diskVars, supplyVars, permitVars, queue, batchVars, flushVars, crashes>>

\* nothing is left to flush: the task returns
StopTask ==
  /\ task = "waiting" /\ pending = NoPiece /\ queue = <<>> /\ ~open /\ batch = {}
  /\ task' = "stopped"
  /\ UNCHANGED <<diskVars, supplyVars, permitVars, queue, batchVars, flushVars, crashes>>

\* sync_checkpoint_targets: at most SyncConcurrency calls, none after an error
StartSync(t) ==
  /\ task = "syncing" /\ t \in toSync /\ ~broken
  /\ Cardinality(syncing) < SyncConcurrency
  /\ toSync' = toSync \ {t}
  /\ syncing' = syncing \cup {[target |-> t, pieces |-> cached[t]]}
  /\ UNCHANGED <<diskVars, supplyVars, permitVars, queue, task, batchVars,
                 flushing, broken, crashes>>

FinishSync(s) ==
  /\ task = "syncing" /\ s \in syncing
  /\ syncing' = syncing \ {s}
  /\ \/ synced' = [synced EXCEPT ![s.target] = @ \cup s.pieces] /\ UNCHANGED broken
     \/ broken' = TRUE /\ UNCHANGED synced
  /\ UNCHANGED <<cached, durable, supplyVars, permitVars, queue, task, batchVars,
                 flushing, toSync, crashes>>

\* every target is synced
Synced ==
  /\ task = "syncing" /\ syncing = {} /\ toSync = {} /\ ~broken
  /\ task' = "committing"
  /\ UNCHANGED <<diskVars, supplyVars, permitVars, queue, batchVars, flushVars, crashes>>

\* a target has no handle or cannot be opened, or a sync call failed
SyncFailed ==
  /\ task = "syncing" /\ syncing = {} /\ (broken \/ toSync = BatchTargets(flushing))
  /\ Fail
  /\ UNCHANGED <<diskVars, supplyVars, crashes>>

\* mutant: the byte permits of a committed batch are kept
ReleaseItemsOnly(P) == items' = items + Cardinality(P) /\ bytes' = bytes

\* the permits of the intents in P are dropped
ReleasePermits(P) ==
  /\ items' = items + Cardinality(P)
  /\ bytes' = bytes + Charges(P)

\* pieces_durable, then the permits of the batch are dropped
Commit ==
  /\ task = "committing"
  /\ durable' = durable \cup flushing
  /\ ReleasePermits(flushing)
  /\ flushing' = {} /\ task' = "waiting"
  /\ UNCHANGED <<cached, synced, supplyVars, queue, batchVars, toSync, syncing,
                 broken, crashes>>

CommitFailed ==
  /\ task = "committing" /\ durable' \in {durable, durable \cup flushing}
  /\ Fail
  /\ UNCHANGED <<cached, synced, supplyVars, crashes>>

-----------------------------------------------------------------------------
\* the process dies and starts again: pieces without a committed bit are
\* downloaded again
Crash ==
  /\ crashes < MaxCrashes /\ crashes' = crashes + 1
  /\ cached' = synced /\ handed' = durable
  /\ stage' = "idle" /\ current' = NoPiece /\ open' = TRUE
  /\ items' = Capacity /\ bytes' = ByteCapacity /\ queue' = <<>>
  /\ task' = "waiting" /\ pending' = NoPiece
  /\ batch' = {} /\ dirty' = 0 /\ aged' = FALSE
  /\ flushing' = {} /\ toSync' = {} /\ syncing' = {} /\ broken' = FALSE
  /\ UNCHANGED <<synced, durable>>

Ended == task \in {"stopped", "failed"} /\ ~open /\ UNCHANGED vars

Init ==
  /\ cached = [t \in Target |-> {}] /\ synced = [t \in Target |-> {}]
  /\ durable = {} /\ handed = {}
  /\ stage = "idle" /\ current = NoPiece /\ open = TRUE
  /\ items = Capacity /\ bytes = ByteCapacity /\ queue = <<>>
  /\ task = "waiting" /\ pending = NoPiece
  /\ batch = {} /\ dirty = 0 /\ aged = FALSE
  /\ flushing = {} /\ toSync = {} /\ syncing = {} /\ broken = FALSE
  /\ crashes = 0

Supervisor == AcquireItem \/ AcquireBytes \/ SendIntent \/ SendRefused
TaskStep ==
  \/ AdmitPending \/ AdmitNext \/ FlushAged \/ FlushClosed \/ StopTask
  \/ Synced \/ SyncFailed \/ Commit \/ CommitFailed
SyncStep == (\E t \in Target : StartSync(t)) \/ (\E s \in syncing : FinishSync(s))

Next ==
  \/ \E p \in Piece : BeginEnqueue(p)
  \/ Supervisor \/ CloseIntents \/ TaskStep \/ SyncStep \/ Ages \/ Crash \/ Ended

(***************************************************************************)
(* Fairness: the supervisor's await and the checkpoint task are runnable   *)
(* futures of the tokio scheduler, a sync call on a blocking thread        *)
(* returns, and the clock advances.  Nothing obliges the supervisor to     *)
(* hand over more pieces or to shut down.                                  *)
(***************************************************************************)
Fairness == /\ WF_vars(Supervisor) /\ WF_vars(TaskStep)
            /\ WF_vars(SyncStep) /\ WF_vars(Ages)

Spec == Init /\ [][Next]_vars
FairSpec == Spec /\ Fairness

-----------------------------------------------------------------------------
(* Correctness. *)

\* Every variable has the shape of the Rust value it stands for.
TypeOK ==
  /\ cached \in [Target -> SUBSET Piece] /\ synced \in [Target -> SUBSET Piece]
  /\ durable \subseteq Piece /\ handed \subseteq Piece
  /\ stage \in {"idle", "item", "bytes", "send", "failed"}
  /\ current \in Piece \cup {NoPiece} /\ pending \in Piece \cup {NoPiece}
  /\ items \in 0 .. Capacity /\ bytes \in 0 .. ByteCapacity
  /\ queue \in Seq(Piece) /\ open \in BOOLEAN
  /\ task \in {"waiting", "syncing", "committing", "stopped", "failed"}
  /\ batch \subseteq Piece /\ dirty \in Nat /\ aged \in BOOLEAN
  /\ flushing \subseteq Piece /\ toSync \subseteq Target
  /\ syncing \subseteq [target : Target, pieces : SUBSET Piece]
  /\ broken \in BOOLEAN /\ crashes \in 0 .. MaxCrashes

(***************************************************************************)
(* A committed have bit is never ahead of its bytes: when the store says a *)
(* piece is durable, every file that holds part of it was synced after the *)
(* piece was written.  So a crash at any point, in the middle of a sync,   *)
(* between sync and commit, or after a failed flush, leaves no true bit    *)
(* over bytes that were lost.                                              *)
(***************************************************************************)
DurableIsSynced == \A p \in durable : \A t \in TargetsOf[p] : p \in synced[t]

(***************************************************************************)
(* No permit is lost or made: the free permits and those of the intents in *)
(* the supervisor's hands, the channel, the batch, the intent that was put *)
(* back and the flush add up to the capacity, on the error paths too.      *)
(***************************************************************************)
PermitsConserved ==
  LET holdsItem == IF stage \in {"bytes", "send"} THEN 1 ELSE 0
      holdsBytes == IF stage = "send" THEN Charge(current) ELSE 0
  IN /\ items + Cardinality(Owned) + holdsItem = Capacity
     /\ bytes + Charges(Owned) + holdsBytes = ByteCapacity

\* The state of the checkpoint task is well formed and no permit is lost or
\* returned twice, on every path of enqueue, flush, failure and shutdown.
PermitsSound == TypeOK /\ PermitsConserved

(***************************************************************************)
(* Verified pieces whose bits are not committed are bounded: together they *)
(* hold at most MaxDirty bytes, or one piece that is larger by itself; the *)
(* batch counts its bytes exactly.                                         *)
(***************************************************************************)
DirtyBounded ==
  /\ dirty = MapThenSumSet(LAMBDA p : Length[p], batch)
  /\ \/ MapThenSumSet(LAMBDA p : Length[p], Owned) <= MaxDirty
     \/ Cardinality(Owned) = 1

(***************************************************************************)
(* A clean shutdown commits every piece that was handed over before it:    *)
(* the closed channel is drained and the last batch flushed.               *)
(***************************************************************************)
CleanStopCommits == task = "stopped" => handed \subseteq durable

(***************************************************************************)
(* Every piece handed over is committed, even if no other piece follows,   *)
(* unless the checkpoint fails or the process dies; and the supervisor is  *)
(* never stuck waiting for permits although byte charges are rounded up    *)
(* and the batch alone may not reach its byte limit.                       *)
(***************************************************************************)
EventuallyDurable ==
  \A p \in Piece : p \in handed ~> (p \in durable \/ p \notin handed \/ task = "failed")
SupervisorReturns == stage = "bytes" ~> stage \in {"idle", "failed"}
CheckpointMoves == EventuallyDurable /\ SupervisorReturns
=============================================================================
