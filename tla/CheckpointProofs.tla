-------------------------- MODULE CheckpointProofs --------------------------
(***************************************************************************)
(* Proofs about Checkpoint for every set of pieces and files, every limit  *)
(* and any number of process deaths: a committed have bit is never ahead   *)
(* of its bytes, a clean shutdown commits every piece handed over, no      *)
(* permit is lost or returned twice, and what is verified but not          *)
(* committed is bounded.                                                   *)
(*                                                                         *)
(* The last two rest on sums over sets of pieces.  MapThenSumSet is a      *)
(* CHOOSE of a recursive function; Induction and SubsetInduction (from the *)
(* least element of a set of numbers) show that the function exists, that  *)
(* a sum does not depend on the order of its elements, and how it grows.   *)
(***************************************************************************)
EXTENDS Checkpoint, FiniteSetTheorems, WellFoundedInduction, TLAPS

-----------------------------------------------------------------------------
(* The inductive invariant. *)

Shape ==
  /\ cached \in [Target -> SUBSET Piece] /\ synced \in [Target -> SUBSET Piece]
  /\ durable \subseteq Piece /\ handed \subseteq Piece
  /\ stage \in {"idle", "item", "bytes", "send", "failed"}
  /\ current \in Piece \cup {NoPiece} /\ pending \in Piece \cup {NoPiece}
  /\ stage \in {"item", "bytes", "send"} => current \in Piece
  /\ queue \in Seq(Piece) /\ open \in BOOLEAN
  /\ task \in {"waiting", "syncing", "committing", "stopped", "failed"}
  /\ batch \subseteq Piece /\ flushing \subseteq Piece
  /\ toSync \subseteq Target /\ broken \in BOOLEAN
  /\ syncing \subseteq [target : Target, pieces : SUBSET Piece]

\* the pieces somebody holds an intent for
Held == Owned \cup ({current} \ {NoPiece})

\* the bytes of a held piece were written in this process
HeldIsCached == \A p \in Held : \A t \in TargetsOf[p] : p \in cached[t]

\* while a batch is synced each of its targets waits, is being synced with the
\* piece's bytes written before the call, or is done; a failure is remembered
FlushOnTrack ==
  task = "syncing" =>
    \A p \in flushing : \A t \in TargetsOf[p] :
      \/ broken \/ t \in toSync \/ p \in synced[t]
      \/ \E s \in syncing : s.target = t /\ p \in s.pieces

FlushSynced ==
  task = "committing" => \A p \in flushing : \A t \in TargetsOf[p] : p \in synced[t]

\* nothing handed over is forgotten while the task lives
HandedIsKept == task # "failed" => handed \subseteq durable \cup Owned

\* a closed channel has no sender, a waiting task flushes nothing, and a task
\* that stopped has nothing left
ChannelClosed ==
  /\ ~open => stage \in {"idle", "failed"}
  /\ task \in {"waiting", "stopped"} => flushing = {}
  /\ task = "stopped" => ~open /\ queue = <<>> /\ batch = {} /\ pending = NoPiece

DurabilityInv ==
  /\ Shape /\ HeldIsCached /\ FlushOnTrack /\ FlushSynced /\ DurableIsSynced
  /\ HandedIsKept /\ ChannelClosed

-----------------------------------------------------------------------------
(* The intent channel as the set of pieces in it. *)

\* Sending a piece adds it to the channel's pieces.
LEMMA QueuedAppend ==
  ASSUME NEW q \in Seq(Piece), NEW p \in Piece
  PROVE  /\ Append(q, p) \in Seq(Piece)
         /\ {Append(q, p)[i] : i \in 1 .. Len(Append(q, p))}
              = {q[i] : i \in 1 .. Len(q)} \cup {p}
<1>1. /\ Append(q, p) \in Seq(Piece) /\ Len(Append(q, p)) = Len(q) + 1
      /\ \A i \in 1 .. Len(q) : Append(q, p)[i] = q[i]
      /\ Append(q, p)[Len(q) + 1] = p /\ Len(q) \in Nat
  OBVIOUS
<1>2. 1 .. (Len(q) + 1) = (1 .. Len(q)) \cup {Len(q) + 1}
  BY <1>1
<1> QED BY <1>1, <1>2

\* Receiving takes the head out of the channel's pieces.
LEMMA QueuedTail ==
  ASSUME NEW q \in Seq(Piece), q # <<>>
  PROVE  /\ Head(q) \in Piece /\ Tail(q) \in Seq(Piece)
         /\ {q[i] : i \in 1 .. Len(q)}
              = {Head(q)} \cup {Tail(q)[i] : i \in 1 .. Len(Tail(q))}
<1>1. /\ Head(q) = q[1] /\ Tail(q) \in Seq(Piece) /\ Len(Tail(q)) = Len(q) - 1
      /\ \A i \in 1 .. Len(Tail(q)) : Tail(q)[i] = q[i + 1]
      /\ Len(q) \in Nat \ {0}
      /\ \A i \in 1 .. Len(q) : q[i] \in Piece
  OBVIOUS
<1>2. \A i \in 1 .. Len(q) : i = 1 \/ (i - 1 \in 1 .. Len(Tail(q)) /\ Tail(q)[i - 1] = q[i])
  BY <1>1
<1> DEFINE rest == {Tail(q)[i] : i \in 1 .. Len(Tail(q))}
<1>3. \A i \in 1 .. Len(q) : q[i] \in {Head(q)} \cup rest
  BY <1>1, <1>2
<1>4. \A i \in 1 .. Len(Tail(q)) : i + 1 \in 1 .. Len(q)
  BY <1>1
<1>5. \A x \in rest : \E i \in 1 .. Len(q) : x = q[i]
  BY <1>1, <1>4
<1>6. \E i \in 1 .. Len(q) : Head(q) = q[i]
  BY <1>1
<1> HIDE DEF rest
<1>7. {q[i] : i \in 1 .. Len(q)} = {Head(q)} \cup rest
  BY <1>3, <1>5, <1>6
<1> QED BY <1>1, <1>7 DEF rest
-----------------------------------------------------------------------------
(* The invariant holds initially and is kept by every step. *)

\* Nothing is held, flushed or committed when the pipeline starts.
LEMMA InitDurabilityInv == Init => DurabilityInv
<1> SUFFICES ASSUME Init PROVE DurabilityInv
  OBVIOUS
<1>1. Queued = {} /\ queue \in Seq(Piece)
  BY DEF Init, Queued
<1>2. Owned = {} /\ Held = {}
  BY <1>1 DEF Init, Owned, Held
<1> QED
  BY <1>1, <1>2 DEF Init, DurabilityInv, Shape, HeldIsCached, FlushOnTrack, FlushSynced,
     DurableIsSynced, HandedIsKept, ChannelClosed

\* The steps of the supervisor.
LEMMA SupplyStep ==
  ASSUME DurabilityInv, (\E p \in Piece : BeginEnqueue(p)) \/ Supervisor \/ CloseIntents
  PROVE  DurabilityInv'
<1> USE PieceAssumption
<1>1. ASSUME NEW p \in Piece, BeginEnqueue(p) PROVE DurabilityInv'
  <2>1. Owned' = Owned /\ Held' \subseteq Held \cup {p}
    BY <1>1 DEF BeginEnqueue, Owned, Held, Queued, batchVars, flushVars
  <2>2. \A t \in Target : cached[t] \subseteq cached'[t]
    BY <1>1 DEF BeginEnqueue, DurabilityInv, Shape
  <2>3. \A t \in TargetsOf[p] : p \in cached'[t]
    BY <1>1 DEF BeginEnqueue, DurabilityInv, Shape
  <2>4. Shape'
    BY <1>1 DEF BeginEnqueue, DurabilityInv, Shape, batchVars, flushVars
  <2>5. HeldIsCached'
    <3>1. \A r \in Held : r \in Piece
      BY DEF Held, Owned, Queued, DurabilityInv, Shape
    <3> QED
      BY <2>1, <2>2, <2>3, <3>1 DEF DurabilityInv, HeldIsCached
  <2> QED
    BY <1>1, <2>1, <2>4, <2>5 DEF BeginEnqueue, DurabilityInv, FlushOnTrack, FlushSynced,
       DurableIsSynced, HandedIsKept, ChannelClosed, batchVars, flushVars
<1>2. CASE AcquireItem \/ AcquireBytes
  <2>1. Owned' = Owned /\ Held' = Held
    BY <1>2 DEF AcquireItem, AcquireBytes, Owned, Held, Queued, batchVars, flushVars
  <2> QED
    BY <1>2, <2>1 DEF AcquireItem, AcquireBytes, DurabilityInv, Shape, HeldIsCached, FlushOnTrack,
       FlushSynced, DurableIsSynced, HandedIsKept, ChannelClosed, diskVars, batchVars, flushVars
<1>3. CASE SendIntent
  <2>1. current \in Piece
    BY <1>3 DEF SendIntent, DurabilityInv, Shape
  <2>2. queue' \in Seq(Piece) /\ Queued' = Queued \cup {current}
    BY <1>3, <2>1, QueuedAppend DEF SendIntent, DurabilityInv, Shape, Queued
  <2>3. Owned' = Owned \cup {current} /\ Held' = Held
    BY <1>3, <2>1, <2>2 DEF SendIntent, Owned, Held, batchVars, flushVars
  <2> QED
    BY <1>3, <2>1, <2>2, <2>3 DEF SendIntent, DurabilityInv, Shape, HeldIsCached, FlushOnTrack,
       FlushSynced, DurableIsSynced, HandedIsKept, ChannelClosed, diskVars, batchVars, flushVars
<1>4. CASE SendRefused
  <2>1. Owned' = Owned /\ Held' \subseteq Held
    BY <1>4 DEF SendRefused, Owned, Held, Queued, batchVars, flushVars
  <2> QED
    BY <1>4, <2>1 DEF SendRefused, DurabilityInv, Shape, HeldIsCached, FlushOnTrack, FlushSynced,
       DurableIsSynced, HandedIsKept, ChannelClosed, diskVars, batchVars, flushVars
<1>5. CASE CloseIntents
  <2>1. Owned' = Owned /\ Held' = Held
    BY <1>5 DEF CloseIntents, Owned, Held, Queued, batchVars, flushVars
  <2>2. Shape'
    BY <1>5 DEF CloseIntents, DurabilityInv, Shape, diskVars, batchVars, flushVars
  <2>3. ChannelClosed'
    BY <1>5 DEF CloseIntents, DurabilityInv, Shape, ChannelClosed, batchVars, flushVars
  <2> QED
    BY <1>5, <2>1, <2>2, <2>3 DEF CloseIntents, DurabilityInv, HeldIsCached, FlushOnTrack,
       FlushSynced, DurableIsSynced, HandedIsKept, diskVars, batchVars, flushVars
<1> QED BY <1>1, <1>2, <1>3, <1>4, <1>5 DEF Supervisor

\* A batch whose targets are taken with it is on track to be synced.
LEMMA TakeStep ==
  ASSUME NEW P \in SUBSET Piece, Take(P)
  PROVE  /\ FlushOnTrack'
         /\ batch' = {} /\ flushing' = P /\ toSync' \subseteq Target
         /\ syncing' = {} /\ broken' \in BOOLEAN /\ task' = "syncing"
<1>1. BatchTargets(P) \subseteq Target
  BY PieceAssumption DEF BatchTargets
<1>2. broken' \in BOOLEAN
  BY DEF Take
<1> QED BY <1>1, <1>2 DEF Take, FlushOnTrack, BatchTargets

\* The checkpoint task gathers pieces, takes a batch, or stops.
LEMMA GatherStep ==
  ASSUME DurabilityInv, AdmitPending \/ AdmitNext \/ FlushAged \/ FlushClosed \/ StopTask \/ Ages
  PROVE  DurabilityInv'
<1> USE PieceAssumption
<1>1. ASSUME NEW p \in Piece, Admit(p), DurabilityInv,
             task = "waiting", p \in Owned, Owned' = Owned, queue' \in Seq(Piece),
             UNCHANGED <<diskVars, supplyVars, permitVars, crashes>>
      PROVE  DurabilityInv'
  <2>1. Held' = Held
    BY <1>1 DEF Held, supplyVars
  <2>2. /\ pending' \in Piece \cup {NoPiece}
        /\ \/ Take(batch) \/ Take(batch \cup {p})
           \/ batch' = batch \cup {p} /\ UNCHANGED <<task, flushing, toSync, syncing, broken>>
    BY <1>1 DEF Admit, flushVars
  <2>3. batch \in SUBSET Piece /\ batch \cup {p} \in SUBSET Piece
    BY <1>1 DEF DurabilityInv, Shape
  <2>4. /\ batch' \subseteq Piece /\ flushing' \subseteq Piece /\ toSync' \subseteq Target
        /\ broken' \in BOOLEAN /\ task' \in {"waiting", "syncing"}
        /\ syncing' \subseteq [target : Target, pieces : SUBSET Piece]
        /\ FlushOnTrack'
    <3>1. CASE Take(batch) BY <3>1, <2>3, TakeStep
    <3>2. CASE Take(batch \cup {p}) BY <3>2, <2>3, TakeStep
    <3>3. CASE batch' = batch \cup {p} /\ UNCHANGED <<task, flushing, toSync, syncing, broken>>
      BY <1>1, <3>3, <2>3 DEF DurabilityInv, Shape, FlushOnTrack
    <3> QED BY <2>2, <3>1, <3>2, <3>3
  <2>5. Shape'
    BY <1>1, <2>2, <2>4 DEF DurabilityInv, Shape, diskVars, supplyVars
  <2>6. FlushOnTrack'
    BY <2>4
  <2>7. FlushSynced' /\ ChannelClosed'
    BY <1>1 DEF Admit, Take, FlushSynced, ChannelClosed, DurabilityInv, Shape, supplyVars, flushVars
  <2> QED
    BY <1>1, <2>1, <2>5, <2>6, <2>7 DEF DurabilityInv, HeldIsCached, DurableIsSynced,
       HandedIsKept, diskVars, supplyVars
<1>2. CASE AdmitPending
  <2>1. pending \in Piece /\ flushing = {}
    BY <1>2 DEF AdmitPending, DurabilityInv, Shape, ChannelClosed
  <2>2. Owned' = Owned /\ pending \in Owned
    BY <1>2, <2>1 DEF AdmitPending, Admit, Take, Owned, Queued, flushVars
  <2> QED
    BY <1>1, <1>2, <2>1, <2>2 DEF AdmitPending, DurabilityInv, Shape
<1>3. CASE AdmitNext
  <2>1. flushing = {} /\ pending = NoPiece /\ queue \in Seq(Piece) /\ queue # <<>>
    BY <1>3 DEF AdmitNext, DurabilityInv, Shape, ChannelClosed
  <2>2. Head(queue) \in Piece /\ queue' \in Seq(Piece) /\ Queued = {Head(queue)} \cup Queued'
    BY <1>3, <2>1, QueuedTail DEF AdmitNext, Queued
  <2>3. Owned' = Owned /\ Head(queue) \in Owned
    BY <1>3, <2>1, <2>2 DEF AdmitNext, Admit, Take, Owned, flushVars
  <2> QED
    BY <1>1, <1>3, <2>1, <2>2, <2>3 DEF AdmitNext
<1>4. CASE FlushAged \/ FlushClosed
  <2>1. flushing = {} /\ Take(batch) /\ batch \in SUBSET Piece
    BY <1>4 DEF FlushAged, FlushClosed, DurabilityInv, Shape, ChannelClosed
  <2>2. Owned' = Owned /\ Held' = Held
    BY <1>4, <2>1 DEF FlushAged, FlushClosed, Take, Owned, Held, Queued, supplyVars
  <2>3. FlushOnTrack'
    BY <2>1, TakeStep
  <2>4. Shape'
    BY <1>4, <2>1, TakeStep DEF FlushAged, FlushClosed, DurabilityInv, Shape, diskVars, supplyVars
  <2> QED
    BY <1>4, <2>1, <2>2, <2>3, <2>4 DEF FlushAged, FlushClosed, Take, DurabilityInv, Shape,
       HeldIsCached, FlushSynced, DurableIsSynced, HandedIsKept, ChannelClosed, diskVars, supplyVars
<1>5. CASE StopTask
  <2>1. Owned' = Owned /\ Held' = Held
    BY <1>5 DEF StopTask, Owned, Held, Queued, supplyVars, batchVars, flushVars
  <2> QED
    BY <1>5, <2>1 DEF StopTask, DurabilityInv, Shape, HeldIsCached, FlushOnTrack, FlushSynced,
       DurableIsSynced, HandedIsKept, ChannelClosed, diskVars, supplyVars, batchVars, flushVars
<1>6. CASE Ages
  <2>1. Owned' = Owned /\ Held' = Held
    BY <1>6 DEF Ages, Owned, Held, Queued, supplyVars, flushVars
  <2> QED
    BY <1>6, <2>1 DEF Ages, DurabilityInv, Shape, HeldIsCached, FlushOnTrack, FlushSynced,
       DurableIsSynced, HandedIsKept, ChannelClosed, diskVars, supplyVars, flushVars
<1> QED BY <1>2, <1>3, <1>4, <1>5, <1>6

\* Dropping every intent, on an error or at a crash, leaves nothing to prove
\* but that the committed bits are covered.
LEMMA DroppedIsSafe ==
  ASSUME Shape', DurableIsSynced', task' \in {"waiting", "failed"},
         queue' = <<>>, pending' = NoPiece, batch' = {}, flushing' = {},
         \A t \in TargetsOf[current'] : current' = NoPiece \/ current' \in cached'[t],
         task' # "failed" => handed' \subseteq durable',
         ~open' => stage' \in {"idle", "failed"}
  PROVE  DurabilityInv'
<1>1. Owned' = {} /\ Held' = {current'} \ {NoPiece}
  BY DEF Owned, Held, Queued
<1> QED
  BY <1>1 DEF DurabilityInv, HeldIsCached, FlushOnTrack, FlushSynced, HandedIsKept, ChannelClosed

\* The task fails.
LEMMA FailStep ==
  ASSUME DurabilityInv, Fail, DurableIsSynced', durable' \subseteq Piece,
         UNCHANGED <<cached, synced, supplyVars>>
  PROVE  DurabilityInv'
<1>1. broken' \in BOOLEAN
  BY DEF Fail
<1>2. queue' \in Seq(Piece)
  BY DEF Fail
<1>3. Shape'
  BY <1>1, <1>2 DEF Fail, DurabilityInv, Shape, supplyVars
<1>4. \A t \in TargetsOf[current'] : current' = NoPiece \/ current' \in cached'[t]
  BY DEF DurabilityInv, HeldIsCached, Held, supplyVars
<1>5. ~open' => stage' \in {"idle", "failed"}
  BY DEF DurabilityInv, ChannelClosed, supplyVars
<1> QED BY <1>3, <1>4, <1>5, DroppedIsSafe DEF Fail

\* Syncing the targets of a batch and committing it.
LEMMA FlushStep ==
  ASSUME DurabilityInv,
         SyncStep \/ Synced \/ SyncFailed \/ Commit \/ CommitFailed
  PROVE  DurabilityInv'
<1> USE PieceAssumption
<1>1. ASSUME NEW t \in Target, StartSync(t) PROVE DurabilityInv'
  <2>1. Owned' = Owned /\ Held' = Held
    BY <1>1 DEF StartSync, Owned, Held, Queued, supplyVars, batchVars
  <2>2. Shape'
    BY <1>1 DEF StartSync, DurabilityInv, Shape, diskVars, supplyVars, batchVars
  <2>3. ASSUME NEW p \in flushing, NEW u \in TargetsOf[p]
        PROVE  \/ broken' \/ u \in toSync' \/ p \in synced'[u]
               \/ \E s \in syncing' : s.target = u /\ p \in s.pieces
    <3>1. CASE u = t
      <4>1. p \in cached[t]
        BY <2>3, <3>1 DEF DurabilityInv, HeldIsCached, Held, Owned
      <4>2. [target |-> t, pieces |-> cached[t]] \in syncing'
        BY <1>1 DEF StartSync
      <4> QED BY <3>1, <4>1, <4>2
    <3>2. CASE u # t
      BY <1>1, <2>3, <3>2 DEF StartSync, DurabilityInv, FlushOnTrack, diskVars
    <3> QED BY <3>1, <3>2
  <2>4. FlushOnTrack'
    BY <1>1, <2>3 DEF StartSync, FlushOnTrack
  <2> QED
    BY <1>1, <2>1, <2>2, <2>4 DEF StartSync, DurabilityInv, HeldIsCached, FlushSynced,
       DurableIsSynced, HandedIsKept, ChannelClosed, diskVars, supplyVars, batchVars
<1>2. ASSUME NEW s \in syncing, FinishSync(s) PROVE DurabilityInv'
  <2>1. Owned' = Owned /\ Held' = Held
    BY <1>2 DEF FinishSync, Owned, Held, Queued, supplyVars, batchVars
  <2>2. s.target \in Target /\ s.pieces \subseteq Piece
    BY DEF DurabilityInv, Shape
  <2>3. /\ synced' \in [Target -> SUBSET Piece]
        /\ \A t \in Target : synced[t] \subseteq synced'[t]
    <3>1. synced' = synced \/ synced' = [synced EXCEPT ![s.target] = @ \cup s.pieces]
      BY <1>2 DEF FinishSync
    <3>2. synced \in [Target -> SUBSET Piece]
      BY DEF DurabilityInv, Shape
    <3> QED BY <2>2, <3>1, <3>2
  <2>4. broken' \in BOOLEAN
    BY <1>2 DEF FinishSync, DurabilityInv, Shape
  <2>5. broken \/ broken' \/ s.pieces \subseteq synced'[s.target]
    BY <1>2, <2>2 DEF FinishSync, DurabilityInv, Shape
  <2>6. Shape'
    BY <1>2, <2>3, <2>4 DEF FinishSync, DurabilityInv, Shape, supplyVars, batchVars
  <2>7. broken => broken'
    BY <1>2 DEF FinishSync
  <2>8. FlushOnTrack'
    BY <1>2, <2>2, <2>3, <2>5, <2>7 DEF FinishSync, DurabilityInv, Shape, FlushOnTrack
  <2>9. DurableIsSynced'
    BY <1>2, <2>3 DEF FinishSync, DurabilityInv, Shape, DurableIsSynced
  <2> QED
    BY <1>2, <2>1, <2>6, <2>8, <2>9 DEF FinishSync, DurabilityInv, HeldIsCached, FlushSynced,
       HandedIsKept, ChannelClosed, supplyVars, batchVars
<1>3. CASE Synced
  <2>1. Owned' = Owned /\ Held' = Held
    BY <1>3 DEF Synced, Owned, Held, Queued, supplyVars, batchVars, flushVars
  <2> QED
    BY <1>3, <2>1 DEF Synced, DurabilityInv, Shape, HeldIsCached, FlushOnTrack, FlushSynced,
       DurableIsSynced, HandedIsKept, ChannelClosed, diskVars, supplyVars, batchVars, flushVars
<1>4. CASE SyncFailed
  BY <1>4, FailStep DEF SyncFailed, DurabilityInv, Shape, DurableIsSynced, diskVars
<1>5. CASE Commit
  <2>1. Owned = Owned' \cup flushing
    BY <1>5 DEF Commit, Owned, Queued, batchVars
  <2>2. Held' \subseteq Held
    BY <1>5, <2>1 DEF Commit, Held, supplyVars
  <2>3. Shape'
    BY <1>5 DEF Commit, DurabilityInv, Shape, supplyVars, batchVars
  <2>4. DurableIsSynced'
    BY <1>5 DEF Commit, DurabilityInv, DurableIsSynced, FlushSynced
  <2> QED
    BY <1>5, <2>1, <2>2, <2>3, <2>4 DEF Commit, DurabilityInv, HeldIsCached, FlushOnTrack,
       FlushSynced, HandedIsKept, ChannelClosed, supplyVars, batchVars
<1>6. CASE CommitFailed
  <2>1. DurableIsSynced' /\ durable' \subseteq Piece
    BY <1>6 DEF CommitFailed, DurabilityInv, Shape, DurableIsSynced, FlushSynced
  <2> QED BY <1>6, <2>1, FailStep DEF CommitFailed
<1> QED BY <1>1, <1>2, <1>3, <1>4, <1>5, <1>6 DEF SyncStep

\* A process death loses what was not synced and forgets what was held.
LEMMA CrashStep ==
  ASSUME DurabilityInv, Crash
  PROVE  DurabilityInv'
<1>1. broken' \in BOOLEAN /\ open' \in BOOLEAN /\ open'
  BY DEF Crash
<1>2. queue' \in Seq(Piece)
  BY DEF Crash
<1>3. Shape'
  BY <1>1, <1>2 DEF Crash, DurabilityInv, Shape
<1>4. DurableIsSynced'
  BY DEF Crash, DurabilityInv, DurableIsSynced
<1> QED BY <1>1, <1>3, <1>4, DroppedIsSafe DEF Crash

-----------------------------------------------------------------------------
(* The theorems. *)

\* The inductive invariant holds in every state of the checkpoint owner.
THEOREM DurabilityInvariant == Spec => []DurabilityInv
<1>1. DurabilityInv /\ [Next]_vars => DurabilityInv'
  <2> SUFFICES ASSUME DurabilityInv, [Next]_vars PROVE DurabilityInv'
    OBVIOUS
  <2>1. CASE UNCHANGED vars
    <3>1. Owned' = Owned /\ Held' = Held
      BY <2>1 DEF vars, Owned, Held, Queued, supplyVars, batchVars, flushVars
    <3> QED
      BY <2>1, <3>1 DEF vars, DurabilityInv, Shape, HeldIsCached, FlushOnTrack, FlushSynced,
         DurableIsSynced, HandedIsKept, ChannelClosed, diskVars, supplyVars, batchVars, flushVars
  <2>2. CASE Ended
    BY <2>1, <2>2 DEF Ended
  <2> QED
    BY <2>1, <2>2, SupplyStep, GatherStep, FlushStep, CrashStep DEF Next, TaskStep
<1> QED BY <1>1, InitDurabilityInv, PTL DEF Spec

(***************************************************************************)
(* A committed have bit is never ahead of its bytes, whatever is synced,   *)
(* fails or dies in between (flush_content_checkpoint syncs every target   *)
(* of the batch before pieces_durable).                                    *)
(***************************************************************************)
THEOREM DurableIsSyncedHolds == Spec => []DurableIsSynced
<1>1. DurabilityInv => DurableIsSynced
  BY DEF DurabilityInv
<1> QED BY <1>1, DurabilityInvariant, PTL

(***************************************************************************)
(* A checkpoint task that returns without an error has committed every     *)
(* piece handed over to it (run_content_checkpoint_task drains the closed  *)
(* channel and flushes the last batch).                                    *)
(***************************************************************************)
THEOREM CleanStopCommitsHolds == Spec => []CleanStopCommits
<1>1. DurabilityInv => CleanStopCommits
  <2> SUFFICES ASSUME DurabilityInv, task = "stopped" PROVE handed \subseteq durable
    BY DEF CleanStopCommits
  <2>1. Owned = {}
    BY DEF DurabilityInv, ChannelClosed, Owned, Queued
  <2> QED BY <2>1 DEF DurabilityInv, HandedIsKept
<1> QED BY <1>1, DurabilityInvariant, PTL

-----------------------------------------------------------------------------
(* Sums over sets of pieces. *)

\* Induction over the natural numbers, for the set of numbers with a property.
LEMMA Induction ==
  ASSUME NEW S, 0 \in S, \A n \in Nat : n \in S => n + 1 \in S
  PROVE  Nat \subseteq S
<1> SUFFICES ASSUME Nat \ S # {} PROVE FALSE
  OBVIOUS
<1>1. PICK n \in Nat \ S : \A m \in Nat \ S : ~ (<<m, n>> \in OpToRel(<, Nat))
  BY WFMin, NatLessThanWellFounded, Zenon
<1>2. \A m \in Nat : m < n => m \in S
  BY <1>1 DEF OpToRel
<1>3. n \in Nat /\ n # 0
  BY <1>1
<1>4. n - 1 \in Nat /\ n - 1 < n /\ (n - 1) + 1 = n
  BY <1>3
<1> QED BY <1>1, <1>2, <1>4

\* Induction over the subsets of a finite set.
LEMMA SubsetInduction ==
  ASSUME NEW D, IsFiniteSet(D), NEW F, {} \in F,
         \A s \in SUBSET D : \A x \in D \ s : s \in F => s \cup {x} \in F
  PROVE  SUBSET D \subseteq F
<1> DEFINE N == {n \in Nat : \A s \in SUBSET D : Cardinality(s) = n => s \in F}
<1>0. \A s \in SUBSET D : IsFiniteSet(s) /\ Cardinality(s) \in Nat
  BY FS_Subset, FS_CardinalityType
<1>1. 0 \in N
  BY <1>0, FS_EmptySet
<1>2. ASSUME NEW n \in Nat, n \in N PROVE n + 1 \in N
  <2> SUFFICES ASSUME NEW s \in SUBSET D, Cardinality(s) = n + 1 PROVE s \in F
    OBVIOUS
  <2>1. s # {}
    <3> SUFFICES ASSUME s = {} PROVE FALSE
      OBVIOUS
    <3>1. Cardinality(s) = 0
      BY FS_EmptySet, Zenon
    <3> QED BY <3>1
  <2>2. PICK x \in s : TRUE
    BY <2>1
  <2>3. Cardinality(s \ {x}) = Cardinality(s) - 1
    BY <1>0, FS_RemoveElement
  <2>4. s \ {x} \in SUBSET D /\ Cardinality(s \ {x}) = n
    BY <2>3
  <2>5. s \ {x} \in F /\ x \in D \ (s \ {x}) /\ (s \ {x}) \cup {x} = s
    BY <1>2, <2>4
  <2> QED BY <2>4, <2>5
<1>3. Nat \subseteq N
  <2> HIDE DEF N
  <2> QED BY <1>1, <1>2, Induction
<1> QED BY <1>0, <1>3

-----------------------------------------------------------------------------
\* g adds up f over the sets of D, one element at a time
Pick(s) == CHOOSE x \in s : TRUE
Adds(f, D, g) == g = [s \in D |-> IF s = {} THEN 0 ELSE f[Pick(s)] + g[s \ {Pick(s)}]]

\* A chosen element of a set is in it.
LEMMA PickFacts ==
  ASSUME NEW s, s # {}
  PROVE  Pick(s) \in s
BY DEF Pick

\* The sums over a finite set exist.
LEMMA AddsExists ==
  ASSUME NEW S, IsFiniteSet(S), NEW f
  PROVE  \E g : Adds(f, SUBSET S, g)
<1> DEFINE D(n) == {s \in SUBSET S : Cardinality(s) <= n}
           N == {n \in Nat : \E g : Adds(f, D(n), g)}
<1>0. \A s \in SUBSET S : IsFiniteSet(s) /\ Cardinality(s) \in Nat
  BY FS_Subset, FS_CardinalityType
<1>1. 0 \in N
  <2> DEFINE g == [s \in D(0) |-> 0]
  <2>1. \A s \in D(0) : s = {}
    BY <1>0, FS_EmptySet
  <2>2. Adds(f, D(0), g)
    BY <2>1 DEF Adds
  <2> QED BY <2>2
<1>2. ASSUME NEW n \in Nat, n \in N PROVE n + 1 \in N
  <2>1. PICK g : Adds(f, D(n), g)
    BY <1>2
  <2> DEFINE h == [s \in D(n + 1) |-> IF s = {} THEN 0 ELSE f[Pick(s)] + g[s \ {Pick(s)}]]
  <2>2. ASSUME NEW s \in D(n + 1), s # {} PROVE s \ {Pick(s)} \in D(n)
    <3>1. Cardinality(s \ {Pick(s)}) = Cardinality(s) - 1
      BY <1>0, <2>2, PickFacts, FS_RemoveElement
    <3> QED BY <1>0, <2>2, <3>1
  <2>3. \A s \in D(n) : s \in D(n + 1) /\ h[s] = g[s]
    <3>1. \A s \in D(n) : s \in D(n + 1)
      BY <1>0
    <3>2. \A s \in D(n) : g[s] = IF s = {} THEN 0 ELSE f[Pick(s)] + g[s \ {Pick(s)}]
      <4> HIDE DEF D
      <4> QED BY <2>1 DEF Adds
    <3> HIDE DEF D
    <3> QED BY <3>1, <3>2
  <2>4. Adds(f, D(n + 1), h)
    <3>1. \A s \in D(n + 1) : s # {} => h[s \ {Pick(s)}] = g[s \ {Pick(s)}]
      <4> HIDE DEF h, D
      <4> QED BY <2>2, <2>3
    <3> HIDE DEF D
    <3> QED BY <3>1 DEF Adds
  <2> HIDE DEF h, D
  <2> QED BY <2>4
<1>3. Nat \subseteq N
  <2> HIDE DEF N
  <2> QED BY <1>1, <1>2, Induction
<1> DEFINE n == Cardinality(S)
<1>4. D(n) = SUBSET S /\ n \in Nat
  <2>1. \A s \in SUBSET S : Cardinality(s) <= n
    BY FS_Subset
  <2> QED BY <1>0, <2>1
<1> HIDE DEF n, D
<1> QED BY <1>3, <1>4

\* the numbers that f gives to S
Ints(f, S) == \A x \in S : f[x] \in Int

\* A sum is peeled from the element that is picked; nothing adds up to zero.
LEMMA Peel ==
  ASSUME NEW S, NEW f, NEW g, Adds(f, SUBSET S, g), NEW s \in SUBSET S, s # {}
  PROVE  g[s] = f[Pick(s)] + g[s \ {Pick(s)}] /\ Pick(s) \in s
<1>1. \A t \in SUBSET S : g[t] = IF t = {} THEN 0 ELSE f[Pick(t)] + g[t \ {Pick(t)}]
  BY DEF Adds
<1> QED BY <1>1, PickFacts

\* The empty set adds up to nothing.
LEMMA PeelEmpty ==
  ASSUME NEW S, NEW f, NEW g, Adds(f, SUBSET S, g)
  PROVE  g[{}] = 0
<1>1. {} \in SUBSET S
  OBVIOUS
<1> QED BY <1>1 DEF Adds

\* The size of a set without one of its elements.
LEMMA OneLess ==
  ASSUME NEW S, IsFiniteSet(S), NEW s \in SUBSET S, NEW n \in Nat, Cardinality(s) = n + 1
  PROVE  s # {} /\ \A x \in s : s \ {x} \in SUBSET S /\ Cardinality(s \ {x}) = n
<1>1. s # {}
  <2> SUFFICES ASSUME s = {} PROVE FALSE
    OBVIOUS
  <2>1. Cardinality(s) = 0
    BY FS_EmptySet, Zenon
  <2> QED BY <2>1
<1>2. ASSUME NEW x \in s PROVE s \ {x} \in SUBSET S /\ Cardinality(s \ {x}) = n
  <2>1. IsFiniteSet(s)
    BY FS_Subset
  <2>2. Cardinality(s \ {x}) = Cardinality(s) - 1
    BY <2>1, FS_RemoveElement
  <2> QED BY <2>2
<1> QED BY <1>1, <1>2

\* Sums of integers are integers.
LEMMA AddsType ==
  ASSUME NEW S, IsFiniteSet(S), NEW f, Ints(f, S), NEW g, Adds(f, SUBSET S, g)
  PROVE  \A s \in SUBSET S : g[s] \in Int
<1> DEFINE N == {n \in Nat : \A s \in SUBSET S : Cardinality(s) = n => g[s] \in Int}
<1>0. \A s \in SUBSET S : IsFiniteSet(s) /\ Cardinality(s) \in Nat
  BY FS_Subset, FS_CardinalityType
<1>1. 0 \in N
  <2> SUFFICES ASSUME NEW s \in SUBSET S, Cardinality(s) = 0 PROVE g[s] \in Int
    OBVIOUS
  <2>1. s = {}
    BY <1>0, FS_EmptySet
  <2>2. g[s] = 0
    BY <2>1, PeelEmpty
  <2> QED BY <2>2
<1>2. ASSUME NEW n \in Nat, n \in N PROVE n + 1 \in N
  <2> SUFFICES ASSUME NEW s \in SUBSET S, Cardinality(s) = n + 1 PROVE g[s] \in Int
    OBVIOUS
  <2> DEFINE x == Pick(s)
  <2>1. s # {} /\ \A y \in s : s \ {y} \in SUBSET S /\ Cardinality(s \ {y}) = n
    BY OneLess
  <2>2. g[s] = f[x] + g[s \ {x}] /\ x \in s
    BY <2>1, Peel
  <2> HIDE DEF x
  <2>3. g[s \ {x}] \in Int /\ f[x] \in Int
    BY <1>2, <2>1, <2>2 DEF Ints
  <2> QED BY <2>2, <2>3
<1>3. Nat \subseteq N
  <2> HIDE DEF N
  <2> QED BY <1>1, <1>2, Induction
<1> QED BY <1>0, <1>3

\* A sum may be peeled from any of its elements.
LEMMA PeelAny ==
  ASSUME NEW S, IsFiniteSet(S), NEW f, Ints(f, S), NEW g, Adds(f, SUBSET S, g),
         NEW T \in SUBSET S, NEW z \in T
  PROVE  g[T] = f[z] + g[T \ {z}]
<1> DEFINE N == {n \in Nat : \A s \in SUBSET S : Cardinality(s) = n =>
                               \A y \in s : g[s] = f[y] + g[s \ {y}]}
<1>0. \A s \in SUBSET S : IsFiniteSet(s) /\ Cardinality(s) \in Nat /\ g[s] \in Int
  BY AddsType, FS_Subset, FS_CardinalityType
<1>1. 0 \in N
  BY <1>0, FS_EmptySet
<1>2. ASSUME NEW n \in Nat, n \in N PROVE n + 1 \in N
  <2> SUFFICES ASSUME NEW s \in SUBSET S, Cardinality(s) = n + 1, NEW y \in s
               PROVE  g[s] = f[y] + g[s \ {y}]
    OBVIOUS
  <2> DEFINE x == Pick(s)
  <2>1. s # {} /\ \A u \in s : s \ {u} \in SUBSET S /\ Cardinality(s \ {u}) = n
    BY OneLess
  <2>2. g[s] = f[x] + g[s \ {x}] /\ x \in s
    BY <2>1, Peel
  <2> HIDE DEF x
  <2>3. CASE x = y
    BY <2>2, <2>3
  <2>4. CASE x # y
    <3> DEFINE rest == s \ {x, y}
    <3>1. (s \ {x}) \ {y} = rest /\ (s \ {y}) \ {x} = rest /\ y \in s \ {x} /\ x \in s \ {y}
          /\ rest \in SUBSET S
      BY <2>2, <2>4
    <3>2. g[s \ {x}] = f[y] + g[rest] /\ g[s \ {y}] = f[x] + g[rest]
      <4> HIDE DEF rest
      <4>1. \A t \in SUBSET S : Cardinality(t) = n => \A u \in t : g[t] = f[u] + g[t \ {u}]
        BY <1>2
      <4>2. /\ s \ {x} \in SUBSET S /\ Cardinality(s \ {x}) = n
            /\ s \ {y} \in SUBSET S /\ Cardinality(s \ {y}) = n
        BY <2>1, <2>2
      <4>3. /\ g[s \ {x}] = f[y] + g[(s \ {x}) \ {y}]
            /\ g[s \ {y}] = f[x] + g[(s \ {y}) \ {x}]
        BY <3>1, <4>1, <4>2
      <4> QED BY <3>1, <4>3
    <3>3. f[x] \in Int /\ f[y] \in Int /\ g[rest] \in Int
      BY <1>0, <2>2, <3>1 DEF Ints
    <3> HIDE DEF rest
    <3> QED BY <2>2, <3>2, <3>3
  <2> QED BY <2>3, <2>4
<1>3. Nat \subseteq N
  <2> HIDE DEF N
  <2> QED BY <1>1, <1>2, Induction
<1> QED BY <1>0, <1>3

\* The sum over a set of pieces does not depend on the table it is read from.
LEMMA AddsAgree ==
  ASSUME NEW f, NEW g, Adds(f, SUBSET Piece, g),
         NEW T \in SUBSET Piece, NEW h, Adds(f, SUBSET T, h)
  PROVE  h[T] = g[T]
<1> DEFINE N == {n \in Nat : \A s \in SUBSET T : Cardinality(s) = n => h[s] = g[s]}
<1>0. IsFiniteSet(T) /\ \A s \in SUBSET T : s \in SUBSET Piece /\ IsFiniteSet(s) /\ Cardinality(s) \in Nat
  BY PieceAssumption, FS_Subset, FS_CardinalityType
<1>1. 0 \in N
  <2> SUFFICES ASSUME NEW s \in SUBSET T, Cardinality(s) = 0 PROVE h[s] = g[s]
    OBVIOUS
  <2>1. s = {} /\ s \in SUBSET Piece
    BY <1>0, FS_EmptySet
  <2>2. g[s] = 0
    BY <2>1, PeelEmpty
  <2>3. h[s] = 0
    BY <2>1, PeelEmpty
  <2> QED BY <2>2, <2>3
<1>2. ASSUME NEW n \in Nat, n \in N PROVE n + 1 \in N
  <2> SUFFICES ASSUME NEW s \in SUBSET T, Cardinality(s) = n + 1 PROVE h[s] = g[s]
    OBVIOUS
  <2> DEFINE x == Pick(s)
  <2>1. s # {} /\ \A y \in s : s \ {y} \in SUBSET T /\ Cardinality(s \ {y}) = n
    BY <1>0, OneLess
  <2>2. g[s] = f[x] + g[s \ {x}] /\ x \in s
    <3>1. s \in SUBSET Piece
      OBVIOUS
    <3> QED BY <2>1, <3>1, Peel
  <2>3. h[s] = f[x] + h[s \ {x}]
    BY <2>1, Peel
  <2> HIDE DEF x
  <2>4. h[s \ {x}] = g[s \ {x}]
    BY <1>2, <2>1, <2>2
  <2> QED BY <2>2, <2>3, <2>4
<1>3. Nat \subseteq N
  <2> HIDE DEF N
  <2> QED BY <1>1, <1>2, Induction
<1>4. T \in SUBSET T
  OBVIOUS
<1> QED BY <1>0, <1>3, <1>4

-----------------------------------------------------------------------------
\* Length and charge of the pieces as functions, and a sum's table over every
\* set of pieces
ChargeOf == [p \in Piece |-> Charge(p)]
Table(f) == CHOOSE g : Adds(f, SUBSET Piece, g)

\* The table behind a sum over pieces is one that adds.
LEMMA TableAdds ==
  ASSUME NEW f
  PROVE  Adds(f, SUBSET Piece, Table(f))
<1>1. IsFiniteSet(Piece)
  BY PieceAssumption
<1> QED BY <1>1, AddsExists DEF Table

\* MapThenSumSet adds up the charges ...
LEMMA ChargesTable ==
  ASSUME NEW S \in SUBSET Piece
  PROVE  Charges(S) = Table(ChargeOf)[S]
<1> DEFINE E(h) == h = [s \in SUBSET S |-> IF s = {} THEN 0
                          ELSE LET x == CHOOSE x \in s : TRUE IN Charge(x) + h[s \ {x}]]
           k == CHOOSE h : E(h)
<1>1. Charges(S) = k[S]
  BY Zenon DEF Charges, MapThenSumSet, MapThenFoldSet
<1>2. ASSUME NEW h PROVE E(h) <=> Adds(ChargeOf, SUBSET S, h)
  <2>1. \A s \in SUBSET S : s # {} => ChargeOf[Pick(s)] = Charge(Pick(s))
    <3> HIDE DEF E, k
    <3> SUFFICES ASSUME NEW s \in SUBSET S, s # {} PROVE ChargeOf[Pick(s)] = Charge(Pick(s))
      OBVIOUS
    <3>1. Pick(s) \in Piece
      BY PickFacts
    <3> QED BY <3>1 DEF ChargeOf
  <2>2. [s \in SUBSET S |-> IF s = {} THEN 0
                          ELSE LET x == CHOOSE x \in s : TRUE IN Charge(x) + h[s \ {x}]]
        = [s \in SUBSET S |-> IF s = {} THEN 0 ELSE ChargeOf[Pick(s)] + h[s \ {Pick(s)}]]
    BY <2>1 DEF Pick
  <2> QED BY <2>2 DEF Adds
<1>3. IsFiniteSet(S)
  BY PieceAssumption, FS_Subset
<1>4. \E h : Adds(ChargeOf, SUBSET S, h)
  BY <1>3, AddsExists
<1>5. \E h : E(h)
  <2> HIDE DEF E
  <2> QED BY <1>2, <1>4
<1>6. E(k)
  <2> HIDE DEF E
  <2> QED BY <1>5
<1>7. Adds(ChargeOf, SUBSET S, k)
  <2> HIDE DEF E, k
  <2> QED BY <1>2, <1>6
<1> HIDE DEF k
<1> QED BY <1>1, <1>7, TableAdds, AddsAgree

\* the bytes of a set of pieces
Bytes(S) == MapThenSumSet(LAMBDA p : Length[p], S)

\* ... and the lengths.
LEMMA BytesTable ==
  ASSUME NEW S \in SUBSET Piece
  PROVE  Bytes(S) = Table(Length)[S]
<1> DEFINE k == CHOOSE h : Adds(Length, SUBSET S, h)
<1>1. Bytes(S) = k[S]
  BY Zenon DEF Bytes, MapThenSumSet, MapThenFoldSet, Adds, Pick
<1>2. IsFiniteSet(S)
  BY PieceAssumption, FS_Subset
<1>3. Adds(Length, SUBSET S, k)
  BY <1>2, AddsExists
<1> HIDE DEF k
<1> QED BY <1>1, <1>3, TableAdds, AddsAgree

\* The table of a sum of natural numbers: nothing adds up to zero, one more
\* piece adds its own number.
LEMMA TableFacts ==
  ASSUME NEW f, \A p \in Piece : f[p] \in Nat
  PROVE  /\ Table(f)[{}] = 0
         /\ \A S \in SUBSET Piece : Table(f)[S] \in Nat
         /\ \A S \in SUBSET Piece : \A p \in Piece \ S :
              Table(f)[S \cup {p}] = Table(f)[S] + f[p]
<1> DEFINE g == Table(f)
<1>1. /\ IsFiniteSet(Piece) /\ Ints(f, Piece)
      /\ Adds(f, SUBSET Piece, g)
  <2>1. IsFiniteSet(Piece) /\ Ints(f, Piece)
    BY PieceAssumption DEF Ints
  <2>2. Adds(f, SUBSET Piece, g)
    BY TableAdds
  <2> QED BY <2>1, <2>2
<1> HIDE DEF g
<1>2. g[{}] = 0
  BY <1>1, PeelEmpty
<1>3. \A S \in SUBSET Piece : g[S] \in Int
  BY <1>1, AddsType
<1>4. \A S \in SUBSET Piece : \A y \in S : g[S] = f[y] + g[S \ {y}]
  <2> SUFFICES ASSUME NEW S \in SUBSET Piece, NEW y \in S PROVE g[S] = f[y] + g[S \ {y}]
    OBVIOUS
  <2> QED BY <1>1, PeelAny
<1>5. ASSUME NEW S \in SUBSET Piece, NEW p \in Piece \ S
      PROVE  g[S \cup {p}] = g[S] + f[p]
  <2>1. S \cup {p} \in SUBSET Piece /\ p \in S \cup {p} /\ (S \cup {p}) \ {p} = S
    OBVIOUS
  <2>2. g[S \cup {p}] = f[p] + g[S]
    BY <1>4, <2>1
  <2> QED BY <1>3, <2>2
<1>6. SUBSET Piece \subseteq {S \in SUBSET Piece : g[S] \in Nat}
  <2> DEFINE F == {S \in SUBSET Piece : g[S] \in Nat}
  <2>1. {} \in F
    BY <1>2
  <2>2. \A S \in SUBSET Piece : \A p \in Piece \ S : S \in F => S \cup {p} \in F
    BY <1>5
  <2> HIDE DEF F
  <2>3. SUBSET Piece \subseteq F
    BY <1>1, <2>1, <2>2, SubsetInduction
  <2> QED BY <2>3 DEF F
<1> QED BY <1>2, <1>5, <1>6 DEF g

\* The sum over two sets without a common piece.
LEMMA TableUnion ==
  ASSUME NEW f, \A p \in Piece : f[p] \in Nat,
         NEW S \in SUBSET Piece, NEW T \in SUBSET Piece, S \cap T = {}
  PROVE  Table(f)[S \cup T] = Table(f)[S] + Table(f)[T]
<1> DEFINE g == Table(f)
           F == {U \in SUBSET Piece : S \cap U = {} => g[S \cup U] = g[S] + g[U]}
<1>1. /\ g[{}] = 0
      /\ \A U \in SUBSET Piece : g[U] \in Nat
      /\ \A U \in SUBSET Piece : \A p \in Piece \ U : g[U \cup {p}] = g[U] + f[p]
  BY TableFacts
<1> HIDE DEF g
<1>2. {} \in F
  <2>1. S \cup {} = S
    OBVIOUS
  <2> QED BY <1>1, <2>1
<1>3. ASSUME NEW U \in SUBSET Piece, NEW p \in Piece \ U, U \in F
      PROVE  U \cup {p} \in F
  <2> SUFFICES ASSUME S \cap (U \cup {p}) = {}
               PROVE  g[S \cup (U \cup {p})] = g[S] + g[U \cup {p}]
    OBVIOUS
  <2>1. S \cup (U \cup {p}) = (S \cup U) \cup {p} /\ S \cup U \in SUBSET Piece /\ p \in Piece \ (S \cup U)
    OBVIOUS
  <2>2. g[S \cup U] = g[S] + g[U]
    BY <1>3
  <2>3. g[(S \cup U) \cup {p}] = g[S \cup U] + f[p]
    BY <1>1, <2>1
  <2>4. g[U \cup {p}] = g[U] + f[p]
    BY <1>1
  <2>5. g[S] \in Nat /\ g[U] \in Nat /\ f[p] \in Nat
    BY <1>1
  <2>6. g[S \cup (U \cup {p})] = g[S] + g[U] + f[p]
    BY <2>1, <2>2, <2>3
  <2> QED BY <2>4, <2>5, <2>6
<1>4. SUBSET Piece \subseteq F
  <2> HIDE DEF F
  <2> QED BY <1>2, <1>3, PieceAssumption, SubsetInduction
<1> QED BY <1>4 DEF g

\* The charge of a piece is between one permit and all of them; unless it is all
\* of them it covers the piece.
LEMMA ChargeFacts ==
  ASSUME NEW p \in Piece
  PROVE  /\ Charge(p) \in Nat \ {0} /\ Charge(p) <= ByteCapacity
         /\ Charge(p) = ByteCapacity \/ Length[p] <= Unit * Charge(p)
<1>1. /\ Length[p] \in Nat \ {0} /\ Unit \in Nat \ {0} /\ MaxDirty \in Nat \ {0}
      /\ MaxDirty % Unit = 0
  BY PieceAssumption, LimitAssumption
<1> DEFINE c == (Length[p] + Unit - 1) \div Unit
<1>2. c \in Nat \ {0} /\ Length[p] <= Unit * c
  <2> DEFINE a == Length[p] + Unit - 1
  <2>1. a \in Nat
    BY <1>1
  <2>2. a >= Unit /\ a - Unit < Length[p]
    BY <1>1
  <2> HIDE DEF a
  <2>3. c = a \div Unit
    BY DEF a
  <2>4. c \in Nat /\ Unit * c <= a /\ a < Unit * c + Unit
    BY <1>1, <2>1, <2>3
  <2> QED BY <1>1, <2>1, <2>2, <2>4 DEF a
<1>3. ByteCapacity \in Nat \ {0}
  BY <1>1 DEF ByteCapacity
<1> HIDE DEF c
<1>4. Charge(p) = IF c <= ByteCapacity THEN c ELSE ByteCapacity
  BY <1>2, <1>3 DEF Charge, Min, c
<1> QED BY <1>2, <1>3, <1>4

\* The byte capacity is the dirty limit in units.
LEMMA CapacityFacts == ByteCapacity \in Nat \ {0} /\ Unit * ByteCapacity = MaxDirty
BY LimitAssumption DEF ByteCapacity

-----------------------------------------------------------------------------
(* The accounts: where each intent is, and what its permits and bytes are. *)

Counters ==
  /\ items \in Nat /\ bytes \in Nat /\ dirty \in Nat
  /\ aged \in BOOLEAN /\ crashes \in 0 .. MaxCrashes

\* an intent is in one place, and the supervisor hands over a new piece
Distinct ==
  /\ \A i, j \in 1 .. Len(queue) : queue[i] = queue[j] => i = j
  /\ Queued \cap batch = {} /\ Queued \cap flushing = {} /\ batch \cap flushing = {}
  /\ pending \notin Queued \cup batch \cup flushing
  /\ Owned \subseteq handed
  /\ stage \in {"item", "bytes", "send"} => current \notin handed

\* the batch counts its bytes
DirtyExact == dirty = Bytes(batch)

AccountInv == Counters /\ Distinct /\ PermitsConserved /\ DirtyExact

-----------------------------------------------------------------------------
(* The sums of the accounts. *)

\* The permits of a set of pieces, one piece at a time.
LEMMA ChargesFacts ==
  /\ Charges({}) = 0
  /\ \A S \in SUBSET Piece : Charges(S) \in Nat
  /\ \A S \in SUBSET Piece : \A p \in Piece \ S : Charges(S \cup {p}) = Charges(S) + Charge(p)
<1>1. \A p \in Piece : ChargeOf[p] \in Nat /\ ChargeOf[p] = Charge(p)
  BY ChargeFacts DEF ChargeOf
<1>2. /\ Table(ChargeOf)[{}] = 0
      /\ \A S \in SUBSET Piece : Table(ChargeOf)[S] \in Nat
      /\ \A S \in SUBSET Piece : \A p \in Piece \ S :
           Table(ChargeOf)[S \cup {p}] = Table(ChargeOf)[S] + ChargeOf[p]
  BY <1>1, TableFacts
<1>3. Charges({}) = Table(ChargeOf)[{}]
  BY ChargesTable
<1>4. ASSUME NEW S \in SUBSET Piece PROVE Charges(S) \in Nat
  BY <1>2, ChargesTable
<1>5. ASSUME NEW S \in SUBSET Piece, NEW p \in Piece \ S
      PROVE  Charges(S \cup {p}) = Charges(S) + Charge(p)
  <2>1. S \cup {p} \in SUBSET Piece
    OBVIOUS
  <2>2. Charges(S \cup {p}) = Table(ChargeOf)[S \cup {p}]
    BY <2>1, ChargesTable
  <2>3. Charges(S) = Table(ChargeOf)[S]
    BY ChargesTable
  <2> QED BY <1>1, <1>2, <2>2, <2>3
<1> QED BY <1>2, <1>3, <1>4, <1>5

\* The permits of two sets of pieces that have none in common.
LEMMA ChargesUnion ==
  ASSUME NEW S \in SUBSET Piece, NEW T \in SUBSET Piece, S \cap T = {}
  PROVE  Charges(S \cup T) = Charges(S) + Charges(T)
<1>1. \A p \in Piece : ChargeOf[p] \in Nat
  BY ChargeFacts DEF ChargeOf
<1>2. Table(ChargeOf)[S \cup T] = Table(ChargeOf)[S] + Table(ChargeOf)[T]
  BY <1>1, TableUnion
<1>3. S \cup T \in SUBSET Piece
  OBVIOUS
<1>4. Charges(S \cup T) = Table(ChargeOf)[S \cup T]
  BY <1>3, ChargesTable
<1>5. Charges(S) = Table(ChargeOf)[S] /\ Charges(T) = Table(ChargeOf)[T]
  BY ChargesTable
<1> QED BY <1>2, <1>4, <1>5

\* The bytes of a set of pieces, one piece at a time.
LEMMA BytesFacts ==
  /\ Bytes({}) = 0
  /\ \A S \in SUBSET Piece : Bytes(S) \in Nat
  /\ \A S \in SUBSET Piece : \A p \in Piece \ S : Bytes(S \cup {p}) = Bytes(S) + Length[p]
<1>1. \A p \in Piece : Length[p] \in Nat
  BY PieceAssumption
<1>2. /\ Table(Length)[{}] = 0
      /\ \A S \in SUBSET Piece : Table(Length)[S] \in Nat
      /\ \A S \in SUBSET Piece : \A p \in Piece \ S :
           Table(Length)[S \cup {p}] = Table(Length)[S] + Length[p]
  BY <1>1, TableFacts
<1>3. Bytes({}) = Table(Length)[{}]
  BY BytesTable
<1>4. ASSUME NEW S \in SUBSET Piece PROVE Bytes(S) \in Nat
  BY <1>2, BytesTable
<1>5. ASSUME NEW S \in SUBSET Piece, NEW p \in Piece \ S
      PROVE  Bytes(S \cup {p}) = Bytes(S) + Length[p]
  <2>1. S \cup {p} \in SUBSET Piece
    OBVIOUS
  <2>2. Bytes(S \cup {p}) = Table(Length)[S \cup {p}]
    BY <2>1, BytesTable
  <2>3. Bytes(S) = Table(Length)[S]
    BY BytesTable
  <2> QED BY <1>2, <2>2, <2>3
<1> QED BY <1>2, <1>3, <1>4, <1>5

\* Pieces whose charges cover their bytes.
LEMMA BytesCovered ==
  ASSUME NEW S \in SUBSET Piece, \A p \in S : Length[p] <= Unit * Charge(p)
  PROVE  Bytes(S) <= Unit * Charges(S)
<1> DEFINE F == {T \in SUBSET S : Bytes(T) <= Unit * Charges(T)}
<1>1. IsFiniteSet(S) /\ Unit \in Nat \ {0}
  BY PieceAssumption, LimitAssumption, FS_Subset
<1>2. {} \in F
  <2>1. Bytes({}) = 0 /\ Charges({}) = 0
    BY BytesFacts, ChargesFacts
  <2> QED BY <1>1, <2>1
<1>3. ASSUME NEW T \in SUBSET S, NEW p \in S \ T, T \in F
      PROVE  T \cup {p} \in F
  <2>1. T \in SUBSET Piece /\ p \in Piece \ T
    OBVIOUS
  <2>2. Bytes(T \cup {p}) = Bytes(T) + Length[p] /\ Bytes(T) \in Nat
    BY <2>1, BytesFacts
  <2>3. Charges(T \cup {p}) = Charges(T) + Charge(p) /\ Charges(T) \in Nat
    BY <2>1, ChargesFacts
  <2>4. Charge(p) \in Nat /\ Length[p] \in Nat
    BY <2>1, ChargeFacts, PieceAssumption
  <2>5. Bytes(T) <= Unit * Charges(T) /\ Length[p] <= Unit * Charge(p)
    BY <1>3
  <2>6. Unit * (Charges(T) + Charge(p)) = Unit * Charges(T) + Unit * Charge(p)
    BY <1>1, <2>3, <2>4
  <2>7. Unit * Charges(T) \in Nat /\ Unit * Charge(p) \in Nat
    BY <1>1, <2>3, <2>4
  <2>8. Bytes(T \cup {p}) <= Unit * Charges(T \cup {p})
    BY <2>2, <2>3, <2>4, <2>5, <2>6, <2>7
  <2> QED BY <2>8
<1>4. SUBSET S \subseteq F
  <2> HIDE DEF F
  <2> QED BY <1>1, <1>2, <1>3, SubsetInduction
<1> QED BY <1>4

\* A part of a set of pieces is charged no more than the whole.
LEMMA ChargesMonotone ==
  ASSUME NEW S \in SUBSET Piece, NEW T \in SUBSET S
  PROVE  Charges(T) <= Charges(S)
<1>1. T \in SUBSET Piece /\ S \ T \in SUBSET Piece /\ T \cap (S \ T) = {} /\ T \cup (S \ T) = S
  OBVIOUS
<1>2. Charges(T \cup (S \ T)) = Charges(T) + Charges(S \ T)
  BY <1>1, ChargesUnion
<1>3. Charges(T) \in Nat /\ Charges(S \ T) \in Nat
  BY <1>1, ChargesFacts
<1>4. T \cup (S \ T) = S
  BY <1>1
<1>5. Charges(S) = Charges(T) + Charges(S \ T)
  BY <1>2, <1>4, Zenon
<1> QED BY <1>3, <1>5

\* Pieces that fit the byte permits together hold at most MaxDirty bytes, unless
\* there is only one of them.
LEMMA ChargedIsBounded ==
  ASSUME NEW S \in SUBSET Piece, Charges(S) <= ByteCapacity
  PROVE  Bytes(S) <= MaxDirty \/ Cardinality(S) = 1
<1>1. CASE \A p \in S : Length[p] <= Unit * Charge(p)
  <2>1. Bytes(S) <= Unit * Charges(S)
    BY <1>1, BytesCovered
  <2>2. Charges(S) \in Nat /\ Bytes(S) \in Nat /\ Unit \in Nat
    BY ChargesFacts, BytesFacts, LimitAssumption
  <2>3. ByteCapacity \in Nat /\ Unit * ByteCapacity = MaxDirty
    BY CapacityFacts
  <2>4. Unit * Charges(S) <= Unit * ByteCapacity
    BY <2>2, <2>3
  <2> QED BY <2>1, <2>2, <2>3, <2>4
<1>2. ASSUME NEW p \in S, ~(Length[p] <= Unit * Charge(p)) PROVE Cardinality(S) = 1
  <2>1. Charge(p) = ByteCapacity /\ ByteCapacity \in Nat
    BY <1>2, ChargeFacts, CapacityFacts
  <2>2. \A q \in S : q = p
    <3> SUFFICES ASSUME NEW q \in S, q # p PROVE FALSE
      OBVIOUS
    <3>1. Charges({p}) = Charge(p)
      <4>1. {} \in SUBSET Piece /\ p \in Piece \ {} /\ {} \cup {p} = {p}
        OBVIOUS
      <4>2. Charges({} \cup {p}) = Charges({}) + Charge(p) /\ Charges({}) = 0
        BY <4>1, ChargesFacts
      <4> QED BY <2>1, <4>1, <4>2
    <3>2. Charges({p} \cup {q}) = Charges({p}) + Charge(q)
      <4>1. {p} \in SUBSET Piece /\ q \in Piece \ {p}
        OBVIOUS
      <4> QED BY <4>1, ChargesFacts
    <3>3. Charges({p} \cup {q}) <= Charges(S)
      <4>1. {p} \cup {q} \in SUBSET S
        OBVIOUS
      <4> QED BY <4>1, ChargesMonotone
    <3>4. Charge(q) \in Nat \ {0} /\ Charges(S) \in Nat
      BY ChargeFacts, ChargesFacts
    <3> QED BY <2>1, <3>1, <3>2, <3>3, <3>4
  <2>3. S = {p}
    BY <2>2
  <2> QED BY <2>3, FS_Singleton, Zenon
<1> QED BY <1>1, <1>2

\* Permits that add up bound what is free and what is charged.
LEMMA PermitBounds ==
  ASSUME Shape, Counters, PermitsConserved
  PROVE  /\ items \in 0 .. Capacity /\ bytes \in 0 .. ByteCapacity
         /\ Owned \in SUBSET Piece /\ Charges(Owned) <= ByteCapacity
<1>1. Owned \in SUBSET Piece
  BY DEF Owned, Queued, Shape
<1> DEFINE n == Cardinality(Owned)
           c == Charges(Owned)
           i == IF stage \in {"bytes", "send"} THEN 1 ELSE 0
           b == IF stage = "send" THEN Charge(current) ELSE 0
<1>2. n \in Nat
  BY <1>1, PieceAssumption, FS_Subset, FS_CardinalityType
<1>3. c \in Nat
  BY <1>1, ChargesFacts
<1>4. b \in Nat
  BY ChargeFacts DEF Shape
<1>5. items + n + i = Capacity /\ bytes + c + b = ByteCapacity
  BY DEF PermitsConserved
<1>6. ByteCapacity \in Nat /\ Capacity \in Nat
  BY CapacityFacts, LimitAssumption
<1>7. i \in Nat
  OBVIOUS
<1>8. items \in Nat /\ bytes \in Nat
  BY DEF Counters
<1> HIDE DEF n, c, i, b
<1>9. items <= Capacity /\ bytes <= ByteCapacity /\ c <= ByteCapacity
  BY <1>2, <1>3, <1>4, <1>5, <1>6, <1>7, <1>8
<1> QED BY <1>1, <1>8, <1>9, <1>6 DEF c

-----------------------------------------------------------------------------
(* The accounts hold initially and are kept by every step. *)

\* A task that has just been started holds no permit.
LEMMA InitAccountInv == Init => AccountInv
<1> SUFFICES ASSUME Init PROVE AccountInv
  OBVIOUS
<1>1. Owned = {} /\ Queued = {} /\ Len(queue) = 0
  BY DEF Init, Owned, Queued
<1>2. Cardinality({}) = 0
  BY FS_EmptySet, Zenon
<1>3. Charges({}) = 0 /\ Bytes({}) = 0
  BY ChargesFacts, BytesFacts
<1>4. Capacity \in Nat /\ ByteCapacity \in Nat /\ MaxCrashes \in Nat
  BY CapacityFacts, LimitAssumption
<1>5. Counters
  <2>1. aged \in BOOLEAN
    BY DEF Init
  <2>2. crashes \in 0 .. MaxCrashes
    BY <1>4 DEF Init
  <2> QED BY <1>4, <2>1, <2>2 DEF Init, Counters
<1>6. Distinct
  BY <1>1 DEF Init, Distinct
<1>7. PermitsConserved
  <2>1. Cardinality(Owned) = 0 /\ Charges(Owned) = 0
    BY <1>1, <1>2, <1>3
  <2> QED BY <2>1, <1>4 DEF Init, PermitsConserved
<1>8. DirtyExact
  BY <1>3 DEF Init, DirtyExact
<1> QED BY <1>5, <1>6, <1>7, <1>8 DEF AccountInv

\* A step that moves no intent and no permit.
LEMMA QuietStep ==
  ASSUME AccountInv, aged' \in BOOLEAN,
         UNCHANGED <<queue, batch, flushing, pending, dirty, permitVars, handed, stage, current,
                     crashes>>
  PROVE  AccountInv'
<1>1. Queued' = Queued /\ Owned' = Owned
  BY DEF Queued, Owned
<1>2. Counters'
  BY DEF AccountInv, Counters, permitVars
<1>3. Distinct'
  BY <1>1 DEF AccountInv, Distinct
<1>4. PermitsConserved'
  BY <1>1 DEF AccountInv, PermitsConserved, permitVars
<1>5. DirtyExact'
  BY DEF AccountInv, DirtyExact
<1> QED BY <1>2, <1>3, <1>4, <1>5 DEF AccountInv

\* The supervisor takes permits for one piece and sends its intent.
LEMMA SupplyAccounts ==
  ASSUME DurabilityInv, AccountInv, (\E p \in Piece : BeginEnqueue(p)) \/ Supervisor \/ CloseIntents
  PROVE  AccountInv'
<1>0. Shape /\ Counters /\ Distinct /\ PermitsConserved /\ DirtyExact
  BY DEF DurabilityInv, AccountInv
<1> DEFINE n == Cardinality(Owned)
           c == Charges(Owned)
           k == Charge(current)
<1>n. n \in Nat /\ c \in Nat /\ Owned \in SUBSET Piece
  <2>1. Owned \in SUBSET Piece
    BY <1>0 DEF Owned, Queued, Shape
  <2> QED BY <2>1, PieceAssumption, FS_Subset, FS_CardinalityType, ChargesFacts
<1>k. ASSUME stage \in {"item", "bytes", "send"} PROVE current \in Piece /\ k \in Nat
  BY <1>0, <1>k, ChargeFacts DEF Shape
<1>c. Capacity \in Nat /\ ByteCapacity \in Nat
  BY CapacityFacts, LimitAssumption
<1>1. ASSUME NEW p \in Piece, BeginEnqueue(p) PROVE AccountInv'
  <2>1. Owned' = Owned /\ Queued' = Queued
    BY <1>1 DEF BeginEnqueue, Owned, Queued, batchVars, flushVars
  <2>2. PermitsConserved'
    BY <1>0, <1>1, <2>1 DEF BeginEnqueue, PermitsConserved, permitVars
  <2> QED
    BY <1>0, <1>1, <2>1, <2>2 DEF BeginEnqueue, AccountInv, Counters, Distinct, DirtyExact,
       permitVars, batchVars, flushVars
<1>2. CASE AcquireItem
  <2>1. Owned' = Owned /\ Queued' = Queued
    BY <1>2 DEF AcquireItem, Owned, Queued, batchVars, flushVars
  <2>2. PermitsConserved'
    <3>1. items + n = Capacity /\ bytes + c = ByteCapacity
      BY <1>0, <1>2, <1>n DEF PermitsConserved, AcquireItem, Counters
    <3>2. items' + n + 1 = Capacity /\ bytes' + c + 0 = ByteCapacity
      BY <1>0, <1>2, <1>n, <3>1 DEF AcquireItem, Counters
    <3> QED BY <1>2, <2>1, <3>2 DEF AcquireItem, PermitsConserved
  <2>3. Counters'
    BY <1>0, <1>2 DEF AcquireItem, Counters, batchVars
  <2> QED
    BY <1>0, <1>2, <2>1, <2>2, <2>3 DEF AcquireItem, AccountInv, Distinct, DirtyExact,
       batchVars, flushVars
<1>3. CASE AcquireBytes
  <2>1. Owned' = Owned /\ Queued' = Queued
    BY <1>3 DEF AcquireBytes, Owned, Queued, batchVars, flushVars
  <2>k. k \in Nat /\ bytes >= k /\ bytes' = bytes - k
    BY <1>3, <1>k DEF AcquireBytes
  <2>2. PermitsConserved'
    <3>1. items + n + 1 = Capacity /\ bytes + c = ByteCapacity
      BY <1>0, <1>3, <1>n DEF PermitsConserved, AcquireBytes, Counters
    <3>2. items' + n + 1 = Capacity /\ bytes' + c + k = ByteCapacity
      <4> HIDE DEF k, n, c
      <4> QED BY <1>0, <1>3, <1>n, <2>k, <3>1 DEF AcquireBytes, Counters
    <3>3. k' = k
      BY <1>3 DEF AcquireBytes
    <3> QED BY <1>3, <2>1, <3>2, <3>3 DEF AcquireBytes, PermitsConserved
  <2>3. Counters'
    <3> HIDE DEF k
    <3> QED BY <1>0, <1>3, <2>k DEF AcquireBytes, Counters, batchVars
  <2> QED
    BY <1>0, <1>3, <2>1, <2>2, <2>3 DEF AcquireBytes, AccountInv, Distinct, DirtyExact,
       batchVars, flushVars
<1>4. CASE SendIntent
  <2>1. current \in Piece /\ current \notin handed /\ k \in Nat
    BY <1>0, <1>4, <1>k DEF SendIntent, Distinct
  <2>2. queue \in Seq(Piece)
    BY <1>0 DEF Shape
  <2>3. Queued' = Queued \cup {current}
    BY <1>4, <2>1, <2>2, QueuedAppend DEF SendIntent, Queued
  <2>4. Owned' = Owned \cup {current} /\ current \notin Owned
    BY <1>0, <1>4, <2>1, <2>3 DEF SendIntent, Owned, Distinct, batchVars, flushVars
  <2>5. \A i, j \in 1 .. Len(queue') : queue'[i] = queue'[j] => i = j
    <3>1. /\ Len(queue') = Len(queue) + 1 /\ Len(queue) \in Nat
          /\ \A i \in 1 .. Len(queue) : queue'[i] = queue[i]
          /\ queue'[Len(queue) + 1] = current
      BY <1>4, <2>1, <2>2 DEF SendIntent
    <3>2. \A i \in 1 .. Len(queue) : queue[i] # current
      BY <2>4 DEF Owned, Queued
    <3>3. \A i \in 1 .. Len(queue') : i \in 1 .. Len(queue) \/ i = Len(queue) + 1
      BY <3>1
    <3> QED BY <1>0, <3>1, <3>2, <3>3 DEF Distinct
  <2>6. Distinct'
    <3>1. /\ UNCHANGED <<batch, flushing, pending>>
          /\ handed' = handed \cup {current} /\ stage' = "idle"
      BY <1>4 DEF SendIntent, batchVars, flushVars
    <3>2. current \notin batch /\ current \notin flushing /\ current # pending
      BY <2>1, <2>4, PieceAssumption DEF Owned
    <3>3. /\ Queued' \cap batch' = {} /\ Queued' \cap flushing' = {} /\ batch' \cap flushing' = {}
          /\ pending' \notin Queued' \cup batch' \cup flushing'
      BY <1>0, <2>3, <3>1, <3>2 DEF Distinct
    <3>4. Owned' \subseteq handed'
      BY <1>0, <2>4, <3>1 DEF Distinct
    <3> QED BY <2>5, <3>1, <3>3, <3>4 DEF Distinct
  <2>7. PermitsConserved'
    <3>1. Cardinality(Owned') = n + 1
      <4>1. IsFiniteSet(Owned)
        BY <1>n, PieceAssumption, FS_Subset
      <4>2. Cardinality(Owned \cup {current}) = Cardinality(Owned) + 1
        BY <2>4, <4>1, FS_AddElement
      <4> QED BY <2>4, <4>2
    <3>2. Charges(Owned') = c + k
      <4>1. Charges(Owned \cup {current}) = Charges(Owned) + Charge(current)
        BY <1>n, <2>1, <2>4, ChargesFacts
      <4> QED BY <2>4, <4>1
    <3>3. items + n + 1 = Capacity /\ bytes + c + k = ByteCapacity
      BY <1>0, <1>4 DEF PermitsConserved, SendIntent
    <3>4. items' + Cardinality(Owned') + 0 = Capacity /\ bytes' + Charges(Owned') + 0 = ByteCapacity
      <4> HIDE DEF n, c, k
      <4>1. items' = items /\ bytes' = bytes /\ items \in Nat /\ bytes \in Nat
        BY <1>0, <1>4 DEF SendIntent, permitVars, Counters
      <4> QED BY <1>n, <2>1, <3>1, <3>2, <3>3, <4>1
    <3> QED BY <1>4, <3>4 DEF SendIntent, PermitsConserved
  <2> QED
    BY <1>0, <1>4, <2>6, <2>7 DEF SendIntent, AccountInv, Counters, DirtyExact,
       permitVars, batchVars, flushVars
<1>5. CASE SendRefused
  <2>1. Owned' = Owned /\ Queued' = Queued
    BY <1>5 DEF SendRefused, Owned, Queued, batchVars, flushVars
  <2>k. k \in Nat /\ items' = items + 1 /\ bytes' = bytes + k
    BY <1>5, <1>k DEF SendRefused
  <2>2. PermitsConserved'
    <3>1. items + n + 1 = Capacity /\ bytes + c + k = ByteCapacity
      BY <1>0, <1>5 DEF PermitsConserved, SendRefused
    <3>2. items' + n + 0 = Capacity /\ bytes' + c + 0 = ByteCapacity
      <4> HIDE DEF k, n, c
      <4> QED BY <1>0, <1>n, <2>k, <3>1 DEF Counters
    <3> QED BY <1>5, <2>1, <3>2 DEF SendRefused, PermitsConserved
  <2>3. Counters'
    <3> HIDE DEF k
    <3> QED BY <1>0, <1>5, <2>k DEF SendRefused, Counters, batchVars
  <2> QED
    BY <1>0, <1>5, <2>1, <2>2, <2>3 DEF SendRefused, AccountInv, Distinct, DirtyExact,
       batchVars, flushVars
<1>6. CASE CloseIntents
  <2>1. aged' \in BOOLEAN
    BY <1>0, <1>6 DEF CloseIntents, Counters, batchVars
  <2> QED BY <1>6, <2>1, QuietStep DEF CloseIntents, permitVars, batchVars, flushVars
<1> QED BY <1>1, <1>2, <1>3, <1>4, <1>5, <1>6 DEF Supervisor

\* What an admission does to the places of the intents.
LEMMA AdmitMoves ==
  ASSUME NEW p \in Piece, Admit(p), flushing = {}, batch \subseteq Piece, p \notin batch,
         DirtyExact, Counters
  PROVE  /\ batch' \cup flushing' \cup ({pending'} \ {NoPiece}) = batch \cup {p}
         /\ batch' \cap flushing' = {} /\ pending' \notin batch' \cup flushing'
         /\ pending' \in {p, NoPiece}
         /\ DirtyExact' /\ dirty' \in Nat /\ aged' \in BOOLEAN
<1> USE PieceAssumption
<1>1. CASE Take(batch) /\ pending' = p
  <2>1. aged' \in BOOLEAN
    BY <1>1 DEF Take
  <2>2. DirtyExact'
    BY <1>1, BytesFacts DEF Take, DirtyExact
  <2> QED BY <1>1, <2>1, <2>2 DEF Take
<1>2. CASE Take(batch \cup {p}) /\ pending' = NoPiece
  <2>1. aged' \in BOOLEAN
    BY <1>2 DEF Take
  <2>2. DirtyExact'
    BY <1>2, BytesFacts DEF Take, DirtyExact
  <2> QED BY <1>2, <2>1, <2>2 DEF Take
<1>3. CASE /\ batch' = batch \cup {p} /\ dirty' = dirty + Length[p] /\ pending' = NoPiece
           /\ UNCHANGED <<aged, flushing>>
  <2>1. aged' \in BOOLEAN
    BY <1>3 DEF Counters
  <2>2. batch \in SUBSET Piece /\ p \in Piece \ batch
    OBVIOUS
  <2>3. Bytes(batch \cup {p}) = Bytes(batch) + Length[p]
    BY <2>2, BytesFacts
  <2>4. DirtyExact'
    BY <1>3, <2>3 DEF DirtyExact
  <2>5. dirty' \in Nat
    BY <1>3 DEF Counters
  <2> QED BY <1>3, <2>1, <2>4, <2>5
<1> QED BY <1>1, <1>2, <1>3 DEF Admit, flushVars

\* The task gathers intents, takes a batch, or stops.
LEMMA GatherAccounts ==
  ASSUME DurabilityInv, AccountInv,
         AdmitPending \/ AdmitNext \/ FlushAged \/ FlushClosed \/ StopTask \/ Ages
  PROVE  AccountInv'
<1>0. Shape /\ Counters /\ Distinct /\ PermitsConserved /\ DirtyExact /\ ChannelClosed
  BY DEF DurabilityInv, AccountInv
<1>1. ASSUME Owned' = Owned, UNCHANGED <<supplyVars, permitVars>> PROVE PermitsConserved'
  BY <1>0, <1>1 DEF PermitsConserved, supplyVars, permitVars
<1>2. CASE AdmitPending
  <2>1. pending \in Piece /\ flushing = {} /\ batch \subseteq Piece /\ pending \notin batch
    BY <1>0, <1>2 DEF AdmitPending, Shape, ChannelClosed, Distinct
  <2>2. Admit(pending)
    BY <1>2 DEF AdmitPending
  <2>3. /\ batch' \cup flushing' \cup ({pending'} \ {NoPiece}) = batch \cup {pending}
        /\ batch' \cap flushing' = {} /\ pending' \notin batch' \cup flushing'
        /\ pending' \in {pending, NoPiece}
        /\ DirtyExact' /\ dirty' \in Nat /\ aged' \in BOOLEAN
    BY <1>0, <2>1, <2>2, AdmitMoves
  <2>4. Queued' = Queued /\ UNCHANGED <<queue, supplyVars, permitVars, crashes>>
    BY <1>2 DEF AdmitPending, Queued
  <2>5. Owned' = Owned
    BY <2>1, <2>3, <2>4, PieceAssumption DEF Owned
  <2>6. Distinct'
    <3>1. NoPiece \notin Queued /\ pending \notin Queued /\ Queued \cap batch = {}
      BY <1>0, PieceAssumption DEF Shape, Queued, Distinct
    <3>2. /\ Queued' \cap batch' = {} /\ Queued' \cap flushing' = {}
          /\ pending' \notin Queued'
      BY <2>3, <2>4, <3>1
    <3> QED BY <1>0, <2>3, <2>4, <2>5, <3>2 DEF Distinct, supplyVars
  <2> QED
    BY <1>0, <1>1, <2>3, <2>4, <2>5, <2>6 DEF AccountInv, Counters, permitVars
<1>3. CASE AdmitNext
  <2> DEFINE p == Head(queue)
  <2>1. flushing = {} /\ pending = NoPiece /\ queue \in Seq(Piece) /\ queue # <<>> /\ batch \subseteq Piece
    BY <1>0, <1>3 DEF AdmitNext, Shape, ChannelClosed
  <2>2. p \in Piece /\ Queued = {p} \cup Queued'
    BY <1>3, <2>1, QueuedTail DEF AdmitNext, Queued
  <2>3. /\ \A i, j \in 1 .. Len(queue') : queue'[i] = queue'[j] => i = j
        /\ p \notin Queued'
    <3>1. /\ p = queue[1] /\ Len(queue') = Len(queue) - 1
          /\ \A i \in 1 .. Len(queue') : queue'[i] = queue[i + 1]
          /\ Len(queue) \in Nat \ {0}
      BY <1>3, <2>1 DEF AdmitNext
    <3>2. \A i \in 1 .. Len(queue') : i + 1 \in 1 .. Len(queue) /\ i + 1 # 1
      BY <3>1
    <3>3. 1 \in 1 .. Len(queue)
      BY <3>1
    <3>4. \A i \in 1 .. Len(queue') : queue'[i] # p
      BY <1>0, <3>1, <3>2, <3>3 DEF Distinct
    <3>5. \A i, j \in 1 .. Len(queue') : queue'[i] = queue'[j] => i + 1 = j + 1
      BY <1>0, <3>1, <3>2 DEF Distinct
    <3>6. \A i, j \in 1 .. Len(queue') : i + 1 = j + 1 => i = j
      BY <3>1
    <3> QED BY <3>4, <3>5, <3>6 DEF Queued
  <2>4. Admit(p) /\ p \notin batch
    BY <1>0, <1>3, <2>2 DEF AdmitNext, Distinct
  <2>u. UNCHANGED <<supplyVars, permitVars, crashes>>
    BY <1>3 DEF AdmitNext
  <2> HIDE DEF p
  <2>5. /\ batch' \cup flushing' \cup ({pending'} \ {NoPiece}) = batch \cup {p}
        /\ batch' \cap flushing' = {} /\ pending' \notin batch' \cup flushing'
        /\ pending' \in {p, NoPiece}
        /\ DirtyExact' /\ dirty' \in Nat /\ aged' \in BOOLEAN
    BY <1>0, <2>1, <2>2, <2>4, AdmitMoves
  <2>6. Owned' = Owned
    BY <2>1, <2>2, <2>5 DEF Owned
  <2>7. Distinct'
    <3>1. Queued' \subseteq Queued /\ NoPiece \notin Queued /\ Queued \cap batch = {}
      <4>1. NoPiece \notin Queued
        BY <1>0, PieceAssumption DEF Shape, Queued
      <4> QED BY <1>0, <2>2, <4>1 DEF Distinct
    <3>2. /\ Queued' \cap batch' = {} /\ Queued' \cap flushing' = {}
          /\ pending' \notin Queued'
      BY <2>3, <2>5, <3>1
    <3> QED BY <1>0, <2>3, <2>5, <2>6, <2>u, <3>2 DEF Distinct, supplyVars
  <2> QED
    BY <1>0, <1>1, <2>5, <2>6, <2>7, <2>u DEF AccountInv, Counters, permitVars
<1>4. CASE FlushAged \/ FlushClosed
  <2>1. /\ flushing = {} /\ Take(batch) /\ UNCHANGED <<queue, pending, supplyVars, permitVars, crashes>>
    BY <1>0, <1>4 DEF FlushAged, FlushClosed, ChannelClosed
  <2>2. Queued' = Queued /\ Owned' = Owned
    BY <2>1 DEF Take, Owned, Queued
  <2>3. Distinct'
    BY <1>0, <2>1, <2>2 DEF Distinct, Take, supplyVars
  <2>4. DirtyExact'
    BY <2>1, BytesFacts DEF Take, DirtyExact
  <2>5. Counters'
    <3>1. aged' \in BOOLEAN /\ dirty' \in Nat
      BY <2>1 DEF Take
    <3> QED BY <1>0, <2>1, <3>1 DEF Counters, permitVars
  <2> QED
    BY <1>1, <2>1, <2>2, <2>3, <2>4, <2>5 DEF AccountInv
<1>5. CASE StopTask
  <2>1. aged' \in BOOLEAN
    BY <1>0, <1>5 DEF StopTask, Counters, batchVars
  <2> QED BY <1>5, <2>1, QuietStep DEF StopTask, supplyVars, batchVars, flushVars
<1>6. CASE Ages
  <2>1. aged' \in BOOLEAN
    BY <1>6 DEF Ages
  <2> QED BY <1>6, <2>1, QuietStep DEF Ages, supplyVars, flushVars
<1> QED BY <1>2, <1>3, <1>4, <1>5, <1>6

\* An error drops every intent with its permits.
LEMMA FailAccounts ==
  ASSUME DurabilityInv, AccountInv, Fail, UNCHANGED <<supplyVars, crashes>>
  PROVE  AccountInv'
<1>0. Shape /\ Counters /\ Distinct /\ PermitsConserved
  BY DEF DurabilityInv, AccountInv
<1> DEFINE n == Cardinality(Owned)
           c == Charges(Owned)
           i == IF stage \in {"bytes", "send"} THEN 1 ELSE 0
           b == IF stage = "send" THEN Charge(current) ELSE 0
<1>1. n \in Nat /\ c \in Nat
  <2>1. Owned \in SUBSET Piece
    BY <1>0 DEF Owned, Queued, Shape
  <2> QED BY <2>1, PieceAssumption, FS_Subset, FS_CardinalityType, ChargesFacts
<1>2. Owned' = {} /\ Queued' = {} /\ Len(queue') = 0
  BY DEF Fail, Owned, Queued
<1>3. items' = items + n /\ bytes' = bytes + c
  BY DEF Fail
<1>4. Counters'
  <2>1. aged' \in BOOLEAN /\ dirty' \in Nat
    BY DEF Fail
  <2> HIDE DEF n, c
  <2> QED BY <1>0, <1>1, <1>3, <2>1 DEF Counters
<1>5. Distinct'
  BY <1>0, <1>2 DEF Fail, Distinct, supplyVars
<1>6. PermitsConserved'
  <2>1. Cardinality({}) = 0
    BY FS_EmptySet, Zenon
  <2>2. Cardinality(Owned') = 0 /\ Charges(Owned') = 0
    BY <1>2, <2>1, ChargesFacts
  <2>3. items + n + i = Capacity /\ bytes + c + b = ByteCapacity
    BY <1>0 DEF PermitsConserved
  <2>4. i' = i /\ b' = b
    BY DEF supplyVars
  <2>5. items' + 0 + i = Capacity /\ bytes' + 0 + b = ByteCapacity
    <3>1. items \in Nat /\ bytes \in Nat
      BY <1>0 DEF Counters
    <3> HIDE DEF n, c, i, b
    <3> QED BY <1>1, <1>3, <2>3, <3>1
  <2> QED BY <2>2, <2>4, <2>5 DEF PermitsConserved
<1>7. DirtyExact'
  BY BytesFacts DEF Fail, DirtyExact
<1> QED BY <1>4, <1>5, <1>6, <1>7 DEF AccountInv

\* A batch is synced and committed: its permits return.
LEMMA FlushAccounts ==
  ASSUME DurabilityInv, AccountInv, SyncStep \/ Synced \/ SyncFailed \/ Commit \/ CommitFailed
  PROVE  AccountInv'
<1>0. Shape /\ Counters /\ Distinct /\ PermitsConserved /\ DirtyExact
  BY DEF DurabilityInv, AccountInv
<1>1. CASE SyncStep \/ Synced
  <2>1. /\ aged' = aged
        /\ UNCHANGED <<queue, batch, flushing, pending, dirty, permitVars, handed, stage, current,
                       crashes>>
    BY <1>1 DEF SyncStep, StartSync, FinishSync, Synced, supplyVars, batchVars, flushVars
  <2>2. aged' \in BOOLEAN
    BY <1>0, <2>1 DEF Counters
  <2> QED BY <2>1, <2>2, QuietStep
<1>2. CASE SyncFailed \/ CommitFailed
  BY <1>2, FailAccounts DEF SyncFailed, CommitFailed
<1>3. CASE Commit
  <2> DEFINE m == Cardinality(flushing)
             d == Charges(flushing)
             i == IF stage \in {"bytes", "send"} THEN 1 ELSE 0
             b == IF stage = "send" THEN Charge(current) ELSE 0
  <2>1. /\ flushing' = {} /\ UNCHANGED <<supplyVars, queue, batchVars, crashes>>
        /\ items' = items + m /\ bytes' = bytes + d
    BY <1>3 DEF Commit, ReleasePermits
  <2>2. Queued' = Queued
    BY <2>1 DEF Queued
  <2>3. /\ Owned = Owned' \cup flushing /\ Owned' \cap flushing = {}
        /\ Owned' \in SUBSET Piece /\ flushing \in SUBSET Piece
    <3>1. Owned' = Queued \cup batch \cup ({pending} \ {NoPiece})
      BY <2>1, <2>2 DEF Owned, batchVars
    <3>2. Queued \subseteq Piece
      BY <1>0 DEF Queued, Shape
    <3> QED BY <1>0, <3>1, <3>2 DEF Owned, Distinct, Shape
  <2>4. IsFiniteSet(flushing) /\ IsFiniteSet(Owned') /\ m \in Nat /\ Cardinality(Owned') \in Nat
    BY <2>3, PieceAssumption, FS_Subset, FS_CardinalityType
  <2>5. Cardinality(Owned) = Cardinality(Owned') + m
    <3>1. Cardinality(Owned' \cup flushing)
            = Cardinality(Owned') + Cardinality(flushing) - Cardinality(Owned' \cap flushing)
      BY <2>4, FS_Union
    <3>2. Cardinality({}) = 0
      BY FS_EmptySet, Zenon
    <3>3. Cardinality(Owned' \cap flushing) = 0
      BY <2>3, <3>2
    <3>4. Cardinality(Owned) = Cardinality(Owned' \cup flushing)
      BY <2>3
    <3> QED BY <2>4, <3>1, <3>3, <3>4
  <2>6. Charges(Owned) = Charges(Owned') + d /\ Charges(Owned') \in Nat /\ d \in Nat
    <3>1. Charges(Owned' \cup flushing) = Charges(Owned') + Charges(flushing)
      BY <2>3, ChargesUnion
    <3>2. Charges(Owned) = Charges(Owned' \cup flushing)
      BY <2>3
    <3> QED BY <2>3, <3>1, <3>2, ChargesFacts
  <2>7. PermitsConserved'
    <3>1. /\ items + Cardinality(Owned) + i = Capacity
          /\ bytes + Charges(Owned) + b = ByteCapacity
      BY <1>0 DEF PermitsConserved
    <3>2. i' = i /\ b' = b
      BY <2>1 DEF supplyVars
    <3>3. i \in Nat /\ b \in Nat
      BY <1>0, ChargeFacts DEF Shape
    <3>4. /\ items' + Cardinality(Owned') + i = Capacity
          /\ bytes' + Charges(Owned') + b = ByteCapacity
      <4>1. items \in Nat /\ bytes \in Nat
        BY <1>0 DEF Counters
      <4> HIDE DEF m, d, i, b
      <4> QED BY <2>1, <2>4, <2>5, <2>6, <3>1, <3>3, <4>1
    <3> QED BY <3>2, <3>4 DEF PermitsConserved
  <2>8. Distinct'
    BY <1>0, <2>1, <2>2, <2>3 DEF Distinct, supplyVars, batchVars
  <2>9. Counters'
    <3> HIDE DEF m, d
    <3> QED BY <1>0, <2>1, <2>4, <2>6 DEF Counters, batchVars
  <2>10. DirtyExact'
    BY <1>0, <2>1 DEF DirtyExact, batchVars
  <2> QED BY <2>7, <2>8, <2>9, <2>10 DEF AccountInv
<1> QED BY <1>1, <1>2, <1>3

\* A process that starts again has all its permits and no intent.
LEMMA CrashAccounts ==
  ASSUME AccountInv, Crash
  PROVE  AccountInv'
<1>1. Owned' = {} /\ Queued' = {} /\ Len(queue') = 0
  BY DEF Crash, Owned, Queued
<1>2. Cardinality({}) = 0
  BY FS_EmptySet, Zenon
<1>3. Charges({}) = 0 /\ Bytes({}) = 0
  BY ChargesFacts, BytesFacts
<1>4. Capacity \in Nat /\ ByteCapacity \in Nat /\ MaxCrashes \in Nat
  BY CapacityFacts, LimitAssumption
<1>5. Counters'
  <2>1. aged' \in BOOLEAN
    BY DEF Crash
  <2>2. crashes' \in 0 .. MaxCrashes
    BY <1>4 DEF Crash, AccountInv, Counters
  <2> QED BY <1>4, <2>1, <2>2 DEF Crash, Counters
<1>6. Distinct'
  BY <1>1 DEF Crash, Distinct
<1>7. PermitsConserved'
  <2>1. Cardinality(Owned') = 0 /\ Charges(Owned') = 0
    BY <1>1, <1>2, <1>3
  <2> QED BY <2>1, <1>4 DEF Crash, PermitsConserved
<1>8. DirtyExact'
  BY <1>3 DEF Crash, DirtyExact
<1> QED BY <1>5, <1>6, <1>7, <1>8 DEF AccountInv

\* Every intent is in one place and every permit accounted for, in every state.
THEOREM AccountInvariant == Spec => [](DurabilityInv /\ AccountInv)
<1>1. DurabilityInv /\ AccountInv /\ [Next]_vars => AccountInv'
  <2> SUFFICES ASSUME DurabilityInv, AccountInv, [Next]_vars PROVE AccountInv'
    OBVIOUS
  <2>1. CASE UNCHANGED vars
    <3>1. aged' \in BOOLEAN
      BY <2>1 DEF vars, batchVars, AccountInv, Counters
    <3> QED BY <2>1, <3>1, QuietStep DEF vars, supplyVars, batchVars, flushVars
  <2>2. CASE Ended
    BY <2>1, <2>2 DEF Ended
  <2> QED
    BY <2>1, <2>2, SupplyAccounts, GatherAccounts, FlushAccounts, CrashAccounts DEF Next, TaskStep
<1> QED BY <1>1, DurabilityInvariant, InitAccountInv, PTL DEF Spec

(***************************************************************************)
(* No permit is lost or returned twice: the free permits and those of the  *)
(* intents between the supervisor and the commit add up to the capacity of *)
(* the semaphores, on every path of enqueue, flush, failure, shutdown and  *)
(* restart (ContentCheckpointPipeline::enqueue, flush_content_checkpoint). *)
(***************************************************************************)
THEOREM PermitsAlwaysSound == Spec => []PermitsSound
<1>1. DurabilityInv /\ AccountInv => PermitsSound
  <2> SUFFICES ASSUME DurabilityInv, AccountInv PROVE PermitsSound
    OBVIOUS
  <2>1. Shape /\ Counters /\ PermitsConserved
    BY DEF DurabilityInv, AccountInv
  <2>2. items \in 0 .. Capacity /\ bytes \in 0 .. ByteCapacity
    BY <2>1, PermitBounds
  <2>3. dirty \in Nat /\ aged \in BOOLEAN /\ crashes \in 0 .. MaxCrashes
    BY <2>1 DEF Counters
  <2>4. TypeOK
    BY <2>1, <2>2, <2>3 DEF TypeOK, Shape
  <2> QED BY <2>1, <2>4 DEF PermitsSound
<1> QED BY <1>1, AccountInvariant, PTL

(***************************************************************************)
(* The verified pieces whose bits are not committed hold at most MaxDirty  *)
(* bytes, or are one piece that is larger by itself, although charges are  *)
(* counted in units and capped at the capacity; the batch counts its bytes *)
(* exactly (ContentCheckpointPipeline::enqueue, CheckpointBatchState).     *)
(***************************************************************************)
THEOREM DirtyAlwaysBounded == Spec => []DirtyBounded
<1>1. DurabilityInv /\ AccountInv => DirtyBounded
  <2> SUFFICES ASSUME DurabilityInv, AccountInv PROVE DirtyBounded
    OBVIOUS
  <2>1. Owned \in SUBSET Piece /\ Charges(Owned) <= ByteCapacity
    BY PermitBounds DEF DurabilityInv, AccountInv
  <2>2. Bytes(Owned) <= MaxDirty \/ Cardinality(Owned) = 1
    BY <2>1, ChargedIsBounded
  <2>3. dirty = Bytes(batch)
    BY DEF AccountInv, DirtyExact
  <2> QED BY <2>2, <2>3, Zenon DEF DirtyBounded, Bytes
<1> QED BY <1>1, AccountInvariant, PTL
=============================================================================
