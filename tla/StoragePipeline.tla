--------------------------- MODULE StoragePipeline ---------------------------
(***************************************************************************)
(* The storage pipeline of one download: ContentStoragePipeline and        *)
(* run_content_storage_task of                                             *)
(* crates/rstorrent-engine/src/driver/storage_pipeline.rs, with the part   *)
(* of the content driver that feeds it (driver.rs: the supervisor loop,    *)
(* block receipt, candidate verification, storage completions, the drain   *)
(* before a file selection is applied, stop_storage).                      *)
(*                                                                         *)
(* Two tasks and two bounded channels.  The driver never waits to send: a  *)
(* command that finds the channel full goes to a list of two.  The storage *)
(* task waits for a slot of the completion channel, for a job to end or    *)
(* for a command.  Peer messages are not read under backpressure.          *)
(*                                                                         *)
(* Abstractions.  A block has unit length and the job limit, which is also *)
(* the capacity of both channels, is the number of blocks the payload      *)
(* allowance holds.  The top of the task's loop is one step: what arrives  *)
(* while it prepares a write is seen by the next turn.  A batch that       *)
(* cannot be prepared is a job that fails.  The physical writes of a batch *)
(* are ordered by piece number; pieces have none here, so a batch is       *)
(* written in any order.  A failed write leaves the disk as it was.        *)
(* Checkpoints (Checkpoint), the permits jobs wait for (StorageExecution), *)
(* leaf diagnosis (LeafDiagnosis) and read plans are elsewhere.            *)
(***************************************************************************)
EXTENDS Integers, Sequences, FiniteSets, SequencesExt, FiniteSetsExt

CONSTANTS
  Piece, Blocks,  \* pieces, and blocks in each
  Candidate,      \* v2 pieces whose bytes are on disk and whose hashes are not known yet
  HashRange,          \* pieces one hash response authenticates at most
  Limit,          \* content_storage_job_limit
  High,           \* intake high watermark
  Writers, Hashers, Batch, \* storage_execution_limits, CONTENT_STORAGE_WRITE_BATCH_BLOCKS
  MayFail         \* whether writes may fail and hashes may mismatch

ASSUME StoragePipelineAssumption ==
  /\ IsFiniteSet(Piece) /\ Candidate \subseteq Piece
  /\ {Blocks, HashRange, Limit, High, Writers, Hashers, Batch} \subseteq Nat \ {0}
  /\ High <= Limit /\ MayFail \in BOOLEAN

VARIABLES
  intake,      \* pending list, command channel, job and byte counters, pressure, error
  writes, hashes, \* commands the task took and has not started
  running,     \* jobs under way
  finished,    \* pending_completions of the task
  completions, \* the completion channel
  lost,        \* commands of failed batches that no completion will name
  task,        \* top, select or ended
  driver,      \* where the driver is
  closed, cancelled, \* the command sender is gone; the cancellation token
  piece, received, stored, \* the driver's view of each piece
  disk         \* blocks whose write took effect

vars == <<intake, writes, hashes, running, finished, completions, lost, task, driver,
          closed, cancelled, piece, received, stored, disk>>
queues == <<writes, hashes, running, finished, completions, lost>>
swarm == <<piece, received, stored>>

PendingQueue == 2  \* CONTENT_STORAGE_PENDING_QUEUE
Low == (High * 2) \div 3
Command == [kind : {"write", "verify", "candidate"}, piece : Piece, block : 0..Blocks]
BlocksOf(p) == {p} \X (1..Blocks)
IsWrite(c) == c.kind = "write"

Init ==
  /\ intake = [pending |-> <<>>, commands |-> <<>>, jobs |-> 0, resident |-> 0,
               pressured |-> FALSE, error |-> "none"]
  /\ writes = <<>> /\ hashes = <<>> /\ running = {} /\ finished = <<>> /\ completions = <<>>
  /\ lost = {} /\ task = "top" /\ driver = "top" /\ closed = FALSE /\ cancelled = FALSE
  /\ piece = [p \in Piece |-> IF p \in Candidate THEN "candidate" ELSE "wanted"]
  /\ received = [p \in Piece |-> 0] /\ stored = [p \in Piece |-> 0]
  /\ disk = UNION {BlocksOf(p) : p \in Candidate}

(***************************************************************************)
(* The driver's end: enqueue, flush_pending, is_backpressured.             *)
(***************************************************************************)

\* update_disk_pressure: pressure starts at the high watermark, ends at the low one.
Pressure(was, resident) == IF was THEN resident > Low ELSE resident >= High

Enqueue(s, c) ==
  LET r == s.resident + (IF IsWrite(c) THEN 1 ELSE 0)
      q == [s EXCEPT !.resident = r, !.pressured = Pressure(@, r), !.jobs = @ + 1]
  IN IF s.error # "none" THEN s
     ELSE IF r > Limit THEN [s EXCEPT !.error = "payload"]
     ELSE IF Len(s.pending) >= PendingQueue THEN [s EXCEPT !.error = "pending"]
     ELSE IF s.pending # <<>> \/ Len(s.commands) >= Limit THEN [q EXCEPT !.pending = Append(@, c)]
     ELSE [q EXCEPT !.commands = Append(@, c)]

EnqueueAll(s, S) ==
  FoldSet(LAMBDA p, acc : Enqueue(acc, [kind |-> "candidate", piece |-> p, block |-> 0]), s, S)

\* mutant: the pending list is never sent
FlushedNever(s) == s

Flushed(s) ==
  LET n == Min({Len(s.pending), Limit - Len(s.commands)})
  IN [s EXCEPT !.commands = @ \o SubSeq(s.pending, 1, n),
               !.pending = SubSeq(@, n + 1, Len(@))]

\* mutant: only a command that was not sent counts as pressure
BackpressuredByPending == intake.pending # <<>>

Backpressured == intake.pressured \/ intake.pending # <<>> \/ intake.jobs >= Limit

Complete == \A p \in Piece : piece[p] = "have"

\* Where the driver goes after a handler: on an error it stops and cancels.
After(s, where) ==
  /\ intake' = s
  /\ IF s.error = "none" THEN driver' = where /\ UNCHANGED <<closed, cancelled>>
     ELSE driver' = "stopping" /\ closed' = TRUE /\ cancelled' = TRUE

\* The top of the supervisor loop; a complete download stops the pipeline.
SupervisorTop ==
  /\ driver = "top"
  /\ intake' = Flushed(intake)
  /\ driver' = IF Complete THEN "stopping" ELSE "wait"
  /\ closed' = Complete
  /\ UNCHANGED <<queues, task, cancelled, swarm, disk>>

Deadline ==
  /\ driver = "wait"
  /\ driver' = "top"
  /\ UNCHANGED <<intake, queues, task, closed, cancelled, swarm, disk>>

\* A block arrives: one write command.
ReceiveBlock(p) ==
  /\ driver = "wait" /\ ~Backpressured
  /\ piece[p] = "wanted" /\ received[p] < Blocks
  /\ received' = [received EXCEPT ![p] = @ + 1]
  /\ After(Enqueue(intake, [kind |-> "write", piece |-> p, block |-> received[p] + 1]), "top")
  /\ UNCHANGED <<queues, task, piece, stored, disk>>

\* adopt_authenticated_pieces: a hash response makes candidates verifiable, all at once.
ReceiveHashes(S) ==
  /\ driver = "wait" /\ ~Backpressured
  /\ S # {} /\ Cardinality(S) <= HashRange /\ \A p \in S : piece[p] = "candidate"
  /\ piece' = [p \in Piece |-> IF p \in S THEN "checking" ELSE piece[p]]
  /\ After(EnqueueAll(intake, S), "top")
  /\ UNCHANGED <<queues, task, received, stored, disk>>

\* completion_received.
Finished(s, c) ==
  LET r == s.resident - (IF IsWrite(c) THEN 1 ELSE 0)
  IN [s EXCEPT !.resident = r, !.pressured = Pressure(@, r), !.jobs = @ - 1]

\* mutant: the piece is verified once all its blocks have arrived
ReadyToVerifyReceived(p) == received[p] = Blocks

\* piece_ready_for_generation, counting the write that has just completed.
ReadyToVerify(p) == stored[p] + 1 = Blocks

\* handle_storage_completion, in the supervisor loop or in the drain of a selection.
Handle(c, where) ==
  LET p == c.command.piece
      s == Finished(intake, c.command)
  IN \/ /\ c.command.kind = "write" /\ c.ok
        /\ stored' = [stored EXCEPT ![p] = @ + 1]
        /\ IF ReadyToVerify(p)
           THEN /\ piece' = [piece EXCEPT ![p] = "hashing"]
                /\ After(Enqueue(s, [kind |-> "verify", piece |-> p, block |-> 0]), where)
           ELSE After(s, where) /\ UNCHANGED piece
        /\ UNCHANGED received
     \/ /\ c.command.kind = "write" /\ ~c.ok
        /\ After([s EXCEPT !.error = "write"], where)
        /\ UNCHANGED swarm
     \/ /\ c.command.kind # "write"
        /\ piece' = [piece EXCEPT ![p] = IF c.ok THEN "have" ELSE "wanted"]
        /\ received' = [received EXCEPT ![p] = IF c.ok THEN @ ELSE 0]
        /\ stored' = [stored EXCEPT ![p] = IF c.ok THEN @ ELSE 0]
        /\ After(s, where)

Completion ==
  /\ driver \in {"wait", "drainWait"} /\ completions # <<>>
  /\ Handle(Head(completions), IF driver = "wait" THEN "top" ELSE "drain")
  /\ completions' = Tail(completions)
  /\ UNCHANGED <<writes, hashes, running, finished, lost, task, disk>>

\* A new file selection: all storage jobs are drained before it is applied.
BeginSelection ==
  /\ driver = "wait"
  /\ driver' = "drain"
  /\ UNCHANGED <<intake, queues, task, closed, cancelled, swarm, disk>>

DrainTurn ==
  /\ driver = "drain"
  /\ IF intake.jobs = 0
     THEN driver' = "restarting" /\ closed' = TRUE /\ UNCHANGED intake
     ELSE driver' = "drainWait" /\ intake' = Flushed(intake) /\ UNCHANGED closed
  /\ UNCHANGED <<queues, task, cancelled, swarm, disk>>

\* reconcile_file_selection after stop_storage(false): a new pipeline, and every piece of
\* a v2 torrent whose sources exist and whose hash is known is verified first.
Restart(S) ==
  /\ driver = "restarting" /\ task = "ended"
  /\ S \subseteq {p \in Candidate : piece[p] = "wanted"}
  /\ task' = "top"
  /\ received' = [p \in Piece |-> IF piece[p] = "wanted" THEN 0 ELSE received[p]]
  /\ stored' = [p \in Piece |-> IF piece[p] = "wanted" THEN 0 ELSE stored[p]]
  /\ piece' = [p \in Piece |-> IF p \in S THEN "checking" ELSE piece[p]]
  /\ LET s == EnqueueAll(intake, S)
     IN /\ intake' = s
        /\ driver' = IF s.error = "none" THEN "top" ELSE "stopping"
        /\ closed' = (s.error # "none") /\ cancelled' = (s.error # "none")
  /\ UNCHANGED <<queues, disk>>

\* The user pauses or removes the torrent; only the supervisor's wait looks at the token.
Cancel ==
  /\ driver = "wait"
  /\ driver' = "stopping" /\ closed' = TRUE /\ cancelled' = TRUE
  /\ UNCHANGED <<intake, queues, task, swarm, disk>>

\* shutdown: the task is joined, the counters are cleared.
Stopped ==
  /\ driver = "stopping" /\ task = "ended"
  /\ driver' = "stopped"
  /\ intake' = [intake EXCEPT !.jobs = 0, !.resident = 0, !.pressured = FALSE, !.pending = <<>>]
  /\ completions' = <<>>
  /\ UNCHANGED <<writes, hashes, running, finished, lost, task, closed, cancelled, swarm, disk>>

(***************************************************************************)
(* The storage task.                                                       *)
(***************************************************************************)

JobsOf(kinds) == {j \in running : j[1].kind \in kinds}

Room == Limit - Len(completions)

\* The batches started while a writer is free.
Batches(w) ==
  LET n == Min({Writers - Cardinality(JobsOf({"write"})), (Len(w) + Batch - 1) \div Batch})
  IN [i \in 1..n |-> SubSeq(w, (i - 1) * Batch + 1, Min({i * Batch, Len(w)}))]

\* The commands of s that are writes, or those that are not, in their order.
Sorted(s, writing) ==
  LET kept[i \in 0..Len(s)] ==
        IF i = 0 THEN <<>>
        ELSE IF IsWrite(s[i]) = writing THEN Append(kept[i - 1], s[i]) ELSE kept[i - 1]
  IN kept[Len(s)]

TaskTop ==
  LET w == writes \o Sorted(intake.commands, TRUE)
      h == hashes \o Sorted(intake.commands, FALSE)
      sent == Min({Len(finished), Room})
      batches == Batches(w)
      nw == Min({Len(w), Len(batches) * Batch})
      nh == Min({Len(h), Hashers - Cardinality(JobsOf({"verify", "candidate"}))})
  IN /\ task = "top" /\ ~cancelled
     /\ intake' = [intake EXCEPT !.commands = <<>>]
     /\ writes' = SubSeq(w, nw + 1, Len(w)) /\ hashes' = SubSeq(h, nh + 1, Len(h))
     /\ running' = running \cup ToSet(batches) \cup {<<h[i]>> : i \in 1..nh}
     /\ completions' = completions \o SubSeq(finished, 1, sent)
     /\ finished' = SubSeq(finished, sent + 1, Len(finished))
     /\ task' = IF closed /\ writes' = <<>> /\ hashes' = <<>> /\ running' = {} /\ finished' = <<>>
                THEN "ended" ELSE "select"
     /\ UNCHANGED <<lost, driver, closed, cancelled, swarm, disk>>

\* After cancellation: queues are dropped, running jobs are awaited.
CancelledTop ==
  /\ task = "top" /\ cancelled
  /\ writes' = <<>> /\ hashes' = <<>> /\ finished' = <<>>
  /\ intake' = [intake EXCEPT !.commands = <<>>]
  /\ task' = IF running = {} THEN "ended" ELSE "top"
  /\ UNCHANGED <<running, completions, lost, driver, closed, cancelled, swarm, disk>>

\* The orders in which the commands of a job may be carried out.
Orders(j) == {o \in [DOMAIN j -> ToSet(j)] : ToSet(o) = ToSet(j)}

\* mutant: the batch returns at its first failure without reporting it
JobEndsSilent(j, o, k, m) ==
  /\ task = "select" \/ (task = "top" /\ cancelled)
  /\ j \in running /\ (k = Len(o) \/ (MayFail /\ k < m))
  /\ running' = running \ {j}
  /\ disk' = IF IsWrite(j[1]) THEN disk \cup {<<o[i].piece, o[i].block>> : i \in 1..k} ELSE disk
  /\ finished' = IF cancelled THEN finished
                 ELSE finished \o [i \in 1..k |-> [command |-> o[i], ok |-> TRUE]]
  /\ lost' = IF cancelled THEN lost ELSE lost \cup {o[i] : i \in (k + 1)..Len(o)}
  /\ task' = "top"
  /\ UNCHANGED <<intake, writes, hashes, completions, driver, closed, cancelled, swarm>>

\* A job carries out the commands of o in turn: the first k succeed.  A hash compares or
\* does not.  A batch of writes ends at its first failure: commands up to the m-th are
\* reported as failed, and the completions of those after it are dropped.  A write that
\* has no plan drops those behind it in the batch (k = 0), an operation that cannot be
\* prepared fails them all (k = 0, m = Len(o)), and a physical write that fails drops
\* the physical writes after it.
JobEnds(j, o, k, m) ==
  /\ task = "select" \/ (task = "top" /\ cancelled)
  /\ j \in running /\ (k = Len(o) \/ (MayFail /\ k < m))
  /\ running' = running \ {j}
  /\ disk' = IF IsWrite(j[1]) THEN disk \cup {<<o[i].piece, o[i].block>> : i \in 1..k}
             ELSE IF k = 0 THEN disk \ BlocksOf(j[1].piece) ELSE disk
  /\ finished' = IF cancelled THEN finished
                 ELSE finished \o [i \in 1..m |-> [command |-> o[i], ok |-> i <= k]]
  /\ lost' = IF cancelled THEN lost ELSE lost \cup {o[i] : i \in (m + 1)..Len(o)}
  /\ task' = "top"
  /\ UNCHANGED <<intake, writes, hashes, completions, driver, closed, cancelled, swarm>>

SendCompletion ==
  /\ task = "select" /\ ~cancelled /\ finished # <<>> /\ Room > 0
  /\ completions' = Append(completions, Head(finished))
  /\ finished' = Tail(finished)
  /\ task' = "top"
  /\ UNCHANGED <<intake, writes, hashes, running, lost, driver, closed, cancelled, swarm, disk>>

\* A command, the end of the channel or the token wakes the task; the top deals with it.
Wake ==
  /\ task = "select" /\ (intake.commands # <<>> \/ closed \/ cancelled)
  /\ task' = "top"
  /\ UNCHANGED <<intake, queues, driver, closed, cancelled, swarm, disk>>

Over ==
  /\ driver = "stopped"
  /\ UNCHANGED vars

Supervise == SupervisorTop \/ Deadline \/ Completion \/ DrainTurn \/ Stopped
             \/ \E S \in SUBSET Candidate : Restart(S)
Work == TaskTop \/ CancelledTop \/ SendCompletion \/ Wake
JobEnd ==
  \E j \in running : \E o \in Orders(j), m \in DOMAIN j : \E k \in 0..m : JobEnds(j, o, k, m)
Next ==
  \/ Supervise \/ Work \/ JobEnd \/ BeginSelection \/ Cancel \/ Over
  \/ \E p \in Piece : ReceiveBlock(p)
  \/ \E S \in SUBSET Candidate : ReceiveHashes(S)
Spec == Init /\ [][Next]_vars

\* The driver and the storage task are scheduled, jobs end, and the rotating priority of
\* the supervisor's select takes a completion that is there again and again.
Fairness ==
  /\ WF_vars(Supervise) /\ WF_vars(Work) /\ WF_vars(JobEnd)
  /\ SF_vars(Completion) /\ SF_vars(SendCompletion)
FairSpec == Spec /\ Fairness
-----------------------------------------------------------------------------
TypeOK ==
  /\ intake.pending \in Seq(Command) /\ intake.commands \in Seq(Command)
  /\ intake.jobs \in Nat /\ intake.resident \in 0..Limit /\ intake.pressured \in BOOLEAN
  /\ intake.error \in {"none", "payload", "pending", "write"}
  /\ writes \in Seq(Command) /\ hashes \in Seq(Command)
  /\ running \subseteq Seq(Command)
  /\ finished \in Seq([command : Command, ok : BOOLEAN])
  /\ completions \in Seq([command : Command, ok : BOOLEAN]) /\ Len(completions) <= Limit
  /\ lost \subseteq Command /\ task \in {"top", "select", "ended"}
  /\ driver \in {"top", "wait", "drain", "drainWait", "restarting", "stopping", "stopped"}
  /\ piece \in [Piece -> {"candidate", "checking", "wanted", "hashing", "have"}]
  /\ received \in [Piece -> 0..Blocks] /\ stored \in [Piece -> 0..Blocks]

\* The commands in the two channels and the queues of both tasks.
Reported(s) == [i \in DOMAIN s |-> s[i].command]
Place ==
  [pending |-> ToSet(intake.pending), commands |-> ToSet(intake.commands),
   writes |-> ToSet(writes), hashes |-> ToSet(hashes),
   running |-> UNION {ToSet(j) : j \in running},
   finished |-> ToSet(Reported(finished)), completions |-> ToSet(Reported(completions)),
   lost |-> lost]
InFlight == UNION {Place[k] : k \in DOMAIN Place}

\* No command is in two places, or twice in one.
Once ==
  /\ \A s \in {intake.pending, intake.commands, writes, hashes,
              Reported(finished), Reported(completions)} \cup running : IsInjective(s)
  /\ \A i, j \in running : i # j => ToSet(i) \cap ToSet(j) = {}
  /\ \A k, l \in DOMAIN Place : k # l => Place[k] \cap Place[l] = {}

\* a failed write is reported to the driver, which stops when it hears of it
FailureReported ==
  \E r \in ToSet(finished) \cup ToSet(completions) : IsWrite(r.command) /\ ~r.ok

\* Every command is in one place, once, until its completion is handled, and the job
\* counter and the payload counter, which decide backpressure and when a selection may be
\* applied, are the number of commands and of blocks there.  A command whose completion
\* was dropped stays counted for ever, so a failure of its batch must be on its way to
\* the driver: otherwise a drain would wait for a completion that never comes.
JobsConserved ==
  driver # "stopped" /\ ~cancelled =>
    /\ Once
    /\ intake.jobs = Cardinality(InFlight)
    /\ intake.resident = Cardinality({c \in InFlight : IsWrite(c)})
    /\ lost # {} => FailureReported

\* A piece is hashed only when every block the hash will read is on disk.
HashSeesWrites ==
  \A j \in running : j[1].kind = "verify" => BlocksOf(j[1].piece) \subseteq disk

\* A drained pipeline is empty: when a new file selection is applied, and the old pipeline
\* is about to be replaced, no command is left anywhere, none was dropped, every block that
\* was received is stored and no piece waits for the result of a hash.
DrainedEmpty ==
  driver = "restarting" =>
    /\ InFlight = {}
    /\ \A p \in Piece : /\ piece[p] \in {"candidate", "wanted", "have"}
                        /\ piece[p] = "wanted" => stored[p] = received[p]

\* The pipeline's state is well formed, every command is accounted for while it runs,
\* dropped completions included, and nothing is left when a drain is over.
PipelineSound == TypeOK /\ JobsConserved /\ DrainedEmpty

\* Two local commands suffice: no command is ever refused by a full list or by the payload
\* allowance, so a healthy download never fails on its own bounds (Tactical 025: "Two
\* local pending commands cover a saturated write queue plus a completion-triggered verify
\* command").  The premise is needed: a hash response and a restart enqueue the
\* verification of every candidate they find without waiting for room.
NoIntakeOverflow ==
  Cardinality(Candidate) <= PendingQueue => intake.error \notin {"payload", "pending"}

\* Backpressure ends: the two tasks never wait for each other.
PressureEnds == Backpressured ~> (~Backpressured \/ driver = "stopped")

\* A drain for a new selection, and a stop, end.
DrainEnds == (driver \in {"drain", "stopping", "restarting"}) ~> (driver \in {"top", "stopped"})

\* Driver and storage task keep each other moving: pressure, drains and stops all end.
QueuesMove == PressureEnds /\ DrainEnds
=============================================================================
