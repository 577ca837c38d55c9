# TLA+ models of JSTorrent

JSTorrent is a BitTorrent client: a Rust engine (`crates/rstorrent-*`) under
desktop, Android, iOS, web and browser-extension front ends. This directory
models the part of the engine where an error loses data or stalls a download:
how blocks are requested from untrusted peers, written, hashed and published,
how a corrupt piece is diagnosed, how verified pieces become durable and stay
readable while the file selection changes, how torrents share the session's
budgets, slots and connections, and how a uTP connection turns lossy datagrams
into a stream.

* `*.tla` are the modules, `MC*.tla` and `*.cfg` their instances for TLC,
  `*Proofs.tla` the theorems checked by TLAPS.
* `PROJECT.json` lists components, runs, mutants, the map from definitions to
  source lines, findings, hazards and theorems.

To check: `tlc -config Swarm_piece.cfg MCSwarm`, `tlapm SwarmProofs.tla`.

## 1. Inventory

### Parts of the system

| part | state | operations | talks to |
|---|---|---|---|
| swarm request owner (`swarm.rs`) | connections, availability, piece plans, block phases, request attempts, per-piece and torrent counters, storage joins | add/remove connection, choke, availability, receive, reject, expire, plan, schedule (ordinary, endgame, streaming), finish write, hash begin/finish, verify, reset, replace wanted, cancel all | called only by the driver; pure, no I/O |
| content driver (`driver.rs`, `driver/control.rs`) | run loop of one torrent: peers, storage completions, control messages, leaf diagnosis, contributor routes | handle message, handle storage completion, schedule, reconcile selection, cleanup | owns the swarm; sends to storage, checkpoint, peers |
| storage pipeline (`driver/storage_pipeline.rs`) | pending list, command and completion channels, running jobs, pressure | enqueue, write, hash, diagnose, drain, stop | driver through bounded channels; slots of the session |
| durability checkpoint (`checkpoint.rs`, `driver/storage_pipeline.rs`) | permits, intent channel, open batch, running syncs | enqueue, admit, flush, sync targets, commit, shutdown | driver (intents), session store (`pieces_durable`) |
| selective storage, part file, file pool | files, retained sources, part-file slots, verified pieces, leases | read, write, promote, demote, release slots, resume, full check | storage pipeline, driver, session store |
| piece picker, availability | ranking of inactive pieces | add, remove, pick, reserve | swarm |
| session resources (`session_resources.rs`) | request, payload and piece budgets with two deficit queues; execution slots; dial queue | reserve, release, wait, grant, cancel | every torrent |
| peer budget (`peer_budget.rs`), listener (`incoming.rs`) | permits by direction and phase, connection limit | dial, accept, establish, drop, reconfigure, disable | every torrent, listener |
| bandwidth | token buckets | reserve, refill | every torrent |
| peer registry and runtime | known peers, backoff, attempts, admitted connections | dial, admit, retry, ban | driver, incoming listener |
| v2 hash scheduler | proofs to fetch, requests in flight | request, accept, reject, time out | driver, peers |
| upload scheduler, seeding | unchoked peers, upload queues | rotate, serve, cancel | driver, peers |
| trackers, DHT, PEX | tiers, retry times, routing table | announce, rotate, bootstrap | driver |
| uTP, MSE, codecs (`rstorrent-protocol`) | per-connection protocol state | send, receive, acknowledge, parse | peer I/O |
| metadata exchange | pieces of the info dictionary | request, accept, verify | driver |
| session (`rstorrent-session`) | catalog, intents, have bits, queue order | add, start, stop, persist, auto-manage | engine, clients |
| gateway, remote access, clients | pairing, views, sessions | out of the download path | session |

### What is hard, and the property that makes each part right

* **Request ownership.** One block may be asked of several peers (endgame,
  streaming) and each request may end by an answer, a choke, a reject, a timeout,
  a disconnect, a supersession, a pre-emption or teardown, in any order. A block
  must be *Requested* exactly while somebody still owes it, and every counter
  must be debited exactly once, since all subtractions are checked and an
  underflow ends the torrent.
* **The write/hash join.** Writes and hashes complete in any order. A completion
  of an earlier generation of a piece must not be counted in a later one, no
  write may be in flight under a hash, and no unverified piece may be published.
* **Attribution.** A sender may leave, and its attempt be trimmed from the
  history, before its block is found corrupt.
* **Caches.** The first missing block and the request cache of a piece are
  incremental; a stale one makes a block unschedulable for good.
* **Diagnosis.** The storage job of a diagnosis outlives it.
* **Durability.** Sync, commit and crash in any order; permits that block the run
  loop; a batch that nobody fills.
* **Selection.** Bytes of a piece live in files and in a slot of the part file; the
  route is chosen by the selection, which changes, and a death may fall between any
  two steps of a change.
* **Shared resources.** Counters that are several atomics, wake-ups sent after the
  lock is released, turns kept for a torrent that stopped asking, a limit that is
  lowered while earlier victims are still closing.
* **Two tasks, two bounded channels.** Driver and storage task each wait for room
  the other makes.
* **Sequence numbers that wrap,** lost, duplicated and reordered datagrams, a close
  that crosses data.

The hazards are listed with their source lines and properties in `PROJECT.json`.

## 2. Modules

```
Swarm  <--extends--  FastPeer          (requests, and the wire to Fast peers)
  |  FinishDiagnosis(any blocks)
LeafDiagnosis
Checkpoint
  |  CheckpointPiece (sync and commit in one step)
SelectiveStorage
StoragePipeline   StorageExecution   SessionResources   PeerAdmission
UtpTransport  --implements-->  ByteStream

proofs:  Swarm <- FastPeer <- SwarmProofs
         LeafDiagnosisProofs   CheckpointProofs   SelectiveStorageProofs
         StoragePipelineProofs   PeerAdmissionProofs   UtpTransportProofs
                                                           (each over its module)
         SessionResources, StorageExecution <- SessionResourcesProofs
```

Modules that are not linked by EXTENDS or INSTANCE meet at an abstraction named in
their headers: StoragePipeline leaves checkpoints to Checkpoint and execution permits
to StorageExecution; SelectiveStorage takes sync and commit as one step, which
Checkpoint justifies; Swarm takes the session's budgets as any answer.

### Swarm

`SwarmState` together with the driver handlers that call it and the storage jobs
they start. One action stands for one handler, with everything it does to the
swarm. The correspondence of the main variables:

| TLA+ | code |
|---|---|
| `conn`, `choking`, `initial`, `avail`, `allowedFast`, `requests` | `ConnectionState` |
| `planned`, `phase`, `source`, `evidence`, `attempts` | `SwarmState.pieces`, `BlockState`, its retained `RequestAttempt`s |
| `active`, `nextId` | `active_attempts`, `next_attempt_id` |
| `pieceMissing`, `pieceActive`, `cursor` | counters and cursor of a piece plan |
| `activePieces`, `requestable` | `active_pieces`, `requestable_pieces` |
| `count`, `outstanding`, `contributions` | torrent-wide block counters, `outstanding_request_bytes`, unverified contributor blocks |
| `join` | `PieceStorageJoin` |
| `routes` | the driver's `contributor_attempts` |
| `banned` | peers `record_failed_piece_contributors` has yet to close in the same handler |
| `writes`, `written`, `hashes`, `hashed` | accepted storage commands and completions not yet handled |
| `disk`, `have` | bytes on disk, published pieces |
| `mode` | running; stopping (the loop has ended); cancelled (`cancel_all` ran); stopped (storage joined) |

`Idle` is the guard of every handler: the loop is running and no handler is
unfinished. Peers may send any message at any time and any payload may be
corrupt. Storage jobs execute in any order, may fail, and a failed write may leave
part of its payload on disk.

Abstractions: clocks are nondeterministic (any active request may be overdue);
the request window of a connection is any value up to its maximum, so scheduling
may stop at any point; the picker ranks inactive pieces in any order; a block has
length one; the terminal dispositions are one value, since the code only tells
*Requested*, *PayloadReceived* and the rest apart; messages that change nothing
(a redundant payload, a stale reject) are stuttering steps here and actions in
FastPeer. Left out: candidate verification (StoragePipeline), dialling and session-wide
budgets (PeerAdmission, SessionResources), upload.
Connection identifiers are never used twice, as in `torrent_peer.rs`.

### FastPeer

Swarm composed with the wire to well-behaved Fast peers, which answer every request
they were sent exactly once, cancelled or not. All dispositions of `receive_block`
and `reject_request` and the decision of `handle_message` to close the peer are
actions. An answer names a block, not an attempt: `OwedIsRemembered` says when an
attempt that is still owed may be forgotten, and the first two observations of
section 4 are its exceptions.

### LeafDiagnosis

In Swarm a diagnosis ends with any non-empty set of blocks. This module says which
set it is: the local leaves come from a storage job that names a piece but no
generation and cannot be withdrawn, the authenticated leaves from peers, and a
deadline falls back to the whole piece.

### Checkpoint

`enqueue` in its three awaits (item permit, byte permits, channel), the checkpoint
task with its batch, the put-back intent, concurrent sync calls, commit, every
error path, shutdown, and the death of the process at any point. A sync call makes
durable what was written *before the call started*; a commit that reports an error
may have happened or not. Time is the flag `aged`. The wait for the next intent
polls the channel before the timer, so `FlushAged` requires an empty channel.

### SelectiveStorage

A *span* is the overlap of a piece and a file. Its bytes may be in the file, in the
slot of the piece, in both or in neither, good or not. `present`, `bytes`, `slots`,
`part` are the disk, `unsynced` is what a death may take, `stored`, `committed`,
`pendingCheck` are the session store, and `selection`, `retained`, `pending`,
`verified` are the fields of the same names (`skipped_sources`, `pending_promotions`).
A selection change is committed by the store first. The reconciliation is then one
action per durable step: routes (`BeginReconcile`), each promoted file created, filled
from the slots and synced, the new selection, each slot released, the invalidated
pieces persisted. `Die` may fall between any two and loses any subset of what was not
synced. A resume is accepted on file lengths and slots alone or goes through a full
check, as `decide_resume_admission` says, and both end with the same restoration of
absent files. `doubtful` is a history variable: the spans `CommittedIsReadable` makes
no promise for. It exists because the code makes none there (section 4).

### StoragePipeline

Driver and storage task with the pending list of two, the bounded command and
completion channels, write batches, concurrent jobs, the payload allowance and the
pressure flag, the drain before a selection is applied, restart, cancellation and stop.
The top of the storage task's loop is one step, its `select!` another, so that whatever
arrives in between is seen one turn later. A batch of writes ends at its first failure
(`JobEnds`): what was written before is reported, the failing write is, and the
completions of those behind it are dropped, as `execute_content_write_job` and
`prepare_content_storage_writes` do on their three early returns. Nobody will hear of
those commands again, but the job and payload counters still hold them; `lost` is where
they are. A command that is under way is in one of eight places (`Place`: pending list,
command channel, the two queues of the task, a running job, its unsent completions, the
completion channel, `lost`). `JobsConserved` ties the two counters to what is there and
says why a dropped completion does no harm: whenever there is one, the failure of its
batch is on its way to the driver (`FailureReported`), which then stops and cancels
instead of draining. Sorting commands into the task's two queues (`Sorted`) is a
recursive function, which the proofs can expand.

### SessionResources, StorageExecution, PeerAdmission

The three parts of `session_resources.rs` with their callers. *SessionResources*: every
budget is a session counter and a usage counter per torrent, each its own atomic, so a
reservation or release is several steps that interleave; the two admission queues are
the deficit round robin of the code, with the panic of `try_admit` as an outcome: credit
is earned a quantum a turn, so a cost above a quantum takes several.
*StorageExecution*: the fair queue over roots and torrents, with the change under the
mutex and the `notify_waiters` after it as two steps, and a waiter that arms its future before it looks. *PeerAdmission*:
`PeerBudget` with its permits, phases and evictions, `FairDialAdmission`, the dial
loops of a content and a metadata torrent (the pacer and the cohort of the metadata
loop are not modelled: it may ask for a turn at any time and is obliged to only while it
is ready), and the accept loop against the two steps that disable a listener. Removal from a queue is `RemoveFirst` of the community modules
or the recursive function `Retain`, which the proofs can expand.

### UtpTransport and ByteStream

`ByteStream` is the abstract specification: each side writes units, the other is given
a prefix of them in order, an end of stream comes after everything that was written,
and a side may go down. `UtpTransport` has two endpoints, each with send ledger,
receive ledger, retransmission queue and acknowledgement schedule, over a network that
loses, duplicates and reorders. A packet carries the position of its unit, which the
code does not: that is how a wrong delivery is told from a right one. `StreamSpec`, the
refinement, maps `closing` to a FIN in the send ledger, `ended` to the EOF of the
receive ledger and `down` to the terminal states. A datagram may be late by the whole
connection, so `SequenceAssumption` keeps a script below half the sequence space: a
packet that old is what 2^16 numbers rule out in the code. The congestion window is not a
variable: a retransmission it could refuse may wait, one it cannot refuse (`Escapes`: a
fast one, one with nothing in flight, one without payload) needs no room in the peer's
window either (`Admissible`). The accepted side writes and
closes only after it has read something, as `incoming.rs` does (the handshake is read
first, `io.shutdown` at `incoming.rs:3349` ends the session).

## 3. Runs

With two workers every run ends within five minutes.

| run | instance | shows |
|---|---|---|
| `swarm_piece` | a Fast and an ordinary peer, 1 v2 piece of 2 blocks, 3 attempts, 2 generations, 1 selection change; 1.5 M states | ownership, exact counters, exact cursor and cached next request of a piece of which one block is requested and the other is not, retained evidence, write/hash join, ceilings; a closing or choking peer releases only its own requests; a block leaves *Received* only with its generation; published pieces have their bytes; teardown returns every reservation |
| `fast_answers` | a Fast and an ordinary peer, 2 pieces, a lease on the second, a planning window of 1 | only Fast peers keep requests across a choke; no active request waits for an answer that will not come, and an owed attempt is remembered |
| `diagnosis_owned` | 2 pieces of 2 blocks, 3 generations | a failed piece always has an owner, fresh leaves are exact, every diagnosis ends |
| `checkpoint_tasks` | 4 pieces over 2 files (one across both, one above the byte limit), 2 process deaths | bits never ahead of bytes, permits conserved, dirty bytes bounded, clean shutdown commits, every piece becomes durable, `enqueue` returns |
| `selection_spans` | 2 pieces over 2 files (one across both), 2 selection changes, 1 death, any number of stops and checks; 1.3 M states | committed spans with one home are readable, no stray slot, the stored selection is reached |
| `selection_demotion` (violation) | 1 piece over 2 files, no death | finding 1 of section 4 |
| `pipeline_flow` | 3 pieces of 2 blocks (two are v2 candidates), channels of 2, one writer, one hasher | jobs conserved, dropped completions announced by a failure, hashes after writes, a drained pipeline is empty, no overflow with two candidates, pressure and drains end |
| `session_budgets` | 2 torrents with blocks of 2 and 1, pieces of 3 and 2, a quantum of 2, ceilings of 2 and 3 | budgets conserved, everything returned, queues sound, a selected waiter can pay, who keeps asking is served |
| `session_panic` (violation) | 2 torrents with pieces of 3 quanta | finding 2 |
| `storage_slots` | 3 jobs of 3 torrents on 2 roots, 2 slots | counts exact, no lost wake-up, every waiter served |
| `peer_budget` | a content and a metadata torrent, a listener, limits 1 and 2, slack 1 | exact permits, no needless eviction, a disabled listener keeps nobody, dial turns come |
| `utp_stream` | 2 units one way and a FIN each way, 8 sequence numbers, 1 fault, a receiver that may go away; 0.7 M states | the connection implements ByteStream; nothing is released before the peer has it; ledgers stay in their limits and retransmissions name outstanding packets; a finish leaves nobody short |

Several properties are conjunctions of named parts, which are the things to read:
`AccountsHold` (`CountersExact`, `LimitsHold`, `TeardownReleases`), `AnswersCome`
(`NoRequestUnderChoke`, `ActiveIsOwed`), `PermitsSound` (`TypeOK`, `PermitsConserved`),
`CheckpointMoves` (`EventuallyDurable`, `SupervisorReturns`), `BudgetsSound` (`TypeOK`,
`BudgetsConserved`, `AllReturned`), `AdmissionSound` (`QueuesSound`,
`SelectedCanPay`), `SlotsSound` (`SlotTypeOK`, `SlotsExact`), `BudgetSound`
(`TypeOK`, `BudgetExact`), `PipelineSound` (`TypeOK`, `JobsConserved`,
`DrainedEmpty`), `QueuesMove` (`PressureEnds`, `DrainEnds`), `LedgersSound` (`TypeOK`,
`WorkIsOutstanding`, `LedgerBounded`), `RoutesSound` (`TypeOK`, `NoStraySlots`). The
type invariants of Swarm and LeafDiagnosis are proved (section 5) and not part of a run.

Why the bounds suffice. Two connections are what a race over one block needs, and
the third request for a block is the first that meets a history that is full
(`MaxTerminal = 1`). Two blocks separate a partial reset from a whole one. Two
generations give every stale completion a later generation to land in; three let a
stale *diagnosis* of one piece meet a second diagnosis of the same piece. The
ceilings are small enough to be reached (`MaxOutstanding = 2` with two peers of two
requests each). In Checkpoint the capacity (3 items, 2 byte units) is smaller than
the work, one piece is larger than the whole byte capacity and its charge is capped,
and the second death interrupts the recovery from the first. In SelectiveStorage a
piece across two files is where routes matter, the other piece shares one of them, and
two changes are a demotion and the promotion back. The pipeline's channels and lists
are all smaller than the work. In SessionResources one piece and one block of the larger
torrent fill their ceilings, so both queues are contended; its piece costs more than a
quantum and the other's does not, so credit is partial, carried over and rotated past. Three jobs for two slots on two roots give the queue a
choice between roots. In UtpTransport the initial numbers are just below the wrap, so
that data, FIN and acknowledgements lie on both sides of it; a window of two lets two
packets be queued for retransmission at once. `NoConn`, `NoPiece` and
`None` are "none" values.

Deadlock is checked, except in the pipeline and the uTP run, whose systems
stop for good when the pipeline has stopped or both sides are closed. In the others
`Stopped`, `Idle`, `Ended` and the like are the only states in which nothing else may
happen, and each is reached by the code on purpose.

**Fairness.** Checkpoint: weak fairness of the supervisor's await, of the task, of
running sync calls and of the clock (tokio runs ready futures, blocking calls
return); nothing obliges the supervisor to hand over another piece or to shut down,
so `EventuallyDurable` rests on the age timer alone. LeafDiagnosis: weak fairness of
the deadline only, which the run loop compares with the clock on every turn; peers
and the storage job may never answer. SelectiveStorage: the reconciliation, with the
checkpoint it waits for, and the resume go on once begun; the user, stops and deaths
are not obliged to do anything. StoragePipeline: both tasks run while they are ready
and jobs end; strong fairness of taking a completion and of sending one, which share
their `select!` with other branches that tokio polls in random order. SessionResources:
a torrent's step that is under way is finished (it holds no lock across an await),
a torrent that wants a request asks, and held requests are released in the end, by an
answer or by a timeout. Nothing is assumed of pieces: one with received blocks keeps its
share of the budget while no peer has the rest (`swarm.rs:3856`, `:4478`), so
`ReadyIsServed` says as a premise that torrents return pieces time and again
(`KeepsReturning`). StorageExecution: woken futures run, slots are given
back. PeerAdmission: the dial loops take their turns while they are ready. UtpTransport: none.
While the window refuses a queued retransmission `next_wakeup_micros` may return a pacer
time that is past, which `run_loop` discards, so weak fairness of the retransmission
timer is more than the code gives, and with less no progress of a connection follows
(section 4). Its properties are safety properties.

**Mutants.** Each property has a mutant in `PROJECT.json`: an operator that changes
one mapped definition the way a bug would (a counter debited once, a cursor not moved
back, evidence not protected from trimming, a batch flushed to one file only, a
promoted file not synced, a failed batch that reports nothing) and breaks the
property in the run's own configuration.

## 4. Findings and observations

**Findings**, each with a run that TLC finds violated:

1. `selection_demotion`: once a piece has a slot, all its skipped files are read from the
   slot, also a file that was wanted when the piece was written. Deselecting that file moves
   a verified piece onto bytes that were never written, and selecting it again copies them
   over the good ones. `docs/tactical/063-live-file-selection.md:206` says that lowering a
   file continues to route bytes to it.
2. `session_panic`: `advance` credits each waiter one quantum and leaves the queue as it was
   when that enables nobody (`session_resources.rs:311`); `try_admit` then looks only at who
   is at the front (`:253`), reserves the session counters and subtracts the cost, and
   `.expect("selected fair waiter has enough deficit")` (`:272`) panics with the counters
   reserved. A quantum is 16 KiB, so two waiters for active pieces are enough, although
   `docs/tactical/114:274` says that a larger operation consumes multiple quanta. The trace
   has 47 steps. `SelectedCanPay`, which is proved, says when it cannot happen: while at
   most one torrent has a cost above a quantum.

Other places where the code and its documents part, or where a property needed a premise;
no run of its own:

* SelectiveStorage, what `doubtful` stands for. A skipped file that is on disk and a
  slot are two homes of a span; a restart with the file selected reads the file, even
  when the piece was downloaded into the slot meanwhile (`selective_storage.rs:2021`).
  A death between the creation of a promoted file, at full length (`:3502`), and its
  sync leaves a file that the next resume accepts by its length (`:2257`).
  `sync_pieces` after a full check does not sync retained files (`:3046`), so a
  recovered piece may be committed over bytes in the page cache; it also demands a part
  file for such a piece (`:3068`), and where there is none every check of the torrent
  ends with "required part file is missing" (`FailCheck`, and the second disjunct of
  `SelectionSettles`).
* FastPeer. Retiring a verified piece forgets its attempts (`swarm.rs:1204`): a Fast
  peer that answers a superseded request late is closed, although DL-C08 of
  `docs/topics/download-correctness.md` calls late duplicates harmless. A late reject of
  a timed-out attempt ends the newer attempt on the same block (`swarm.rs:1821`), which
  `docs/tactical/093` rules out.
* LeafDiagnosis. The completion of an abandoned diagnosis that arrives during the
  diagnosis of another piece ends the torrent run (`driver.rs:6861`, `ForeignLeaves`),
  although `docs/topics/download-correctness.md:284` says that the failure of one piece
  attempt is not automatically torrent failure. Leaves of an earlier generation are
  taken by a later diagnosis of the piece (`driver.rs:6867`): good blocks may be reset
  and their senders blamed. `FreshLeavesExact` is what remains true.
* SessionResources, PeerAdmission. A waiter leaves an admission queue only by a grant or
  by the end of its registration. One that was refused and then lost its peers stays at the
  front and everybody behind it is refused with all budgets free
  (`session_resources.rs:253`), although `docs/tactical/114:226` says that idle capacity is
  not reserved for a dormant member; hence the premise `KeepsAsking` of `ReadyIsServed`. In
  the same way a waiter at the front of the dial queue that has nobody to dial any more
  keeps its place (`:344`); hence the premise of `DialTurnComes`. `request_budget_allows` refuses before
  a torrent is queued, so a torrent with larger blocks may be passed over for ever by
  one with smaller blocks, also while it is the front of the *piece* queue and holds that
  up; `ReadyIsServed` speaks of torrents that ask the queues they are in.
* StoragePipeline. A hash response (`driver.rs:5426`, up to 512 pieces), a start (`:5310`)
  or a restart (`:7089`) enqueues a verification for each candidate without looking for
  room, and one command too many fails the torrent (`storage_pipeline.rs:451`), although
  `docs/tactical/025:69-71` says that two pending commands suffice. `NoIntakeOverflow`,
  which is proved, says that they do for two candidates. The completions that a failed batch drops stay counted as jobs and
  resident payload (`storage_pipeline.rs:1362`, `:1270`, `:1288`); the driver stops at the
  failure, so nobody waits for them (`FailureReported`).
* UtpTransport. The first packet that acknowledges the SYN founds the initiator's
  receive ledger, whatever its number (`connection.rs:411`), so data that an acceptor
  sends before it was spoken to could be skipped after a loss; the acceptor of the model
  writes only after it was given something, as the handshake of the peer protocol makes
  it. A shut window is not probed (`transport.rs:853`): if the packet that reopens it is
  lost or overtaken, the writer waits for good. When two packets are lost and time out,
  the first is resent and the second, refused by the collapsed window, stays queued;
  `next_wakeup_micros` now returns the pacer's time, which is past (`transport.rs:774`),
  `run_loop` drops it (`utp_runtime.rs:2345`) and arms no retransmission timer. If the
  first packet is lost again nothing wakes the connection, although the peer's window is
  open. This is why no liveness of a connection is claimed. A repeated SYN is not answered
  again. Selective acknowledgements shrink the ledger while
  a hole holds the cumulative one, and the sequence window may end the connection with
  few packets outstanding (`send.rs:381`).

## 5. Theorems

All theorems hold for every value of the constants that satisfies the named
assumptions of the module (`ConnAssumption`, `PieceAssumption`, `LimitAssumption`,
`FlagAssumption`, `DiagnosisAssumption`, `SlotAssumption`, `PeerAdmissionAssumption`,
`LayoutAssumption`, `TorrentAssumption`, `BudgetAssumption`, `StoragePipelineAssumption`,
`SequenceAssumption`): finitely many pieces, jobs, files and torrents, at least one block in each piece, sizes and
limits above zero, a high watermark within the job limit, "none" values that are not
members, and for uTP an even sequence space, a reorder window below half of it and a
script that fits in half of it (section 2). TLC evaluates the assumptions on every run. The
model bounds (`MaxAttempts`, `MaxGeneration`,
`MaxRevision`, `MaxCrashes`, the changes and deaths of SelectiveStorage) are arbitrary
naturals in the proofs.

| module | theorem | property |
|---|---|---|
| SwarmProofs | `RequestOwnershipHolds` | `RequestOwnership` |
| SwarmProofs | `IndexesExactHolds` | `IndexesExact` |
| SwarmProofs | `SwarmTypes` | `TypeOK` of Swarm |
| SwarmProofs | `StorageJoinSoundHolds` | `StorageJoinSound` |
| SwarmProofs | `HaveIsGoodHolds` | `HaveIsGood` |
| SwarmProofs | `ReleaseIsLocalHolds`, `ReceivedIsStableHolds` | the action properties `ReleaseIsLocal`, `ReceivedIsStable` |
| SwarmProofs | `EvidenceRetainedHolds` | `EvidenceRetained` |
| SwarmProofs | `AccountsAlwaysHold` | `AccountsHold` |
| SwarmProofs | `FastImplementsSwarm` | FastPeer implements the specification of Swarm |
| SwarmProofs | `AnswersAlwaysCome` | `AnswersCome` |
| SwarmProofs | `OwedIsAlwaysRemembered` | the action property `OwedIsRemembered` |
| LeafDiagnosisProofs | `FailedPieceOwnedHolds`, `DiagnosisTypes` | `FailedPieceOwned`, `TypeOK` |
| LeafDiagnosisProofs | `FreshLeavesExactHolds` | `FreshLeavesExact` |
| CheckpointProofs | `DurableIsSyncedHolds` | `DurableIsSynced` |
| CheckpointProofs | `CleanStopCommitsHolds` | `CleanStopCommits` |
| CheckpointProofs | `PermitsAlwaysSound` | `PermitsSound` |
| CheckpointProofs | `DirtyAlwaysBounded` | `DirtyBounded` |
| SelectiveStorageProofs | `CommittedAlwaysReadable` | `CommittedIsReadable` |
| SelectiveStorageProofs | `RoutesAlwaysSound` | `RoutesSound` |
| StoragePipelineProofs | `PipelineAlwaysSound` | `PipelineSound` |
| StoragePipelineProofs | `HashAlwaysSeesWrites` | `HashSeesWrites` |
| StoragePipelineProofs | `IntakeNeverOverflows` | `NoIntakeOverflow` |
| SessionResourcesProofs | `BudgetsAlwaysSound` | `BudgetsSound` |
| SessionResourcesProofs | `AdmissionAlwaysSound` | `AdmissionSound` |
| SessionResourcesProofs | `SlotsAlwaysSound` | `SlotsSound` |
| SessionResourcesProofs | `NoLostWakeupHolds` | `NoLostWakeup` |
| PeerAdmissionProofs | `BudgetAlwaysSound` | `BudgetSound` |
| PeerAdmissionProofs | `IncomingAlwaysRetired` | `IncomingRetired` |
| PeerAdmissionProofs | `NoNeedlessEvictionHolds` | the action property `NoNeedlessEviction` |
| UtpTransportProofs | `AckedAlwaysReceived` | `AckedIsReceived` |
| UtpTransportProofs | `LedgersAlwaysSound` | `LedgersSound` |
| UtpTransportProofs | `FinishAlwaysMutual` | the action property `FinishIsMutual` |
| UtpTransportProofs | `UtpRefinesStream` | the refinement `StreamSpec`: UtpTransport implements ByteStream |

**Swarm.** The inductive invariant `OwnershipInv` has six parts: `Shape` (types),
`RequestOwnership`, `IdsFresh`, `PlansHavePhases`, `Indexed` and `Joined`. Ownership is
not inductive alone. A request that ends is found by its identifier, so identifiers
must be unique (`IdsFresh`). A plan is dropped, a verified piece retired and a failed
piece reset without looking at its requests, which is right only because such a piece
has none: an untouched plan has only missing blocks, and a piece whose hash has begun
has only received ones. The latter is `Joined`: the join of a piece counts its
unwritten blocks, so a hash begins when none is left; it in turn needs
`PlansHavePhases` (block states exist for planned pieces only). `Indexed` is needed for
ownership as well: the scheduler takes the block the cached index names, and `assign`
refuses a block in another phase with an error that ends the run, so the cursor of a
piece with missing blocks must be its first missing block. `Indexed` itself needs the
per-piece counters to be exact, since `deactivate_piece_if_idle` and
`note_piece_block_assigned` decide from them. It stops at teardown, where `cancel_all`
clears the indexes wholesale, and `Joined` stops at the first storage error, which
leaves a completed write with a missing block. The proof has a lemma per shared
transition (`TerminateStep`, `AssignPrimaryStep`, `PlanStep`, `ResetStep`, ...) and one
per group of actions; `JobsNamed` says that write jobs name blocks. `OwnershipInv` was
model-checked on the instances of the runs on Swarm before it was proved.

`SwarmTypes` is proved part by part on top of it. Its one argument beyond bookkeeping:
histories are finite, so the "latest attempt of this connection" that `receive_block`
takes as evidence exists.

*Storage.* `JobInv` says who owns a block that is being written: while the loop runs, a
block is *Writing* exactly while one write of the current generation is with the storage
owner or done, a piece hashes exactly while one hash job of it exists, and a hash that
succeeded saw good bytes (`JobsOwned`); in every mode a published piece is good, neither
wanted nor planned, and no write is on its way to it (`Published`). From it follow
`StorageJoinSound` (there is no stale completion to mistake for a current one) and
`HaveIsGood`. The two action properties need only the invariants of the state before the
step: identifiers are unique, so what a departing connection ends is its own
(`ReleaseIsLocal`), and a block becomes *Received* by a write that reported success,
which has stored a payload (`DiskInv`, for `ReceivedIsStable`).

*Books.* `BooksInv` equates every torrent-wide counter with the cardinality of what it
counts. Each handler moves some blocks from one phase to another, so the lemma `Moved`
and its kind say what a change of phase does to the cardinalities, and every action is
an instance. `Ceilings` (the limits), `TornDown` (what `cancel_all` leaves) and
`PiecesCounted` (the counters of each piece) complete `AccountsHold`. `EvidenceRetained` rests on `Histories`: trimming removes only terminal
attempts that are nobody's evidence.

**FastPeer.** A FastPeer step is a Swarm step with its wire effects or leaves the swarm
alone, which is `FastImplementsSwarm`; all theorems above carry over. `AnswersCome` is
inductive with `OwedTypes`: a request is sent and owed in one step, and an answer, a
reject or a close ends it on both sides. `OwedIsRemembered` is an action property; it
needs `UnplannedForgotten` (no history without a plan) to tell a forgotten attempt from
one that was trimmed, and a case split over how a step may change the attempts of a
block (`AttemptChange`).

**Checkpoint.** `DurabilityInv` adds to `DurableIsSynced` where each piece is between
the write and the commit: the bytes of a piece the task owns are in the page cache of
all its files (`HeldIsCached`); while a batch is synced each file of each of its pieces
is still to be synced, covered by a running call that began after the write, or synced
(`FlushOnTrack`); at commit all are synced (`FlushSynced`). Without these a commit
could not be justified, since it looks at no file. `CleanStopCommits` rests on
`HandedIsKept` (what was handed over is durable or still owned while the task has not
failed) and `ChannelClosed` (a task that stopped owns nothing).

`PermitsSound` and `DirtyBounded` need sums over sets of pieces. `AccountInv` says that the
permits held by queue, pending intent, batch and flush are the charges of their pieces
(`PermitsConserved`), that a piece is in one of these places once (`Distinct`), and that
the batch counts its bytes (`DirtyExact`). Adding and removing one element of a sum is
proved by induction over finite sets, written out with a least counterexample (`WFMin`),
since the library's induction theorems cannot be instantiated.

**LeafDiagnosis.** `OwnedInv` is `TypeOK` and `FailedPieceOwned`, inductive together:
every end of a diagnosis either resets the piece or leaves it to its owner. `FreshInv`
adds that no job or completion names a generation that has not begun and that a
completion of the current generation names exactly the bad blocks; a reset makes every
completion under way one of an earlier generation, which is why nothing more is true.

**SelectiveStorage.** `StorageInv` has seven parts. `TableInv`: the tables of a run and of
its tasks. `SlotInv`: slots are only for pieces that need one. `PieceInv`: what is verified,
committed and invalidated while a reconciliation is under way. `HomeInv`: a span with
bytes in a skipped file and in a slot is doubtful. `SyncInv`: a new name of a file is synced
with its bytes, and the slot of a committed piece is on disk. `PlaceInv`: the bytes of a
span that is relied on are where the route of the run looks for them, or will be once
the promotions are done (`Placed`: in the slot while the file is still to be filled).
`DurableInv`: the bytes of a committed span survive a death. The last two are different
things, and both are needed: a death forgets the route and keeps the bytes, so `PlaceInv`
after a resume comes from `DurableInv`, and `DurableInv` after a sync from `PlaceInv`. The
invariant was model-checked with two changes and two deaths (2.5 M states) before it was
proved.

**StoragePipeline.** `PipelineInv` is `Types` and five parts; the three properties need one
another's strengthenings.
`Control` says where the two tasks can be together: an error cancels, a cancelled
pipeline belongs to a driver that is stopping, and an ended task runs nothing.
`Running` is about the jobs under way, which go on after a cancellation: a job is a batch
of writes or one hash, no piece is hashed twice at once, and a verification has its
blocks. Only this part is kept once the pipeline is cancelled, since the books are then
dropped.
`Books` is the counting part of `JobsConserved` with what makes it inductive: queues hold
what they are named for, and nothing is under way when a restart begins.
That a failure is on its way whenever a completion was dropped is an invariant of its own
on top of these (`FailInvHolds`): a batch that drops one reports its failing write in the
same step (`JobFails`), sending moves the report from the task's list to the channel
(`SendingFails`, `MovedKept`), and the driver that takes it cancels (`CompletionFails`).
`DrainedEmpty` follows: a drain ends when the job counter is zero, and the counter includes
what was dropped.
`Pieces` says what a command under way tells about its piece (`Told`) and, for a piece
that is downloaded, that the stored blocks and the writes under way add up to the received
ones and that each received block is on disk or in such a write (`Downloading`). This is
what the hash rests on: the driver looks only at the number of completed writes, so when
the last completion arrives it must follow that no other write of the piece is under way
and, as a completion that reports success tells the truth (`ReportsTrue`), that all blocks
are on disk. A failed hash takes blocks off the disk, hence the clause that no two hash
jobs share a piece.
`NoOverflow`, under the premise of `NoIntakeOverflow`: peers are read with fewer than
`Limit` jobs and nothing pending, so one block, or the two candidates of a hash response,
leave at most `Limit + 1` jobs; a completion takes one away before its verification is
added, and a restart begins with none. After a flush at most one of `Limit + 1` commands
is still pending, which leaves room for the verification (`Bounded`); without pressure the
payload is below the high watermark.
The proof treats the places as lanes that are pairwise apart: a step of the driver
adds commands to one lane and takes at most one report from another (`DriverBooks`), a
step of the task moves stretches between lanes. That batches cut a front stretch of the
queue into disjoint pieces, and what a set of candidates enqueued in any order leaves, are
inductions over naturals and subsets that are written out. The invariant was
model-checked with `FailInv` on the instance of `pipeline_flow`
(265,051 states).

**SessionResources.** `SessionInv` has four parts. `BudgetsConserved` alone is not
inductive: a release subtracts a size from the session counter and from the usage of one
torrent, in two steps, and nothing in the counters says that what is subtracted was there.
`HoldInv` therefore says what a torrent's usage is made of: the requests, pieces and
payload blocks its owners committed, each times its size, plus what the step it is in has
charged and not yet committed (`UsageExact`), and that a torrent that is not registered
has none of it (`Quiet`), from which `AllReturned` follows. The session counter is a sum
over torrents; that changing one torrent's part changes the sum by as much (`TotalChange`)
is proved by an induction over subsets that is written out. `QueueInv` says of each queue
that every cost is zero or the size the torrent asks for, and that it is zero exactly off
the queue (`Waiters`): without it `Forget` and the grant could leave a cost behind whose
torrent never comes back. Lemmas about `Rotated`, `Advance`, `Admit` and `Forget` say that
each keeps `Waiters`, and that the front of a queue in which at most one cost exceeds a
quantum has the credit for it: of two waiters one is enabled by a single turn, and a lone
one is given its cost. This is `SelectedCanPay`. The invariant was model-checked on the
instance of the run, and on one with pieces of three quanta (357,159 states), where the
premise of `SelectedCanPay` fails and the rest must still hold, before it was proved.

**StorageExecution.** `SlotsSound` and `NoLostWakeup` are inductive together. The argument
for the second: a free slot with a waiter whose turn it is can only arise from a change
under the mutex, whose notification is still to come, or the waiter has armed its future
before it looked. Lemmas say what `WaiterFor` chooses from a queue from which one job was
removed.

**PeerAdmission.** `BudgetInv`: types, the four counters equal to the number of entries of
each kind, and at most `AbsoluteLimit` entries that are not cancelled. The entries are a
sequence, so the proof counts places of a sequence (`Count`) under append, update and
`Retain`; that an eviction takes exactly the first n of an order is a lemma about ranks
(`FirstOfFacts`). `IncomingRetired` is inductive with it; `NoNeedlessEviction` follows from
the state before the step.

**UtpTransport.** All four results come from one invariant, `UtpInv` (theorem
`UtpAlwaysSound`). None of the properties is inductive: an acknowledgement under way, sent
long ago, decides what the sender releases next, so the invariant must say what every
datagram in the network still means. It does so in *places*, not in sequence numbers: place
k of a side's stream is its SYN (0), its k-th unit, or its FIN (one past the last), and
`Num` gives the number of a place. The script fits in half the sequence space, so numbers
tell places apart, and `After` and `Distance` agree with the order of the places across the
wrap (`Places`, `Order`); everything else is then said of natural numbers. The parts:
`Types`; of each side `Course` (how phase, FIN, end of stream and ledgers go together),
`Sending` (the send ledger holds places of the stream, each once, and its cumulative
acknowledgement is a place), `Receiving` (the application was given a prefix, `ack` is the
place after which the next is missing, and what is buffered are later places within the
reorder window and the receive window) and `LetGo` (a place that was sent and is not in the
ledger is at the peer); of each datagram `Carries` (it holds the place it names) and
`Claims` (its acknowledgement and each of its selective bits name places that its sender
has, now and for good); and `WorkIsOutstanding`.
That receivers never lose a place (`Keeps`) and streams only grow (`Grown`) makes every
datagram under way stay true, however late or often it arrives (`DatagramKept`). A side
that has ended has no ledger any more; what remains true of it is that no acknowledgement
named the first place it lacks (`Acked`), which is what `FinishIsMutual` needs of a peer
that was aborted. `LetGo` with an empty ledger gives `FinishIsMutual`, and the places give
the refinement: taking a packet in advances the stream by n places (`Advance`), which is
one delivery of ByteStream; every other step is a write, a close or an end of it, or
cannot be seen in it. Two facts about the code are used that are easy to miss: an acknowledgement below the
cumulative one is not usable, so a late one releases nothing, and the acceptor writes only
after it was given something, so what answers the SYN is a plain acknowledgement and founds
the initiator's ledger at the first place (`HandshakeFacts`; see section 4). `Picked`, the selection from a sequence, is a recursive function whose
values are an induction that is written out (`PickedFacts`). The invariant was
model-checked on the instance of `utp_stream`, on one with writes and closes both ways and
aborts (1.4 M states) and on one with three units and three datagrams under way (0.4 M
states) before it was proved.

**Left to TLC.** Liveness (`EventuallyDurable`, `SupervisorReturns`, `DiagnosisEnds`,
`SelectionSettles`, `PressureEnds`, `DrainEnds`, `ReadyIsServed`, `WaiterServed`,
`DialTurnComes`): fairness and ENABLED are out of the prover's reach. Every
safety property, action property and refinement of a passing run is proved.

## 6. Not modelled

Byte-level codecs (bencode, wire messages, metainfo, magnet links, MSE, the uTP
datagram) are covered by unit and fuzz tests and have no protocol state a model would
add to. LEDBAT's control law, rate estimates, path MTU and pacing are numeric; in
UtpTransport they only choose when a packet leaves. The socket worker of
`utp_runtime.rs`, the DHT routing table, remote access, gateway and front ends are
outside the paths modelled. Of selective storage, v2 layouts (no part file), platform
and descriptor backings and the pool of open handles are left out; files that somebody
else changes while the torrent runs are outside what the code promises. Of the session
store only the transactions that SelectiveStorage uses are modelled. The remaining parts
of the inventory are planned below.

## 7. Plan

Done: Swarm, FastPeer, LeafDiagnosis, Checkpoint; StoragePipeline; SessionResources,
StorageExecution, PeerAdmission; SelectiveStorage; UtpTransport with ByteStream.

1. PeerRegistry: known peers, backoff, bans, one attempt per endpoint.
2. V2HashScheduler, Metadata: requests to several peers, timeouts, late answers.
3. PiecePicker: the bucket structure against a reference ranking.
4. UploadScheduler, Bandwidth, Tracker, AutoManager, DownloadQueue, the handle pool.
5. An abstract specification of a torrent (a piece is wanted, then verified, and is
   lost only by a selection change) implemented by Swarm; liveness of Swarm under
   peers that keep answering.
