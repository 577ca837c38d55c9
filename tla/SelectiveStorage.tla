-------------------------- MODULE SelectiveStorage --------------------------
(***************************************************************************)
(* Where the bytes of a torrent are while the file selection changes and   *)
(* the process dies: crates/rstorrent-engine/src/selective_storage.rs and  *)
(* part_file.rs, with the resume of driver.rs and the have state of the    *)
(* session store.                                                          *)
(*                                                                         *)
(* The bytes of a wanted file go to the file.  A piece that overlaps a     *)
(* skipped file keeps that overlap in its slot of the part file.  When a   *)
(* file becomes wanted its overlaps are copied from the slots; when it     *)
(* becomes skipped the file stays where it is, as a retained source.       *)
(*                                                                         *)
(* A span is the overlap of a piece and a file.  Its bytes in the file and *)
(* its bytes in the slot of the piece are each good or junk (never         *)
(* written, zeros of a hole, left by another piece, corrupt).  Only what   *)
(* was synced survives the death of the process (and of the machine); each *)
(* unsynced item may be lost or kept.                                      *)
(*                                                                         *)
(* Abstractions.  v1 and hybrid layouts on paths (a v2 layout has no part  *)
(* file; padding spans are never stored).  Blocks, generations and jobs    *)
(* are in Swarm and StoragePipeline, batches of the checkpoint in          *)
(* Checkpoint: here a span is written in one step and a piece is committed *)
(* together with the sync of its targets.  A slot is named by its piece.   *)
(* An I/O error in a reconciliation ends the torrent run; to the disk it   *)
(* is a death that loses nothing.  A selection that changes while a check  *)
(* is running is applied after the check.                                  *)
(***************************************************************************)
EXTENDS Integers, FiniteSets, FiniteSetsExt

CONSTANTS
  Piece, File,   \* indices
  Span,          \* the pairs <<piece, file>> that overlap
  MaxChanges,    \* bound: selection changes of the user
  MaxDeaths      \* bound: deaths of the process

ASSUME LayoutAssumption ==
  /\ Piece \subseteq Nat /\ IsFiniteSet(Piece) /\ File \subseteq Nat /\ IsFiniteSet(File)
  /\ Span \subseteq Piece \X File
  /\ MaxChanges \in Nat /\ MaxDeaths \in Nat

VARIABLES
  present,    \* files that exist on disk
  bytes,      \* [Span -> content]: the range of the file
  slots,      \* pieces with a slot in the part file
  part,       \* [Span -> content]: the range of the slot
  unsynced,   \* what a death may take: <<"new", f>>, <<"file", span>>, <<"slot", p>>, <<"part", span>>
  stored,     \* files wanted, in the session store
  committed,  \* have state in the session store
  pendingCheck, \* the store has a verification generation that was not completed
  mode,       \* what the torrent run is doing
  selection,  \* SelectiveStorage.selection: the wanted files
  retained,   \* skipped_sources that are Some
  pending,    \* pending_promotions
  verified,   \* SelectiveStorage.verified
  task,       \* the reconciliation under way: [next, todo, step, unsourced, then]
  invalid,    \* pieces it invalidated
  recovered,  \* pieces a check found that were not committed
  doubtful,   \* history: spans no promise is made for, see CommittedIsReadable
  changes, deaths

disk == <<present, bytes, slots, part, unsynced>>
store == <<stored, committed, pendingCheck>>
route == <<selection, retained, pending>>
bounds == <<changes, deaths>>
vars == <<disk, store, mode, route, verified, task, invalid, recovered, doubtful, bounds>>

FilesOf(p) == {f \in File : <<p, f>> \in Span}
PiecesOf(f) == {p \in Piece : <<p, f>> \in Span}
SpansOf(f) == {s \in Span : s[2] = f}
Wanted(p) == FilesOf(p) \cap selection # {}
NoTask == [next |-> {}, todo |-> {}, step |-> "create", unsourced |-> {}, then |-> "run"]

Init ==
  /\ present = {} /\ slots = {} /\ unsynced = {}
  /\ bytes = [s \in Span |-> "junk"] /\ part = [s \in Span |-> "junk"]
  /\ stored \in SUBSET File /\ committed = {} /\ pendingCheck = FALSE
  /\ mode = "running" /\ selection = stored /\ retained = {} /\ pending = {}
  /\ verified = {} /\ task = NoTask /\ invalid = {} /\ recovered = {}
  /\ doubtful = {} /\ changes = 0 /\ deaths = 0

-----------------------------------------------------------------------------
(* Routes: prepare_blocking_hash_plan and prepare_upload_read choose the   *)
(* same source for a span, plan_write its destination.                     *)

\* A skipped file is read from the slot whenever the piece has one, a wanted
\* file only while its promotion is pending.
ReadsPart(s) == s[1] \in slots /\ (s[2] \in selection => s[2] \in pending)

ReadsFile(s) == s[2] \in present /\ s[2] \in selection \cup retained

Read(s) ==
  CASE ReadsPart(s) -> part[s]
    [] ~ReadsPart(s) /\ ReadsFile(s) -> bytes[s]
    [] OTHER -> "junk"

Readable(p) == \A f \in FilesOf(p) : Read(<<p, f>>) = "good"

\* has_piece_sources
HasSources(p) == \A f \in FilesOf(p) : ReadsPart(<<p, f>>) \/ ReadsFile(<<p, f>>)

\* piece_requires_part_file: an overlap with a skipped file
RequiresPart(p) == ~(FilesOf(p) \subseteq selection)

\* durability_targets: what is synced for the pieces of P
Synced(P) ==
  LET files == selection \cap UNION {FilesOf(p) : p \in P}
  IN {u \in unsynced :
        \/ u[1] = "new" /\ u[2] \in files
        \/ u[1] = "file" /\ u[2][2] \in files
        \/ u[1] \in {"slot", "part"} /\ \E p \in P : RequiresPart(p)}

-----------------------------------------------------------------------------
(* Downloading. *)

\* a file that is opened for writing gets its full length at once
Opened(f) == present' = present \cup {f}
OpenedBytes(f) == [s \in Span |-> IF s[2] = f /\ f \notin present THEN "junk" ELSE bytes[s]]
OpenedNew(f) == IF f \in present THEN {} ELSE {<<"new", f>>}

\* write of the bytes of a wanted file
WriteFile(s, content) ==
  /\ mode = "running" /\ s[1] \notin verified /\ s[2] \in selection
  /\ Opened(s[2])
  /\ bytes' = [OpenedBytes(s[2]) EXCEPT ![s] = content]
  /\ unsynced' = unsynced \cup OpenedNew(s[2]) \cup {<<"file", s>>}
  /\ UNCHANGED <<slots, part, store, mode, route, verified, task, invalid, recovered,
                 doubtful, bounds>>

\* write of the bytes of a skipped file: ensure_part_file, ensure_slot.  The
\* slot is taken at its full length, whatever those bytes hold.
WritePart(s, content) ==
  LET p == s[1]
      slot == [r \in Span |-> IF r[1] = p /\ p \notin slots THEN "junk" ELSE part[r]]
  IN /\ mode = "running" /\ p \notin verified /\ Wanted(p) /\ s[2] \notin selection
     /\ slots' = slots \cup {p}
     /\ part' = [slot EXCEPT ![s] = content]
     /\ unsynced' = unsynced \cup {<<"part", s>>}
                      \cup (IF p \in slots THEN {} ELSE {<<"slot", p>>})
     /\ doubtful' = doubtful \cup {r \in Span : r[1] = p /\ r[2] \in present \ selection}
     /\ UNCHANGED <<present, bytes, store, mode, route, verified, task, invalid, recovered, bounds>>

\* The hash of a piece whose spans were all written passes.
RecordVerified(p) ==
  /\ mode = "running" /\ p \notin verified /\ Wanted(p)
  /\ RequiresPart(p) => p \in slots
  /\ Readable(p)
  /\ verified' = verified \cup {p}
  /\ UNCHANGED <<disk, store, mode, route, task, invalid, recovered, doubtful, bounds>>

\* The checkpoint task syncs the targets of the piece and commits it.
CheckpointPiece(p) ==
  /\ mode = "running" /\ p \in verified \ committed
  /\ unsynced' = unsynced \ Synced({p})
  /\ committed' = committed \cup {p}
  /\ UNCHANGED <<present, bytes, slots, part, stored, pendingCheck, mode, route, verified,
                 task, invalid, recovered, doubtful, bounds>>

-----------------------------------------------------------------------------
(* Selection changes. *)

\* The store commits the new selection before the engine hears of it.
ChangeSelection(S) ==
  /\ changes < MaxChanges /\ S # stored
  /\ stored' = S /\ changes' = changes + 1
  /\ UNCHANGED <<disk, committed, pendingCheck, mode, route, verified, task, invalid,
                 recovered, doubtful, deaths>>

\* spans of the skipped files F that have two homes, the file and a slot
TwoHomes(F) == {s \in Span : s[2] \in F /\ s[1] \in slots}

\* mutant: only files that become wanted call for a reconciliation
BehindGrowing == stored \ selection # {}

\* reconcile_file_selection: the selection of the latest update is another one
Behind == stored # selection

\* skipped_sources: a demoted file is retained, a promoted one is taken back
RetainedAfter(promoted, demoted) == (retained \cup demoted) \ promoted

\* reconcile_file_selection stops the pipeline, which commits what was
\* verified, and reconcile_selection sets the routes: a file that is skipped
\* now is retained, a file that is wanted now gives its retained source back.
\* A demoted file's spans are read from the slot from now on if there is one.
BeginReconcile ==
  LET promoted == stored \ selection
      demoted == selection \ stored
  IN /\ mode = "running" /\ Behind /\ verified \subseteq committed
     /\ retained' = RetainedAfter(promoted, demoted)
     /\ task' = [next |-> stored, todo |-> promoted, step |-> "create",
                 unsourced |-> promoted \ retained, then |-> "persist"]
     /\ mode' = "promoting"
     /\ doubtful' = doubtful \cup TwoHomes(demoted)
     /\ UNCHANGED <<disk, store, selection, pending, verified, invalid, recovered, bounds>>

\* The file restore_promoted_file is working on.
Promoting(f, step) ==
  /\ mode = "promoting" /\ task.todo # {} /\ f = Min(task.todo) /\ task.step = step

\* restore_promoted_file: the file is opened or created, at its full length
CreatePromoted(f) ==
  /\ Promoting(f, "create")
  /\ Opened(f)
  /\ bytes' = OpenedBytes(f)
  /\ unsynced' = unsynced \cup OpenedNew(f)
  /\ task' = [task EXCEPT !.step = "fill"]
  /\ UNCHANGED <<slots, part, store, mode, route, verified, invalid, recovered, doubtful, bounds>>

\* every range of a verified piece that has a slot is copied from it; without
\* slot and source the piece is no longer verified
FillPromoted(f) ==
  LET copied == {s \in SpansOf(f) : s[1] \in verified \cap slots}
      missing == IF f \in task.unsourced
                 THEN (verified \cap PiecesOf(f)) \ slots ELSE {}
  IN /\ Promoting(f, "fill")
     /\ bytes' = [s \in Span |-> IF s \in copied THEN part[s] ELSE bytes[s]]
     /\ unsynced' = unsynced \cup {<<"file", s>> : s \in copied}
     /\ verified' = verified \ missing
     /\ invalid' = invalid \cup missing
     /\ task' = [task EXCEPT !.step = "sync"]
     /\ UNCHANGED <<present, slots, part, store, mode, route, recovered, doubtful, bounds>>

\* mutant: the promoted file is left to the page cache
FileSyncedNot(f) == {}

\* sync_file
FileSynced(f) ==
  {u \in unsynced :
     \/ u[1] = "new" /\ u[2] = f
     \/ u[1] = "file" /\ u[2][2] = f}

SyncPromoted(f) ==
  /\ Promoting(f, "sync")
  /\ unsynced' = unsynced \ FileSynced(f)
  /\ task' = [task EXCEPT !.todo = @ \ {f}, !.step = "create"]
  /\ UNCHANGED <<present, bytes, slots, part, store, mode, route, verified, invalid,
                 recovered, doubtful, bounds>>

\* The new selection becomes the route.
FinishPromotions ==
  /\ mode = "promoting" /\ task.todo = {}
  /\ selection' = task.next
  /\ mode' = "releasing"
  /\ UNCHANGED <<disk, store, retained, pending, verified, task, invalid, recovered,
                 doubtful, bounds>>

\* mutant: slots that no skipped file needs any more stay mapped
UnusedKept == {}

\* release_unused_part_slots
Unused == {p \in slots : ~RequiresPart(p)}

\* release_piece: the cleared entry is written and the part file synced
ReleaseSlot(p) ==
  /\ mode = "releasing" /\ p \in Unused /\ p = Min(Unused)
  /\ slots' = slots \ {p}
  /\ unsynced' = {u \in unsynced : u[1] \notin {"slot", "part"}}
  /\ UNCHANGED <<present, bytes, part, store, mode, route, verified, task, invalid,
                 recovered, doubtful, bounds>>

FinishReleases ==
  /\ mode = "releasing" /\ Unused = {}
  /\ mode' = task.then
  /\ task' = NoTask
  /\ UNCHANGED <<disk, store, route, verified, invalid, recovered, doubtful, bounds>>

\* pieces_invalidated, and the download goes on
PersistInvalidated ==
  /\ mode = "persist"
  /\ committed' = committed \ invalid
  /\ invalid' = {}
  /\ mode' = "running"
  /\ UNCHANGED <<disk, stored, pendingCheck, route, verified, task, recovered, doubtful, bounds>>

-----------------------------------------------------------------------------
(* Ends and resumes of the run. *)

Down ==
  /\ mode' = "down"
  /\ selection' = {} /\ retained' = {} /\ pending' = {} /\ verified' = {}
  /\ task' = NoTask /\ invalid' = {} /\ recovered' = {}

\* The process dies.  What was not synced may be lost.  A file that was being
\* promoted is left behind with its full length and without its bytes.
Die(lost) ==
  /\ mode # "down" /\ deaths < MaxDeaths /\ lost \subseteq unsynced
  /\ deaths' = deaths + 1
  /\ LET gone == {f \in File : <<"new", f>> \in lost}
     IN /\ present' = present \ gone
        /\ unsynced' = {u \in unsynced \ lost : u[1] = "file" => u[2][2] \notin gone}
  /\ bytes' = [s \in Span |-> IF <<"file", s>> \in lost THEN "junk" ELSE bytes[s]]
  /\ slots' = {p \in slots : <<"slot", p>> \notin lost}
  /\ part' = [s \in Span |-> IF <<"part", s>> \in lost THEN "junk" ELSE part[s]]
  /\ doubtful' = IF mode = "promoting" /\ task.step # "create"
                 THEN doubtful \cup SpansOf(Min(task.todo)) ELSE doubtful
  /\ Down
  /\ UNCHANGED <<store, changes>>

\* The run ends in good order, and a forced recheck may have been asked for.
Stop(force) ==
  /\ mode = "running" /\ verified \subseteq committed
  /\ pendingCheck' = (pendingCheck \/ force)
  /\ Down
  /\ UNCHANGED <<disk, stored, committed, doubtful, bounds>>

\* resume_with_paths_and_pool
Reopen ==
  /\ selection' = stored
  /\ retained' = present \ stored
  /\ doubtful' = doubtful \cup TwoHomes(present \ stored)

\* validate_resume_extents: every file with a committed piece has its full
\* length, or its pieces their slots
ExtentsMatch ==
  \A f \in File \ present : committed \cap PiecesOf(f) \subseteq slots

\* Nothing is on disk: create_with_paths_and_pool.
Created == present = {} /\ slots = {}

\* reconcile_after_recheck: pending promotions that the part file can serve
Restorable(P, V) == {f \in P : V \cap slots \cap PiecesOf(f) # {}}

Restore(P, V, next, then) ==
  task' = [next |-> next, todo |-> Restorable(P, V), step |-> "create",
           unsourced |-> {}, then |-> then]

\* ResumeAdmissionOutcome::Accepted: the committed bits are taken as they are
AcceptResume ==
  /\ mode = "down" /\ ~pendingCheck /\ ExtentsMatch
  /\ committed = {} => Created
  /\ Reopen /\ mode' = "promoting"
  /\ verified' = committed
  /\ pending' = {}
  /\ Restore(stored \ present, committed, stored, "running")
  /\ UNCHANGED <<disk, store, invalid, recovered, bounds>>

\* ResumeAdmissionOutcome::NeedsFullCheck: recheck_started, storage_discovered
BeginCheck ==
  /\ mode = "down"
  /\ pendingCheck \/ ~ExtentsMatch \/ (committed = {} /\ ~Created)
  /\ Reopen /\ mode' = "checking"
  /\ pendingCheck' = TRUE
  /\ pending' = IF Created THEN {} ELSE stored \ present
  /\ UNCHANGED <<disk, stored, committed, verified, task, invalid, recovered, bounds>>

\* full_recheck_storage, then reconcile_after_recheck
CheckPieces ==
  LET found == {p \in Piece : HasSources(p) /\ Readable(p)}
  IN /\ mode = "checking"
     /\ verified' = found
     /\ recovered' = found \ committed
     /\ pending' = {}
     /\ Restore(pending, found, selection, "finalizing")
     /\ mode' = "promoting"
     /\ UNCHANGED <<disk, store, selection, retained, invalid, doubtful, bounds>>

\* sync_pieces wants the part file for a piece with a skipped file, even when
\* that file is retained and there is no part file
Unsyncable == (\E p \in recovered : RequiresPart(p)) /\ slots = {}

\* sync_pieces(recovered), have_rechecked
FinishCheck ==
  /\ mode = "finalizing" /\ ~Unsyncable
  /\ unsynced' = unsynced \ Synced(recovered)
  /\ committed' = verified
  /\ pendingCheck' = FALSE
  /\ mode' = "running"
  /\ recovered' = {}
  /\ doubtful' = TwoHomes(retained)
                   \cup {s \in Span : s[1] \in verified /\ <<"file", s>> \in unsynced'}
  /\ UNCHANGED <<present, bytes, slots, part, stored, route, verified, task, invalid, bounds>>

\* The resume ends with "required part file is missing".
FailCheck ==
  /\ mode = "finalizing" /\ Unsyncable
  /\ Down
  /\ UNCHANGED <<disk, store, doubtful, bounds>>

-----------------------------------------------------------------------------
Download ==
  \/ \E s \in Span, content \in {"good", "junk"} : WriteFile(s, content) \/ WritePart(s, content)
  \/ \E p \in Piece : RecordVerified(p)

Reconcile ==
  \/ BeginReconcile \/ FinishPromotions \/ FinishReleases \/ PersistInvalidated
  \/ \E f \in File : CreatePromoted(f) \/ FillPromoted(f) \/ SyncPromoted(f)
  \/ \E p \in Piece : ReleaseSlot(p) \/ CheckpointPiece(p)

Resume == AcceptResume \/ BeginCheck \/ CheckPieces \/ FinishCheck \/ FailCheck

Next ==
  \/ Download \/ Reconcile \/ Resume
  \/ \E S \in SUBSET File : ChangeSelection(S)
  \/ \E lost \in SUBSET unsynced : Die(lost)
  \/ \E force \in BOOLEAN : Stop(force)

Fairness ==
  /\ WF_vars(Reconcile)
  /\ WF_vars(Resume)

Spec == Init /\ [][Next]_vars
FairSpec == Spec /\ Fairness

-----------------------------------------------------------------------------
\* Every variable has the shape of the state it stands for; a running torrent
\* has each file in files or in skipped_sources, never in both.
TypeOK ==
  /\ present \subseteq File /\ slots \subseteq Piece
  /\ bytes \in [Span -> {"good", "junk"}] /\ part \in [Span -> {"good", "junk"}]
  /\ unsynced \subseteq ({"new"} \X File) \cup ({"file", "part"} \X Span) \cup ({"slot"} \X Piece)
  /\ stored \subseteq File /\ committed \subseteq Piece /\ pendingCheck \in BOOLEAN
  /\ mode \in {"down", "running", "promoting", "releasing", "persist", "checking", "finalizing"}
  /\ selection \subseteq File /\ retained \subseteq File
  /\ pending \subseteq File /\ verified \subseteq Piece
  /\ task \in [next : SUBSET File, todo : SUBSET File, step : {"create", "fill", "sync"},
              unsourced : SUBSET File, then : {"run", "persist", "running", "finalizing"}]
  /\ invalid \subseteq Piece /\ recovered \subseteq Piece /\ doubtful \subseteq Span
  /\ changes \in 0..MaxChanges /\ deaths \in 0..MaxDeaths
  /\ mode = "running" => retained \cap selection = {}

(***************************************************************************)
(* What the store says the torrent has can be read, whatever was selected  *)
(* in between and wherever the process died: each span of a committed      *)
(* piece is good where the running torrent reads it for hashing, uploads   *)
(* and the next promotion.  The code keeps this for spans with one home;   *)
(* three kinds of span are left out until a check has read them again:     *)
(* those of a skipped file that is on disk while the piece has a slot,     *)
(* those of a file whose promotion was cut short by a death, and those     *)
(* that a check found in a file it did not sync.                           *)
(***************************************************************************)
CommittedIsReadable ==
  mode = "running" =>
    \A s \in Span : s[1] \in committed /\ s \notin doubtful => Read(s) = "good"

(***************************************************************************)
(* docs/tactical/063-live-file-selection.md:206: "Lowering an existing     *)
(* destination retains and continues routing bytes to that file."  A       *)
(* selection change never takes the bytes from under a verified piece.     *)
(***************************************************************************)
VerifiedIsReadable ==
  mode = "running" => \A p \in verified : Readable(p)

(***************************************************************************)
(* The part file holds nothing that no skipped file needs: once a          *)
(* selection is applied or a run resumed, every slot belongs to a piece    *)
(* with a skipped file, although a death may interrupt the releases.  A    *)
(* stray slot would be read in place of the file the next time the file is *)
(* deselected.                                                             *)
(***************************************************************************)
NoStraySlots == mode = "running" => \A p \in slots : RequiresPart(p)

\* The routes are well formed (each file in files or in skipped_sources, never
\* in both) and the part file holds only what they need.
RoutesSound == TypeOK /\ NoStraySlots

(***************************************************************************)
(* The torrent always comes back to downloading with the selection that    *)
(* the store holds, whatever the user changed, and wherever the process    *)
(* died or was stopped in between; unless every check of the torrent ends  *)
(* with a part file that is missing.                                       *)
(***************************************************************************)
SelectionSettles ==
  \/ []<>(mode = "running" /\ selection = stored)
  \/ []<>(mode = "finalizing" /\ Unsyncable)
=============================================================================
