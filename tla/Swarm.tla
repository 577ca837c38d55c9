------------------------------- MODULE Swarm -------------------------------
(***************************************************************************)
(* The download side of one torrent: the pure request owner of             *)
(* crates/rstorrent-engine/src/swarm.rs (SwarmState) together with the     *)
(* driver handlers that call it (driver.rs: handle_message,                *)
(* handle_storage_completion, schedule, reconcile_file_selection,          *)
(* cleanup_content_connections) and the storage jobs they start.           *)
(*                                                                         *)
(* A piece is a sequence of blocks.  The scheduler asks live connections   *)
(* for blocks; every request is an attempt with an identifier.  A payload  *)
(* that answers an attempt is written by the storage owner, and when every *)
(* block of a piece is written the piece is hashed.  Peers are untrusted:  *)
(* they may send any message at any time, and a payload may be corrupt.    *)
(*                                                                         *)
(* Abstractions.  Clocks and rate estimates are nondeterministic: any      *)
(* active attempt may be overdue, a request window is any value up to      *)
(* MaxRequests.  The picker's ranking of inactive pieces is any order.     *)
(* Every block has length one.  The terminal dispositions Expired, Choked, *)
(* Rejected, Disconnected, Superseded and Cancelled are all "Released":    *)
(* the code only tells Requested, PayloadReceived and the rest apart.      *)
(***************************************************************************)
EXTENDS Integers, FiniteSets, FiniteSetsExt

CONSTANTS
  Conn,            \* connection identifiers (each used by one connection)
  FastConn,        \* those whose handshake negotiates the Fast extension
  Piece,           \* piece indexes
  BlockCount,      \* BlockCount[p]: the number of blocks of piece p
  LeafProofs,      \* TRUE for v2 and hybrid torrents: failed pieces are diagnosed
  Demand,          \* pieces a streaming lease may ask for
  MaxConns,        \* max_established_connections
  MaxRequests,     \* max_requests_per_connection
  MaxOutstanding,  \* max_outstanding_request_bytes, in blocks
  MaxActivePieces, \* max_active_pieces
  MaxActiveBlocks, \* max_active_piece_bytes, in blocks
  MaxSpan,         \* the requestable block span limit of can_activate_piece
  MaxPlanned,      \* MAX_PLANNED_CONTENT_PIECES
  MaxTerminal,     \* max_terminal_attempts_per_block
  MaxAttempts,     \* model bound on request identifiers
  MaxGeneration,   \* model bound on piece generations
  MaxRevision,     \* model bound on file-selection revisions
  NoConn, NoPiece  \* "none" values

ASSUME ConnAssumption == FastConn \subseteq Conn /\ NoConn \notin Conn
ASSUME PieceAssumption ==
  /\ Piece \subseteq Nat /\ IsFiniteSet(Piece) /\ NoPiece \notin Piece /\ Demand \subseteq Piece
  /\ BlockCount \in [Piece -> Nat \ {0}]
ASSUME LimitAssumption ==
  /\ {MaxConns, MaxRequests, MaxOutstanding, MaxActivePieces, MaxActiveBlocks,
      MaxSpan, MaxPlanned, MaxTerminal} \subseteq Nat \ {0}
  /\ {MaxAttempts, MaxGeneration, MaxRevision} \subseteq Nat
ASSUME FlagAssumption == LeafProofs \in BOOLEAN

BlocksOf(p) == {p} \X (1 .. BlockCount[p])
Block == UNION {BlocksOf(p) : p \in Piece}

VARIABLES
  conn,        \* [Conn -> new | open | closed]
  choking,     \* [Conn -> BOOLEAN]: the peer chokes us
  initial,     \* [Conn -> BOOLEAN]: initial availability received (Fast)
  avail,       \* [Conn -> SUBSET Piece]: pieces the peer advertised
  allowedFast, \* [Conn -> SUBSET Piece]
  requests,    \* [Conn -> Int]: active_request_count
  wanted,      \* pieces the picker still wants (not completed)
  planned,     \* pieces with a plan (the keys of SwarmState.pieces)
  phase,       \* [Block -> block phase], "None" outside planned pieces
  source,      \* [Block -> Conn]: sender of a block being written or received
  evidence,    \* [Block -> attempt id]: the attempt that payload answered
  attempts,    \* [Block -> set of retained attempts]
  active,      \* active_attempts: the index of the unanswered attempts
  nextId,      \* next_attempt_id
  pieceMissing, pieceActive, \* [Piece -> Int]: per-piece block counters
  cursor,      \* [Piece -> index of the first missing block, BlockCount + 1 if none]
  join,        \* [Piece -> PieceStorageJoin]
  activePieces,\* pieces with requested, writing or received blocks
  requestable, \* [Piece -> cached first missing block of an active piece, 0 if none]
  count,       \* [phase -> Int]: the torrent-wide block counters
  outstanding, \* outstanding_request_bytes, in blocks
  contributions, \* [Conn -> Int]: unverified_contributor_blocks
  routes,      \* contributor_attempts: senders the driver can still attribute
  banned,      \* connections the current handler still has to close
  writes,      \* write commands the storage owner accepted
  written,     \* write completions the driver has not handled
  hashes,      \* piece hash commands the storage owner accepted
  hashed,      \* piece hash completions the driver has not handled
  disk,        \* [Block -> content of the block on disk]
  have,        \* pieces published as verified
  diagnosis,   \* the piece under leaf diagnosis, or NoPiece
  revision,    \* the applied file-selection revision
  mode         \* the torrent run: running, stopping, cancelled, stopped

connVars  == <<conn, choking, initial, avail, allowedFast>>
planVars  == <<wanted, planned>>
jobVars   == <<writes, written, hashes, hashed>>
storeVars == <<jobVars, disk, have, diagnosis>>
runVars   == <<revision, mode, banned>>
indexVars == <<pieceMissing, pieceActive, cursor, activePieces, requestable>>
ledgerVars == <<requests, count, outstanding, contributions, routes>>
blockVars == <<phase, source, evidence, attempts, active, nextId>>
vars == <<connVars, planVars, blockVars, indexVars, join, ledgerVars,
          storeVars, runVars>>

-----------------------------------------------------------------------------
(* Values. *)

Status == {"Missing", "Requested", "Writing", "Received"}
Phases == Status \cup {"None"}
Content == {"none", "good", "bad"}
HashState == {"NotStarted", "Running", "Passed", "Failed"}
Purposes == {"Ordinary", "Endgame", "StreamingPrimary", "StreamingDuplicate"}
Disposition == {"Requested", "PayloadReceived", "Released"}

\* PieceStorageJoin::new
NewJoin(n) == [generation |-> 1, expected |-> n, completed |-> 0,
                    failed |-> FALSE, hash |-> "NotStarted"]

\* mutants: the new generation expects every block of the piece again; the
\* generation is not advanced
ResetForAllWrites(j, n) == [NewJoin(j.expected) EXCEPT !.generation = j.generation + 1]
ResetSameGeneration(j, n) == [NewJoin(n) EXCEPT !.generation = j.generation]

\* reset_for_writes: the next generation of the same piece
ResetForWrites(j, n) == [NewJoin(n) EXCEPT !.generation = j.generation + 1]

\* PieceStorageJoin::write_completed
WriteCompleted(j, ok) == [j EXCEPT !.completed = @ + 1, !.failed = @ \/ ~ok]

\* hash_eligible
HashEligible(j) == /\ j.completed = j.expected /\ ~j.failed
                   /\ j.hash = "NotStarted"

IsOpen(c) == conn[c] = "open"
Open == {c \in Conn : IsOpen(c)}
IsActive(r) == r.disposition = "Requested"
ActiveIn(b) == {r \in attempts[b] : IsActive(r)}
From(b, c) == {r \in attempts[b] : r.conn = c}

\* mutant: requests are released by block, not by connection
OwnedByBlock(c) == {a \in active : \E d \in active : d.conn = c /\ d.block = a.block}

Owned(c) == {a \in active : a.conn = c}

\* the latest retained attempt of connection c on block b (iter().rev().find)
LatestFrom(b, c) == CHOOSE r \in From(b, c) : \A s \in From(b, c) : s.id <= r.id

\* mutant: the protected attempt is trimmed like the others
TrimUnprotected(A, limit, protected) ==
  {r \in A : \/ IsActive(r)
            \/ Cardinality({s \in A : ~IsActive(s) /\ s.id > r.id}) < limit}

\* mutant: one terminal attempt fewer than the limit is retained
TrimTooMuch(A, limit, protected) ==
  LET terminal == {r \in A : ~IsActive(r)}
      loose == {r \in terminal : r.id # protected}
      kept == Cardinality(terminal \ loose)
  IN {r \in A : \/ r \notin loose
                \/ Cardinality({s \in loose : s.id > r.id}) + kept + 1 < limit}

\* trim_terminal_attempts: drop the oldest terminal attempts, never the
\* protected one, until at most limit terminal attempts are retained
Trim(A, limit, protected) ==
  LET terminal == {r \in A : ~IsActive(r)}
      loose == {r \in terminal : r.id # protected}
      kept == Cardinality(terminal \ loose)
  IN {r \in A : \/ r \notin loose
                \/ Cardinality({s \in loose : s.id > r.id}) + kept < limit}

\* ConnectionState::can_request_piece
CanRequest(c, p) == /\ p \in avail[c]
                    /\ ~choking[c] \/ (c \in FastConn /\ p \in allowedFast[c])

BlockSum(P) == MapThenSumSet(LAMBDA p : BlockCount[p], P)

Requestable == {p \in Piece : requestable[p] # 0}

\* can_activate_piece
CanActivate(p) ==
  \/ activePieces = {}
  \/ /\ Cardinality(activePieces) < MaxActivePieces
     /\ Cardinality(Requestable) <= (3 * Cardinality(Open)) \div 2
     /\ BlockSum(Requestable) <= MaxSpan
     /\ BlockSum(activePieces) + BlockCount[p] <= MaxActiveBlocks

\* request_budget_allows
BudgetAllows == outstanding + 1 <= MaxOutstanding

\* the supervisor takes its next event: it runs, and no handler is unfinished
Idle == mode = "running" /\ banned = {}

-----------------------------------------------------------------------------
(* Transitions shared by several operations. *)

Move(from, to, n) == [count EXCEPT ![from] = @ - n, ![to] = @ + n]

\* mutant: the cached next request of a piece that stays active is not refreshed
BecameMissingStaleCache(F) ==
  LET n(p) == Cardinality(F \cap BlocksOf(p))
      first(p) == Min({cursor[p]} \cup {b[2] : b \in F \cap BlocksOf(p)})
      idle == {p \in Piece : n(p) # 0 /\ pieceActive[p] = n(p)}
  IN /\ pieceMissing' = [p \in Piece |-> pieceMissing[p] + n(p)]
     /\ pieceActive' = [p \in Piece |-> pieceActive[p] - n(p)]
     /\ cursor' = [p \in Piece |-> first(p)]
     /\ activePieces' = activePieces \ idle
     /\ requestable' = [p \in Piece |-> IF p \in activePieces' THEN requestable[p] ELSE 0]

\* note_piece_block_became_missing, deactivate_piece_if_idle and
\* refresh_requestable_piece for the set F of blocks that become missing
BecameMissing(F) ==
  LET n(p) == Cardinality(F \cap BlocksOf(p))
      first(p) == Min({cursor[p]} \cup {b[2] : b \in F \cap BlocksOf(p)})
      idle == {p \in Piece : n(p) # 0 /\ pieceActive[p] = n(p)}
  IN /\ pieceMissing' = [p \in Piece |-> pieceMissing[p] + n(p)]
     /\ pieceActive' = [p \in Piece |-> pieceActive[p] - n(p)]
     /\ cursor' = [p \in Piece |-> first(p)]
     /\ activePieces' = activePieces \ idle
     /\ requestable' = [p \in Piece |->
          IF n(p) = 0 THEN requestable[p]
          ELSE IF p \in activePieces' THEN first(p) ELSE 0]

\* mutant: a connection that loses several requests is debited one
ReleaseOnce(T) == [c \in Conn |-> requests[c] - IF \E a \in T : a.conn = c THEN 1 ELSE 0]

\* release_connection_request for every attempt of T
Release(T) == [c \in Conn |-> requests[c] - Cardinality({a \in T : a.conn = c})]

\* mutant: a block is orphaned although another connection still owes it
OrphanedByAny(T) == {b \in Block : \E a \in T : a.block = b}

\* the blocks whose last active attempt is in T
Orphaned(T) ==
  {b \in Block : /\ \E a \in T : a.block = b
                 /\ \A r \in ActiveIn(b) : \E a \in T : a.id = r.id}

\* terminate_requested: the retained attempts of block b once T has ended
Ended(b, T) ==
  IF \E a \in T : a.block = b
  THEN Trim({IF \E a \in T : a.id = r.id
             THEN [r EXCEPT !.disposition = "Released"] ELSE r : r \in attempts[b]},
            MaxTerminal, 0)
  ELSE attempts[b]

\* terminate_requested for every attempt of T, a set of active attempts
Terminate(T) ==
  LET F == Orphaned(T)
  IN /\ attempts' = [b \in Block |-> Ended(b, T)]
     /\ phase' = [b \in Block |-> IF b \in F THEN "Missing" ELSE phase[b]]
     /\ active' = active \ T
     /\ requests' = Release(T)
     /\ outstanding' = outstanding - Cardinality(T)
     /\ count' = Move("Requested", "Missing", Cardinality(F))
     /\ BecameMissing(F)
     /\ UNCHANGED <<source, evidence, nextId, contributions>>

\* prune_contributor_attempts, given the contribution counts that hold after
Prune(counts) == {c \in routes : counts[c] # 0}

-----------------------------------------------------------------------------
(* Connections and peer messages (driver.rs handle_message). *)

\* add_connection and set_fast_extension once a handshake is admitted
AddConnection(c) ==
  /\ Idle /\ conn[c] = "new" /\ Cardinality(Open) < MaxConns
  /\ conn' = [conn EXCEPT ![c] = "open"]
  /\ UNCHANGED <<choking, initial, avail, allowedFast, planVars, blockVars,
                 indexVars, join, ledgerVars, storeVars, runVars>>

\* remove_connection: the peer stopped, was replaced, or broke the protocol
Disconnect(c) ==
  /\ conn' = [conn EXCEPT ![c] = "closed"]
  /\ avail' = [avail EXCEPT ![c] = {}]
  /\ Terminate(Owned(c))
  /\ routes' = Prune(contributions)
  /\ UNCHANGED <<choking, initial, allowedFast, planVars, join, storeVars>>

RemoveConnection(c) ==
  /\ Idle /\ IsOpen(c) /\ Disconnect(c) /\ UNCHANGED runVars

\* record_failed_piece_contributors closes a peer it has just banned
CloseBanned(c) ==
  /\ mode = "running" /\ c \in banned /\ Disconnect(c)
  /\ banned' = banned \ {c}
  /\ UNCHANGED <<revision, mode>>

\* Bitfield, HaveAll, HaveNone: a Fast peer announces once
SetAvailability(c, P) ==
  /\ Idle /\ IsOpen(c) /\ (c \in FastConn => ~initial[c])
  /\ avail' = [avail EXCEPT ![c] = P]
  /\ initial' = [initial EXCEPT ![c] = c \in FastConn]
  /\ UNCHANGED <<conn, choking, allowedFast, planVars, blockVars, indexVars,
                 join, ledgerVars, storeVars, runVars>>

\* observe_fast_message: a Fast peer announces before anything else
Announced(c) == c \in FastConn => initial[c]

PeerHas(c, p) ==
  /\ Idle /\ IsOpen(c) /\ Announced(c) /\ p \notin avail[c]
  /\ avail' = [avail EXCEPT ![c] = @ \cup {p}]
  /\ UNCHANGED <<conn, choking, initial, allowedFast, planVars, blockVars,
                 indexVars, join, ledgerVars, storeVars, runVars>>

AllowedFast(c, p) ==
  /\ Idle /\ IsOpen(c) /\ c \in FastConn /\ initial[c]
  /\ allowedFast' = [allowedFast EXCEPT ![c] = @ \cup {p}]
  /\ UNCHANGED <<conn, choking, initial, avail, planVars, blockVars,
                 indexVars, join, ledgerVars, storeVars, runVars>>

\* set_choking(true): only a peer without Fast loses its requests
Choke(c) ==
  /\ Idle /\ IsOpen(c)
  /\ choking' = [choking EXCEPT ![c] = TRUE]
  /\ Terminate(IF c \in FastConn THEN {} ELSE Owned(c))
  /\ UNCHANGED <<conn, initial, avail, allowedFast, planVars, join, routes,
                 storeVars, runVars>>

Unchoke(c) ==
  /\ Idle /\ IsOpen(c)
  /\ choking' = [choking EXCEPT ![c] = FALSE]
  /\ UNCHANGED <<conn, initial, avail, allowedFast, planVars, blockVars,
                 indexVars, join, ledgerVars, storeVars, runVars>>

\* reject_request, Accepted: an active attempt of a Fast peer is rejected
RejectRequest(a) ==
  /\ Idle /\ a \in active /\ a.conn \in FastConn /\ initial[a.conn]
  /\ Terminate({a})
  /\ allowedFast' = [allowedFast EXCEPT ![a.conn] = @ \ {a.block[1]}]
  /\ UNCHANGED <<conn, choking, initial, avail, planVars, join, routes,
                 storeVars, runVars>>

\* receive_block, Accept: the payload answers the sender's latest attempt on
\* the block, late or not; every other active attempt is superseded.  The
\* storage owner takes the write.  (Redundant and Unsolicited change nothing;
\* a Fast peer that sends Unsolicited is closed: RemoveConnection.)
ReceiveBlock(c, b, content) ==
  /\ Idle /\ IsOpen(c) /\ Announced(c)
  /\ phase[b] = "Requested" /\ From(b, c) # {}
  /\ content = "bad" => join[b[1]].generation < MaxGeneration
  /\ LET e == LatestFrom(b, c)
         T == {a \in active : a.block = b}
         settle(r) == IF r.id = e.id THEN [r EXCEPT !.disposition = "PayloadReceived"]
                      ELSE IF IsActive(r) THEN [r EXCEPT !.disposition = "Released"]
                      ELSE r
     IN /\ attempts' = [attempts EXCEPT ![b] =
                          Trim({settle(r) : r \in @}, MaxTerminal, e.id)]
        /\ evidence' = [evidence EXCEPT ![b] = e.id]
        /\ active' = active \ T
        /\ requests' = Release(T)
        /\ outstanding' = outstanding - Cardinality(T)
  /\ phase' = [phase EXCEPT ![b] = "Writing"]
  /\ source' = [source EXCEPT ![b] = c]
  /\ count' = Move("Requested", "Writing", 1)
  /\ contributions' = [contributions EXCEPT ![c] = @ + 1]
  /\ routes' = routes \cup {c}
  /\ writes' = writes \cup
       {[block |-> b, generation |-> join[b[1]].generation, content |-> content]}
  /\ UNCHANGED <<connVars, planVars, nextId, indexVars, join, written, hashes,
                 hashed, disk, have, diagnosis, runVars>>

-----------------------------------------------------------------------------
(* Planning and scheduling (driver.rs schedule, swarm.rs schedule and assign). *)

\* append_piece_plans, after the plans of the set Q are dropped
Plan(P, Q) ==
  LET gone == {b \in Block : b[1] \in Q}
      new == {b \in Block : b[1] \in P}
      sum == count["Missing"] + Cardinality(new) - Cardinality(gone)
  IN /\ planned' = (planned \ Q) \cup P
     /\ phase' = [b \in Block |-> IF b \in new THEN "Missing"
                                  ELSE IF b \in gone THEN "None" ELSE phase[b]]
     /\ attempts' = [b \in Block |-> IF b \in new \cup gone THEN {} ELSE attempts[b]]
     /\ pieceMissing' = [p \in Piece |-> IF p \in P THEN BlockCount[p]
                                         ELSE IF p \in Q THEN 0 ELSE pieceMissing[p]]
     /\ cursor' = [p \in Piece |-> IF p \in P THEN 1
                                   ELSE IF p \in Q THEN BlockCount[p] + 1 ELSE cursor[p]]
     /\ join' = [p \in Piece |-> IF p \in P \cup Q THEN NewJoin(BlockCount[p])
                                 ELSE join[p]]
     /\ count' = [count EXCEPT !["Missing"] = sum]
     /\ UNCHANGED <<connVars, wanted, source, evidence, active, nextId,
                    pieceActive, activePieces, requestable, requests,
                    outstanding, contributions, routes, storeVars, runVars>>

\* reserve_piece_for_planning and append_piece_plans
PlanPiece(p) ==
  /\ Idle /\ p \in wanted \ planned /\ Cardinality(planned) < MaxPlanned
  /\ \E c \in Open : CanRequest(c, p)
  /\ Plan({p}, {})

\* reserve_specific_piece_for_planning for a streaming demand: with the window
\* full, the last untouched plan outside the demand makes room.  The byte limit
\* on plans (prepare_reserved_piece) may then still refuse the new plan.
PlanForStreaming(p, fits) ==
  /\ Idle /\ p \in (Demand \cap wanted) \ planned
  /\ \E c \in Open : p \in avail[c]
  /\ IF Cardinality(planned) < MaxPlanned
     THEN fits /\ Plan({p}, {})
     ELSE LET untouched == {q \in planned \ Demand :
                              \A b \in BlocksOf(q) : phase[b] = "Missing"}
          IN /\ untouched # {}
             /\ Plan(IF fits THEN {p} ELSE {}, {Max(untouched)})

\* assign: issue one request for block b to connection c
Assign(c, b, purpose) ==
  /\ nextId <= MaxAttempts
  /\ nextId' = nextId + 1
  /\ attempts' = [attempts EXCEPT ![b] = Trim(@, MaxTerminal - 1, 0) \cup
                    {[id |-> nextId, conn |-> c, disposition |-> "Requested"]}]
  /\ active' = active \cup
       {[id |-> nextId, conn |-> c, block |-> b, purpose |-> purpose]}
  /\ requests' = [requests EXCEPT ![c] = @ + 1]
  /\ outstanding' = outstanding + 1
  /\ UNCHANGED <<connVars, planVars, source, evidence, join, contributions,
                 routes, storeVars, runVars>>

\* a request for a missing block: note_piece_block_assigned, activate_piece
AssignPrimary(c, b, purpose) ==
  LET p == b[1]
      rest == {i \in (b[2] + 1) .. BlockCount[p] : phase[<<p, i>>] = "Missing"}
      next == IF pieceMissing[p] = 1 THEN BlockCount[p] + 1 ELSE Min(rest)
  IN /\ phase[b] = "Missing"
     /\ Assign(c, b, purpose)
     /\ phase' = [phase EXCEPT ![b] = "Requested"]
     /\ count' = Move("Missing", "Requested", 1)
     /\ pieceMissing' = [pieceMissing EXCEPT ![p] = @ - 1]
     /\ pieceActive' = [pieceActive EXCEPT ![p] = @ + 1]
     /\ cursor' = [cursor EXCEPT ![p] = next]
     /\ activePieces' = activePieces \cup {p}
     /\ requestable' = [requestable EXCEPT ![p] = IF next <= BlockCount[p] THEN next ELSE 0]

\* a second request for a block some other connection was asked for
AssignDuplicate(c, b, purpose) ==
  /\ phase[b] = "Requested" /\ ActiveIn(b) # {}
  /\ \A r \in ActiveIn(b) : r.conn # c
  /\ Assign(c, b, purpose)
  /\ UNCHANGED <<phase, count, indexVars>>

\* schedule_ordinary: a connection with room in its window
Eligible(c) ==
  /\ IsOpen(c) /\ requests[c] < MaxRequests
  /\ ~choking[c] \/ (c \in FastConn /\ allowedFast[c] # {})

\* next_active_block_for_connection: the lowest active piece c can serve
ScheduleActive(c) ==
  LET P == {p \in Requestable : CanRequest(c, p)}
      b == <<Min(P), requestable[Min(P)]>>
  IN /\ Idle /\ Eligible(c) /\ P # {} /\ BudgetAllows
     /\ AssignPrimary(c, b, "Ordinary")

\* next_inactive_assignment: activate another planned piece
ScheduleInactive(c, p) ==
  /\ Idle /\ Eligible(c) /\ p \in planned \ activePieces
  /\ cursor[p] <= BlockCount[p] /\ CanActivate(p) /\ CanRequest(c, p)
  /\ BudgetAllows
  /\ AssignPrimary(c, <<p, cursor[p]>>, "Ordinary")

Before(b, d) == b[1] < d[1] \/ (b[1] = d[1] /\ b[2] <= d[2])

\* endgame: nothing is missing, an idle connection repeats the first request
ScheduleEndgame(c) ==
  LET B == {b \in Block : /\ phase[b] = "Requested" /\ ActiveIn(b) # {}
                          /\ \A r \in ActiveIn(b) : r.conn # c
                          /\ CanRequest(c, b[1])}
  IN /\ Idle /\ IsOpen(c) /\ requests[c] = 0 /\ count["Missing"] = 0
     /\ BudgetAllows /\ B # {}
     /\ AssignDuplicate(c, CHOOSE b \in B : \A d \in B : Before(b, d), "Endgame")

\* schedule_streaming_urgent: the first missing block of a demanded piece
ScheduleStreaming(c, p) ==
  /\ Idle /\ IsOpen(c) /\ requests[c] < MaxRequests /\ p \in Demand \cap planned
  /\ cursor[p] <= BlockCount[p] /\ (p \in activePieces \/ CanActivate(p))
  /\ CanRequest(c, p) /\ BudgetAllows
  /\ AssignPrimary(c, <<p, cursor[p]>>, "StreamingPrimary")

\* streaming_duplicate_due: one overdue request is repeated elsewhere
ScheduleStreamingDuplicate(c, b) ==
  /\ Idle /\ IsOpen(c) /\ requests[c] < MaxRequests /\ b[1] \in Demand
  /\ Cardinality(ActiveIn(b)) = 1 /\ CanRequest(c, b[1]) /\ BudgetAllows
  /\ AssignDuplicate(c, b, "StreamingDuplicate")

\* expire_requests: every request of a stalled connection and every overdue one.
\* preempt_ordinary_for_streaming ends requests in the same way, one ordinary
\* request of a peer at a time: its effect is that of a set T of one request.
ExpireRequests(T) ==
  /\ Idle /\ T \subseteq active /\ T # {}
  /\ Terminate(T)
  /\ UNCHANGED <<connVars, planVars, join, routes, storeVars, runVars>>

-----------------------------------------------------------------------------
(* The storage owner: accepted jobs execute in any order.  A failed write may *)
(* leave part of its payload behind.                                          *)

StorageRuns == mode # "stopped"

ExecuteWrite(w) ==
  /\ StorageRuns /\ w \in writes
  /\ writes' = writes \ {w}
  /\ \/ /\ disk' = [disk EXCEPT ![w.block] = w.content]
        /\ written' = written \cup
             {[block |-> w.block, generation |-> w.generation, ok |-> TRUE]}
     \/ /\ \E content \in {disk[w.block], "bad"} :
             disk' = [disk EXCEPT ![w.block] = content]
        /\ written' = written \cup
             {[block |-> w.block, generation |-> w.generation, ok |-> FALSE]}
  /\ UNCHANGED <<connVars, planVars, blockVars, indexVars, join, ledgerVars,
                 hashes, hashed, have, diagnosis, runVars>>

ExecuteHash(h) ==
  /\ StorageRuns /\ h \in hashes
  /\ hashes' = hashes \ {h}
  /\ hashed' = hashed \cup {[piece |-> h.piece, generation |-> h.generation,
                             ok |-> \A b \in BlocksOf(h.piece) : disk[b] = "good"]}
  /\ UNCHANGED <<connVars, planVars, blockVars, indexVars, join, ledgerVars,
                 writes, written, disk, have, diagnosis, runVars>>

-----------------------------------------------------------------------------
(* Storage completions (driver.rs handle_storage_completion). *)

\* finish_write_for_generation(accepted), then begin_piece_hash once every
\* write of the generation has completed
WriteStored(r) ==
  LET b == r.block
      p == b[1]
      j == WriteCompleted(join[p], TRUE)
  IN /\ Idle /\ r \in written /\ r.ok
     /\ p \in planned /\ r.generation = join[p].generation /\ phase[b] = "Writing"
     /\ written' = written \ {r}
     /\ phase' = [phase EXCEPT ![b] = "Received"]
     /\ attempts' = [attempts EXCEPT ![b] = Trim(@, MaxTerminal, evidence[b])]
     /\ count' = Move("Writing", "Received", 1)
     /\ join' = [join EXCEPT ![p] =
                   IF HashEligible(j) THEN [j EXCEPT !.hash = "Running"] ELSE j]
     /\ hashes' = IF HashEligible(j)
                  THEN hashes \cup {[piece |-> p, generation |-> j.generation]}
                  ELSE hashes
     /\ UNCHANGED <<connVars, planVars, source, evidence, active, nextId,
                    indexVars, requests, outstanding, contributions, routes,
                    writes, hashed, disk, have, diagnosis, runVars>>

\* finish_write_for_generation(refused); the error ends the torrent run
WriteFailed(r) ==
  LET b == r.block
      p == b[1]
      counts == [contributions EXCEPT ![source[b]] = @ - 1]
  IN /\ Idle /\ r \in written /\ ~r.ok
     /\ p \in planned /\ r.generation = join[p].generation /\ phase[b] = "Writing"
     /\ written' = written \ {r}
     /\ phase' = [phase EXCEPT ![b] = "Missing"]
     /\ source' = [source EXCEPT ![b] = NoConn]
     /\ evidence' = [evidence EXCEPT ![b] = 0]
     /\ attempts' = [attempts EXCEPT ![b] = Trim(@, MaxTerminal, 0)]
     /\ count' = Move("Writing", "Missing", 1)
     /\ BecameMissing({b})
     /\ contributions' = counts
     /\ routes' = Prune(counts)
     /\ join' = [join EXCEPT ![p] = WriteCompleted(@, FALSE)]
     /\ mode' = "stopping"
     /\ UNCHANGED <<connVars, planVars, active, nextId, requests, outstanding,
                    writes, hashes, hashed, disk, have, diagnosis, revision,
                    banned>>

\* the completion of the current generation of a planned piece
Current(h) == /\ Idle /\ h \in hashed /\ h.piece \in planned
              /\ h.generation = join[h.piece].generation
              /\ join[h.piece].hash = "Running"

\* release_unverified_contribution for the blocks of B
Uncredit(B) ==
  [c \in Conn |-> contributions[c] - Cardinality({b \in B : source[b] = c})]

\* finish_piece_hash(passed), mark_piece_verified_for_generation, publish,
\* retire_verified_piece, record_verified_piece_contributors
PieceVerified(h) ==
  LET p == h.piece
      B == BlocksOf(p)
  IN /\ Current(h) /\ h.ok
     /\ hashed' = hashed \ {h}
     /\ wanted' = wanted \ {p}
     /\ planned' = planned \ {p}
     /\ have' = have \cup {p}
     /\ phase' = [b \in Block |-> IF b \in B THEN "None" ELSE phase[b]]
     /\ source' = [b \in Block |-> IF b \in B THEN NoConn ELSE source[b]]
     /\ evidence' = [b \in Block |-> IF b \in B THEN 0 ELSE evidence[b]]
     /\ attempts' = [b \in Block |-> IF b \in B THEN {} ELSE attempts[b]]
     /\ count' = [count EXCEPT !["Received"] = @ - Cardinality(B)]
     /\ contributions' = Uncredit(B)
     /\ routes' = Prune(Uncredit(B))
     /\ pieceActive' = [pieceActive EXCEPT ![p] = 0]
     /\ cursor' = [cursor EXCEPT ![p] = BlockCount[p] + 1]
     /\ activePieces' = activePieces \ {p}
     /\ requestable' = [requestable EXCEPT ![p] = 0]
     /\ join' = [join EXCEPT ![p] = NewJoin(BlockCount[p])]
     /\ UNCHANGED <<connVars, active, nextId, pieceMissing, requests,
                    outstanding, writes, written, hashes, disk, diagnosis, runVars>>

\* mark_piece_hash_failed_blocks_for_generation: the bad blocks become missing
\* again in the next generation, the others stay received
ResetBlocks(p, bad) ==
  LET whole == bad = BlocksOf(p)
      first == Min({b[2] : b \in bad})
  IN /\ phase' = [b \in Block |-> IF b \in bad THEN "Missing" ELSE phase[b]]
     /\ source' = [b \in Block |-> IF b \in bad THEN NoConn ELSE source[b]]
     /\ evidence' = [b \in Block |-> IF b \in bad THEN 0 ELSE evidence[b]]
     /\ count' = Move("Received", "Missing", Cardinality(bad))
     /\ pieceMissing' = [pieceMissing EXCEPT ![p] = Cardinality(bad)]
     /\ pieceActive' = [pieceActive EXCEPT ![p] = BlockCount[p] - Cardinality(bad)]
     /\ cursor' = [cursor EXCEPT ![p] = first]
     /\ contributions' = Uncredit(bad)
     /\ routes' = Prune(Uncredit(bad))
     /\ join' = [join EXCEPT ![p] = ResetForWrites(@, Cardinality(bad))]
     /\ activePieces' = IF whole THEN activePieces \ {p} ELSE activePieces
     /\ requestable' = [requestable EXCEPT ![p] = IF whole THEN 0 ELSE first]
     /\ UNCHANGED <<connVars, planVars, attempts, active, nextId, requests,
                    outstanding, writes, written, hashes, disk, have>>

\* record_failed_piece_contributors: a live sole contributor is banned; with
\* several, those that lost their trust are
Ban(bad) ==
  LET senders == {source[b] : b \in bad}
  IN \E B \in SUBSET (senders \cap Open) :
       /\ Cardinality(senders) = 1 => B = senders \cap Open
       /\ banned' = B

\* the hash failed and the piece starts over
PieceHashFailed(h) ==
  /\ Current(h) /\ ~h.ok
  /\ hashed' = hashed \ {h}
  /\ ResetBlocks(h.piece, BlocksOf(h.piece)) /\ Ban(BlocksOf(h.piece))
  /\ UNCHANGED <<diagnosis, revision, mode>>

\* the hash failed and leaf hashes are fetched first (begin_leaf_diagnosis)
BeginDiagnosis(h) ==
  /\ Current(h) /\ ~h.ok /\ LeafProofs /\ diagnosis = NoPiece
  /\ hashed' = hashed \ {h}
  /\ diagnosis' = h.piece
  /\ join' = [join EXCEPT ![h.piece].hash = "Failed"]
  /\ UNCHANGED <<connVars, planVars, blockVars, indexVars, ledgerVars, writes,
                 written, hashes, disk, have, runVars>>

\* finish_leaf_diagnosis_if_ready or fallback_leaf_diagnosis
FinishDiagnosis(bad) ==
  /\ Idle /\ diagnosis # NoPiece /\ bad # {} /\ bad \subseteq BlocksOf(diagnosis)
  /\ ResetBlocks(diagnosis, bad) /\ Ban(bad)
  /\ diagnosis' = NoPiece
  /\ UNCHANGED <<hashed, revision, mode>>

\* a hash completion that ends the run: a read error, inconsistent hybrid
\* hashes, or a checkpoint owner that stopped
HashFatal(h) ==
  /\ Current(h)
  /\ hashed' = hashed \ {h}
  /\ \E state \in {"Running", "Passed", "Failed"} :
       join' = [join EXCEPT ![h.piece].hash = state]
  /\ mode' = "stopping"
  /\ UNCHANGED <<connVars, planVars, blockVars, indexVars, ledgerVars, writes,
                 written, hashes, disk, have, diagnosis, revision, banned>>

-----------------------------------------------------------------------------
(* Selection changes and the end of the run. *)

\* the supervisor waits until no storage job is left before it reconciles
Drained == writes = {} /\ written = {} /\ hashes = {} /\ hashed = {}

\* mutant: the pieces that storage invalidated stay published
KeptAll(lost) == have

\* replace_epoch: what is published once storage has invalidated lost
Kept(lost) == have \ lost

\* reconcile_file_selection and replace_wanted_pieces_with_priorities.  The
\* supervisor has drained the storage owner first (driver.rs).  W are the
\* pieces wanted now, lost the verified pieces storage invalidated.
ReplaceWanted(W, lost) ==
  /\ Idle /\ revision < MaxRevision
  /\ Drained
  /\ lost \subseteq have /\ W \cap Kept(lost) = {}
  /\ revision' = revision + 1
  /\ wanted' = W
  /\ planned' = {}
  /\ have' = Kept(lost)
  /\ disk' = [b \in Block |-> IF b[1] \in lost THEN "none" ELSE disk[b]]
  /\ phase' = [b \in Block |-> "None"]
  /\ source' = [b \in Block |-> NoConn]
  /\ evidence' = [b \in Block |-> 0]
  /\ attempts' = [b \in Block |-> {}]
  /\ active' = {}
  /\ pieceMissing' = [p \in Piece |-> 0]
  /\ pieceActive' = [p \in Piece |-> 0]
  /\ cursor' = [p \in Piece |-> BlockCount[p] + 1]
  /\ join' = [p \in Piece |-> NewJoin(BlockCount[p])]
  /\ activePieces' = {}
  /\ requestable' = [p \in Piece |-> 0]
  /\ requests' = [c \in Conn |-> 0]
  /\ count' = [s \in Status |-> 0]
  /\ outstanding' = 0
  /\ contributions' = [c \in Conn |-> 0]
  /\ routes' = {}
  /\ diagnosis' = NoPiece
  /\ UNCHANGED <<connVars, nextId, writes, written, hashes, hashed, mode, banned>>

\* reconcile_file_selection when only priorities changed: a diagnosis under
\* way falls back to the whole piece, and nobody is blamed for it
ReplacePriorities ==
  /\ Idle /\ revision < MaxRevision /\ Drained
  /\ revision' = revision + 1
  /\ IF diagnosis = NoPiece
     THEN UNCHANGED <<connVars, planVars, blockVars, indexVars, join, ledgerVars,
                      storeVars>>
     ELSE /\ ResetBlocks(diagnosis, BlocksOf(diagnosis))
          /\ diagnosis' = NoPiece
          /\ UNCHANGED hashed
  /\ UNCHANGED <<mode, banned>>

\* the torrent completes, is paused, or its supervisor fails
BeginStop ==
  /\ Idle /\ mode' = "stopping"
  /\ UNCHANGED <<connVars, planVars, blockVars, indexVars, join, ledgerVars,
                 storeVars, revision, banned>>

\* cancel_all: the blocks whose write is given up
GivenUp == {b \in Block : phase[b] = "Writing"}

\* cancel_all: every request ends and every write is given up, while the
\* storage owner is still running
CancelAll ==
  LET W == GivenUp
      F == Orphaned(active) \cup W
      freed(p) == Cardinality(F \cap BlocksOf(p))
  IN /\ mode = "stopping" /\ mode' = "cancelled"
     /\ attempts' = [b \in Block |-> Ended(b, active)]
     /\ phase' = [b \in Block |-> IF b \in F THEN "Missing" ELSE phase[b]]
     /\ source' = [b \in Block |-> IF b \in W THEN NoConn ELSE source[b]]
     /\ evidence' = [b \in Block |-> IF b \in W THEN 0 ELSE evidence[b]]
     /\ active' = {}
     /\ requests' = Release(active)
     /\ outstanding' = outstanding - Cardinality(active)
     /\ count' = [count EXCEPT !["Requested"] = @ - Cardinality(Orphaned(active)),
                               !["Writing"] = @ - Cardinality(W),
                               !["Missing"] = @ + Cardinality(F)]
     /\ contributions' = Uncredit(W)
     /\ pieceMissing' = [p \in Piece |-> pieceMissing[p] + freed(p)]
     /\ pieceActive' = [p \in Piece |-> pieceActive[p] - freed(p)]
     /\ cursor' = [p \in Piece |-> Min({cursor[p]} \cup {b[2] : b \in F \cap BlocksOf(p)})]
     /\ activePieces' = {}
     /\ requestable' = [p \in Piece |-> 0]
     /\ UNCHANGED <<connVars, planVars, nextId, join, routes, storeVars,
                    revision, banned>>

\* stop_storage joins the storage owner; jobs it has not executed are dropped
StopStorage ==
  /\ mode = "cancelled" /\ mode' = "stopped"
  /\ writes' = {} /\ written' = {} /\ hashes' = {} /\ hashed' = {}
  /\ UNCHANGED <<connVars, planVars, blockVars, indexVars, join, ledgerVars,
                 disk, have, diagnosis, revision, banned>>

Stopped == mode = "stopped" /\ UNCHANGED vars

-----------------------------------------------------------------------------
Init ==
  /\ conn = [c \in Conn |-> "new"]
  /\ choking = [c \in Conn |-> TRUE]
  /\ initial = [c \in Conn |-> FALSE]
  /\ avail = [c \in Conn |-> {}]
  /\ allowedFast = [c \in Conn |-> {}]
  /\ requests = [c \in Conn |-> 0]
  /\ wanted \in SUBSET Piece
  /\ have \in SUBSET (Piece \ wanted)
  /\ planned = {}
  /\ phase = [b \in Block |-> "None"]
  /\ source = [b \in Block |-> NoConn]
  /\ evidence = [b \in Block |-> 0]
  /\ attempts = [b \in Block |-> {}]
  /\ active = {}
  /\ nextId = 1
  /\ pieceMissing = [p \in Piece |-> 0]
  /\ pieceActive = [p \in Piece |-> 0]
  /\ cursor = [p \in Piece |-> BlockCount[p] + 1]
  /\ join = [p \in Piece |-> NewJoin(BlockCount[p])]
  /\ activePieces = {}
  /\ requestable = [p \in Piece |-> 0]
  /\ count = [s \in Status |-> 0]
  /\ outstanding = 0
  /\ contributions = [c \in Conn |-> 0]
  /\ routes = {}
  /\ banned = {}
  /\ writes = {} /\ written = {} /\ hashes = {} /\ hashed = {}
  /\ disk = [b \in Block |-> IF b[1] \in have THEN "good" ELSE "none"]
  /\ diagnosis = NoPiece
  /\ revision = 0
  /\ mode = "running"

PeerNext ==
  \/ \E c \in Conn :
       \/ AddConnection(c) \/ RemoveConnection(c) \/ CloseBanned(c)
       \/ Choke(c) \/ Unchoke(c)
       \/ \E P \in SUBSET Piece : SetAvailability(c, P)
       \/ \E p \in Piece : PeerHas(c, p) \/ AllowedFast(c, p)
       \/ \E b \in Block, content \in {"good", "bad"} : ReceiveBlock(c, b, content)
  \/ \E a \in active : RejectRequest(a)

ScheduleNext ==
  \/ \E p \in Piece : PlanPiece(p) \/ \E fits \in BOOLEAN : PlanForStreaming(p, fits)
  \/ \E c \in Conn :
       \/ ScheduleActive(c) \/ ScheduleEndgame(c)
       \/ \E p \in Piece : ScheduleInactive(c, p) \/ ScheduleStreaming(c, p)
       \/ \E b \in Block : ScheduleStreamingDuplicate(c, b)
  \/ \E T \in SUBSET active : ExpireRequests(T)

StorageNext ==
  \/ \E w \in writes : ExecuteWrite(w)
  \/ \E h \in hashes : ExecuteHash(h)
  \/ \E r \in written : WriteStored(r) \/ WriteFailed(r)
  \/ \E h \in hashed : \/ PieceVerified(h) \/ PieceHashFailed(h)
                       \/ BeginDiagnosis(h) \/ HashFatal(h)
  \/ \E bad \in SUBSET Block : FinishDiagnosis(bad)

RunNext ==
  \/ \E W \in SUBSET Piece, lost \in SUBSET have : ReplaceWanted(W, lost)
  \/ ReplacePriorities \/ BeginStop \/ CancelAll \/ StopStorage \/ Stopped

Next == PeerNext \/ ScheduleNext \/ StorageNext \/ RunNext

Spec == Init /\ [][Next]_vars


-----------------------------------------------------------------------------
(* Correctness. *)

AttemptRecord == [id : Nat, conn : Conn, disposition : Disposition]
ActiveRecord == [id : Nat, conn : Conn, block : Block, purpose : Purposes]
JoinRecord == [generation : Nat \ {0}, expected : Int, completed : Int,
               failed : BOOLEAN, hash : HashState]

\* Every variable has the shape of the Rust field it stands for.
TypeOK ==
  /\ conn \in [Conn -> {"new", "open", "closed"}]
  /\ choking \in [Conn -> BOOLEAN] /\ initial \in [Conn -> BOOLEAN]
  /\ avail \in [Conn -> SUBSET Piece] /\ allowedFast \in [Conn -> SUBSET Piece]
  /\ requests \in [Conn -> Int] /\ contributions \in [Conn -> Int]
  /\ wanted \subseteq Piece /\ planned \subseteq Piece /\ have \subseteq Piece
  /\ phase \in [Block -> Phases]
  /\ source \in [Block -> Conn \cup {NoConn}] /\ evidence \in [Block -> Nat]
  /\ attempts \in [Block -> SUBSET AttemptRecord]
  /\ active \subseteq ActiveRecord /\ nextId \in Nat
  /\ pieceMissing \in [Piece -> Int] /\ pieceActive \in [Piece -> Int]
  /\ cursor \in [Piece -> Int] /\ requestable \in [Piece -> Int]
  /\ join \in [Piece -> JoinRecord]
  /\ activePieces \subseteq Piece
  /\ count \in [Status -> Int] /\ outstanding \in Int
  /\ routes \subseteq Conn /\ banned \subseteq Conn
  /\ writes \subseteq [block : Block, generation : Nat, content : Content]
  /\ written \subseteq [block : Block, generation : Nat, ok : BOOLEAN]
  /\ hashes \subseteq [piece : Piece, generation : Nat]
  /\ hashed \subseteq [piece : Piece, generation : Nat, ok : BOOLEAN]
  /\ disk \in [Block -> Content]
  /\ diagnosis \in Piece \cup {NoPiece} /\ revision \in Nat
  /\ mode \in {"running", "stopping", "cancelled", "stopped"}

(***************************************************************************)
(* Request ownership (docs/topics/download-correctness.md, "Every          *)
(* outstanding request has exactly one torrent-level owner"): the index of *)
(* active attempts and the attempts retained by the blocks agree, a block  *)
(* is Requested exactly while it has an active attempt, every active       *)
(* attempt belongs to an open connection, and a connection is asked for a  *)
(* block at most once at a time.                                           *)
(***************************************************************************)
IndexAgrees ==
  /\ \A a \in active : \E r \in ActiveIn(a.block) : r.id = a.id /\ r.conn = a.conn
  /\ \A b \in Block : \A r \in ActiveIn(b) :
       \E a \in active : a.id = r.id /\ a.conn = r.conn /\ a.block = b
RequestedIsOwned ==
  \A b \in Block : phase[b] = "Requested" <=> ActiveIn(b) # {}
OwnersAreOpen == \A a \in active : IsOpen(a.conn)
OneRequestEach ==
  \A a, d \in active : a.block = d.block /\ a.conn = d.conn => a = d
RequestOwnership ==
  IndexAgrees /\ RequestedIsOwned /\ OwnersAreOpen /\ OneRequestEach

(***************************************************************************)
(* The incremental counters equal what they count, so none of the checked  *)
(* subtractions of swarm.rs can underflow: blocks per phase, outstanding   *)
(* bytes, requests per connection, blocks per piece and the unverified     *)
(* contributions of every sender, gone or not.                             *)
(***************************************************************************)
InPhase(S) == {b \in Block : phase[b] \in S}
CountersExact ==
  /\ \A s \in Status : count[s] = Cardinality(InPhase({s}))
  /\ outstanding = Cardinality(active)
  /\ \A c \in Conn : requests[c] = Cardinality({a \in active : a.conn = c})
  /\ \A p \in Piece :
       /\ pieceMissing[p] = Cardinality(InPhase({"Missing"}) \cap BlocksOf(p))
       /\ pieceActive[p] = Cardinality(
            InPhase({"Requested", "Writing", "Received"}) \cap BlocksOf(p))
  /\ \A c \in Conn : contributions[c] =
       Cardinality({b \in InPhase({"Writing", "Received"}) : source[b] = c})

(***************************************************************************)
(* The scheduler's indexes are exact until the run is torn down: a piece   *)
(* is active while one of its blocks is, the cursor of a planned piece is  *)
(* at its first missing block, and the cached next request of a piece is   *)
(* that block exactly while the piece is active.  A wrong index makes a    *)
(* wanted block unschedulable for good.                                    *)
(***************************************************************************)
IndexesExact ==
  mode \in {"running", "stopping"} =>
    \A p \in Piece :
      LET missing == {b[2] : b \in InPhase({"Missing"}) \cap BlocksOf(p)}
          first == IF missing = {} THEN BlockCount[p] + 1 ELSE Min(missing)
          busy == pieceActive[p] # 0
      IN /\ (p \in activePieces) = busy
         /\ cursor[p] = first
         /\ requestable[p] = IF busy /\ missing # {} THEN first ELSE 0

(***************************************************************************)
(* The evidence of a stored or arriving payload outlives its connection    *)
(* and the trimming of old attempts (piece_contributor_sources reports its *)
(* loss as a broken invariant), and the driver can still attribute every   *)
(* unverified block to its sender (contributor_attempts).                  *)
(***************************************************************************)
EvidenceRetained ==
  \A b \in InPhase({"Writing", "Received"}) :
    /\ \E r \in attempts[b] : /\ r.id = evidence[b] /\ r.conn = source[b]
                              /\ r.disposition = "PayloadReceived"
    /\ source[b] \in routes

(***************************************************************************)
(* The write/hash join: a block is Writing exactly while one write of it,  *)
(* of the current generation, is with the storage owner; a hash runs       *)
(* exactly while one hash job of the current generation exists, and only   *)
(* when every block of the piece is Received.  So no completion is ever    *)
(* stale, and no write can be in flight under a running hash.              *)
(***************************************************************************)
WritesOf(b) == {w \in writes : w.block = b} \cup {r \in written : r.block = b}
HashesOf(p) == {h \in hashes : h.piece = p} \cup {h \in hashed : h.piece = p}
StorageJoinSound ==
  mode = "running" =>
    /\ \A b \in Block :
         /\ Cardinality(WritesOf(b)) = IF phase[b] = "Writing" THEN 1 ELSE 0
         /\ \A w \in WritesOf(b) : w.generation = join[b[1]].generation
    /\ \A p \in Piece :
         /\ Cardinality(HashesOf(p)) = IF join[p].hash = "Running" THEN 1 ELSE 0
         /\ \A h \in HashesOf(p) : h.generation = join[p].generation
         /\ join[p].hash # "NotStarted" =>
              /\ p \in planned /\ \A b \in BlocksOf(p) : phase[b] = "Received"
              /\ join[p].hash = "Failed" => diagnosis = p
         /\ p \in planned =>
              join[p].expected - join[p].completed =
                Cardinality(InPhase({"Missing", "Requested", "Writing"}) \cap BlocksOf(p))

(***************************************************************************)
(* No unverified piece becomes authoritative have state: whatever corrupt  *)
(* payload, failed write, late block or teardown happened, the bytes of a  *)
(* published piece are the right ones on disk, now and later.              *)
(***************************************************************************)
HaveIsGood == \A p \in have : \A b \in BlocksOf(p) : disk[b] = "good"

(***************************************************************************)
(* The configured ceilings hold whatever the peers do.                     *)
(***************************************************************************)
LimitsHold ==
  /\ outstanding <= MaxOutstanding
  /\ \A c \in Conn : requests[c] <= MaxRequests
  /\ Cardinality(activePieces) <= MaxActivePieces
  /\ Cardinality(planned) <= MaxPlanned /\ Cardinality(Open) <= MaxConns
  /\ \A b \in Block : Cardinality(attempts[b] \ ActiveIn(b)) <= MaxTerminal

(***************************************************************************)
(* Teardown returns everything: once cancel_all has run no request,        *)
(* reservation or write is counted any more.                               *)
(***************************************************************************)
TeardownReleases ==
  mode \in {"cancelled", "stopped"} =>
    /\ active = {} /\ outstanding = 0 /\ \A c \in Conn : requests[c] = 0
    /\ count["Requested"] = 0 /\ count["Writing"] = 0

\* The books of swarm.rs balance through every way a request may end: counters
\* are exact, under their ceilings, and back to nothing after teardown.
AccountsHold == CountersExact /\ LimitsHold /\ TeardownReleases

(***************************************************************************)
(* A stale event of one connection cannot release another's request: when  *)
(* a connection closes or chokes, requests of other connections survive.   *)
(***************************************************************************)
ReleaseIsLocal ==
  [][\A c \in Conn :
       (conn[c] = "open" /\ conn'[c] = "closed") \/ (~choking[c] /\ choking'[c])
         => {a \in active : a.conn # c} \subseteq active']_vars

(***************************************************************************)
(* Only a peer with the Fast extension owes an answer while it chokes us   *)
(* (set_choking): a request of any other peer ends with the choke, and the *)
(* scheduler never issues one to it before the unchoke, so no block waits  *)
(* for a peer that is not going to send it.                                *)
(***************************************************************************)
NoRequestUnderChoke ==
  \A a \in active : choking[a.conn] => a.conn \in FastConn

(***************************************************************************)
(* A block leaves Received only by a reset of its piece's generation or by *)
(* publication of the whole piece, and enters Received only from Writing:  *)
(* a storage failure cannot leave a block counted as received.             *)
(***************************************************************************)
ReceivedIsStable ==
  [][\A b \in Block :
       LET p == b[1]
       IN /\ (phase[b] = "Received" /\ phase'[b] # "Received") =>
               \/ join'[p].generation = join[p].generation + 1
               \/ p \in have' \ have
               \/ revision' # revision
          /\ (phase[b] # "Received" /\ phase'[b] = "Received") =>
               phase[b] = "Writing" /\ disk[b] # "none"]_vars

=============================================================================
