------------------------------ MODULE FastPeer ------------------------------
(***************************************************************************)
(* Swarm composed with the wire to well-behaved peers of the Fast          *)
(* extension (BEP 6).  Such a peer answers every request it was sent with  *)
(* exactly one PIECE or REJECT_REQUEST, cancelled or not; the answer names *)
(* the block, not the attempt.  The answers run through the whole of       *)
(* driver.rs handle_message: receive_block and reject_request with every   *)
(* disposition, and the decision to close the peer.                        *)
(*                                                                         *)
(* Connections outside FastConn stay as in Swarm: they may do anything.    *)
(***************************************************************************)
EXTENDS Swarm

VARIABLE
  owed      \* requests on the wire to Fast peers, not answered: [id, conn, block]

\* the requests that are owed an answer after a Swarm step: new attempts are
\* sent, a closed connection owes nothing
OwedAfter(Q) ==
  LET sent == {[id |-> a.id, conn |-> a.conn, block |-> a.block] :
                 a \in {d \in active' \ active : d.conn \in FastConn}}
  IN {q \in Q \cup sent : conn'[q.conn] = "open"}

\* everything but the answers of Fast peers
Unprompted ==
  \/ \E c \in Conn :
       \/ AddConnection(c) \/ RemoveConnection(c) \/ CloseBanned(c)
       \/ Choke(c) \/ Unchoke(c)
       \/ \E P \in SUBSET Piece : SetAvailability(c, P)
       \/ \E p \in Piece : PeerHas(c, p) \/ AllowedFast(c, p)
  \/ \E c \in Conn \ FastConn, b \in Block, content \in {"good", "bad"} :
       ReceiveBlock(c, b, content)
  \/ ScheduleNext \/ StorageNext \/ RunNext

OtherStep ==
  /\ Unprompted /\ owed' = OwedAfter(owed)

\* the peer is closed for its answer q
CloseFor(q) ==
  /\ RemoveConnection(q.conn)
  /\ owed' = OwedAfter(owed)

\* PIECE that receive_block accepts
PieceAccepted(q) ==
  /\ q \in owed
  /\ ReceiveBlock(q.conn, q.block, "good")
  /\ owed' = owed \ {q}

\* ReceiveDisposition::Redundant
PieceRedundant(q) ==
  /\ q \in owed /\ Idle /\ Announced(q.conn)
  /\ From(q.block, q.conn) # {} /\ phase[q.block] # "Requested"
  /\ owed' = owed \ {q} /\ UNCHANGED vars

\* ReceiveDisposition::Unsolicited: a Fast peer is closed
PieceUnsolicited(q) ==
  /\ q \in owed /\ Announced(q.conn) /\ From(q.block, q.conn) = {}
  /\ CloseFor(q)

\* mutant: the reject is taken for a stale one and its attempt lives on
RejectDropped(q) ==
  /\ q \in owed /\ Idle /\ initial[q.conn]
  /\ owed' = owed \ {q} /\ UNCHANGED vars

\* RejectDisposition::Accepted: the active attempt of the connection on the
\* block ends, whichever request the peer meant
RejectAccepted(q) ==
  /\ q \in owed
  /\ \E a \in active :
       /\ a.conn = q.conn /\ a.block = q.block
       /\ RejectRequest(a)
  /\ owed' = owed \ {q}

\* RejectDisposition::Stale: the attempt had ended
RejectStale(q) ==
  /\ q \in owed /\ Idle /\ initial[q.conn]
  /\ From(q.block, q.conn) # {}
  /\ \A r \in From(q.block, q.conn) : ~IsActive(r)
  /\ owed' = owed \ {q} /\ UNCHANGED vars

\* RejectDisposition::NeverRequested: the peer is closed
RejectNeverRequested(q) ==
  /\ q \in owed /\ initial[q.conn] /\ From(q.block, q.conn) = {}
  /\ CloseFor(q)

Answer ==
  \E q \in owed :
    \/ PieceAccepted(q) \/ PieceRedundant(q) \/ PieceUnsolicited(q)
    \/ RejectAccepted(q) \/ RejectStale(q) \/ RejectNeverRequested(q)

FastInit == Init /\ owed = {}
FastNext == OtherStep \/ Answer
FastSpec == FastInit /\ [][FastNext]_<<vars, owed>>

-----------------------------------------------------------------------------
(***************************************************************************)
(* No request waits for nothing: while an attempt of a well-behaved Fast   *)
(* peer is active, that peer still owes an answer for the block, although  *)
(* answers carry no attempt identifier and one block may have been asked   *)
(* for several times.                                                      *)
(***************************************************************************)
ActiveIsOwed ==
  \A a \in active : a.conn \in FastConn =>
    \E q \in owed : q.conn = a.conn /\ q.block = a.block

\* No active request waits for an answer that will not come: an ordinary peer
\* that chokes loses its requests, and a Fast peer still owes each of its own.
AnswersCome == NoRequestUnderChoke /\ ActiveIsOwed

(***************************************************************************)
(* A request that is owed an answer is forgotten only with the plan of its *)
(* piece, or when the history of its block is full: until then the late    *)
(* answer of a well-behaved Fast peer finds an attempt (Redundant, Stale)  *)
(* and does not close the peer.  It may be forgotten while it is owed: the *)
(* plan of a verified piece goes with every attempt of its blocks, and the *)
(* loser of an endgame race is then closed for its answer.                 *)
(***************************************************************************)
OwedIsRemembered ==
  [][\A q \in owed \cap owed' :
       From(q.block, q.conn) # {} /\ From(q.block, q.conn)' = {} =>
         \/ q.block[1] \notin planned'
         \/ Cardinality(attempts'[q.block]) >= MaxTerminal]_<<vars, owed>>
=============================================================================
