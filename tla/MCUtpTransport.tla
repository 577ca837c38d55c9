--------------------------- MODULE MCUtpTransport ---------------------------
(* Small instances of UtpTransport for TLC. *)
EXTENDS UtpTransport

\* Sequence numbers start just below the wrap.
MCIss == [e \in Side |-> IF e = Initiator THEN Modulus - 2 ELSE Modulus - 1]

\* One direction carries payload.
MCUpload2 == [e \in Side |-> IF e = Initiator THEN 2 ELSE 0]

MCBothClose == Side

\* The receiver of the payload may go away.
MCReceiverDrops == {<<Acceptor, "Closed">>}
=============================================================================
