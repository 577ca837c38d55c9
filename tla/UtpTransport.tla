---------------------------- MODULE UtpTransport ----------------------------
(***************************************************************************)
(* One uTP connection: an initiator and an acceptor, each a                *)
(* TransportState with its send ledger, receive ledger, retransmission     *)
(* queue and acknowledgement schedule, over a network that loses,          *)
(* duplicates and reorders datagrams.                                      *)
(*                                                                         *)
(* Sequence numbers wrap at Modulus (2^16 in the code).  A payload unit is *)
(* one packet; a packet carries the position of its unit in the stream, so *)
(* that a receiver that is given the wrong bytes can be told from one that *)
(* is given the right ones.  Time is left out: a timer that is armed may   *)
(* fire at any moment, a delayed acknowledgement may go out at any moment, *)
(* and the congestion window, the pacer and the path MTU only decide when  *)
(* an enabled emission happens, if at all.  Nothing is assumed to happen   *)
(* in the end, so nothing is promised either: the specification is a       *)
(* safety one.  A datagram may be late by the whole connection; what it    *)
(* may not be is late by half the sequence space, so a script is shorter   *)
(* than that.                                                              *)
(***************************************************************************)
EXTENDS Integers, Sequences, FiniteSets

CONSTANTS
    Modulus,        \* size of the sequence space (2^16)
    MaxSent,        \* MAX_SENT_PACKETS
    MaxTx,          \* MAX_TRANSMISSIONS
    MaxReceive,     \* MAX_RECEIVE_BYTES, in units
    MaxReorder,     \* MAX_REORDER_PACKETS
    LossThreshold,  \* LOSS_ACK_THRESHOLD
    Iss,            \* Iss[e]: the initial sequence number drawn for e
    Script,         \* Script[e]: how many units e's application writes, at once
    Closers,        \* the sides whose application closes its stream
    Faults,         \* <<e, how>>: e may be dropped (Closed) or be reset
    NetMax,         \* bound: datagrams in flight
    MaxFaults       \* bound: datagrams lost or duplicated

Initiator == "initiator"
Acceptor == "acceptor"
Side == {Initiator, Acceptor}
Peer(e) == IF e = Initiator THEN Acceptor ELSE Initiator
None == -1
Half == Modulus \div 2
MaxDistance == MaxReorder + 1

ASSUME SequenceAssumption ==
    /\ Modulus \in Nat /\ Modulus % 2 = 0
    /\ MaxSent \in Nat \ {0} /\ MaxTx \in Nat \ {0}
    /\ MaxReceive \in Nat \ {0} /\ MaxReorder \in Nat
    /\ LossThreshold \in Nat \ {0}
    /\ MaxDistance < Half
    /\ Iss \in [Side -> 0..Modulus - 1] /\ Script \in [Side -> Nat]
    /\ \A e \in Side : Script[e] + 2 <= Half
    /\ Closers \subseteq Side /\ Faults \subseteq Side \X {"Closed", "Reset"}
    /\ NetMax \in Nat /\ MaxFaults \in Nat

VARIABLES
    phase,      \* phase[e]: ConnectionPhase, "None" before the SYN arrives
    send,       \* send[e]: SendState
    recv,       \* recv[e]: ReceiveState
    retx,       \* retx[e]: RetransmissionQueue
    flight,     \* flight[e]: sequence numbers counted as in flight
    window,     \* window[e]: remote_window_bytes
    ackDue,     \* ackDue[e]: an acknowledgement is owed
    synDue,     \* the initial SYN has not been emitted
    written,    \* written[e]: units queued by e's application
    sent,       \* sent[e]: units of e packetized
    closing,    \* closing[e]: close_requested
    got,        \* got[e]: positions given to e's application, in order
    net,        \* datagrams in flight
    faults      \* datagrams lost or duplicated so far

sendVars == <<send, retx, flight>>
appVars == <<written, sent, closing>>
vars == <<phase, send, recv, retx, flight, window, ackDue, synDue,
          written, sent, closing, got, net, faults>>

(***************************************************************************)
(* Sequence arithmetic.                                                    *)
(***************************************************************************)
Add(s, n) == (s + n) % Modulus
Distance(s, t) == (s - t + Modulus) % Modulus

\* s is after t; the half range is nobody's successor.
After(s, t) == Distance(s, t) \in 1..Half - 1
Before(s, t) == Distance(s, t) > Half

Terminal(e) == phase[e] \in {"Reset", "Closed"}
Open(e) == phase[e] \in {"Connected", "RemoteFinReceived"}

(***************************************************************************)
(* Receive ledger.                                                         *)
(***************************************************************************)
NewReceive(ack) ==
    [ack |-> ack, buf |-> {}, unread |-> 0, fin |-> None, eof |-> FALSE]

Payload(kind) == IF kind = "DATA" THEN 1 ELSE 0

Buffered(r) == Cardinality({p \in r.buf : p.kind = "DATA"}) + r.unread

AdvertisedWindow(r) == MaxReceive - Buffered(r)

\* Offsets, from the acknowledgement number, of the packets held out of
\* order.
Sack(r) == {Distance(p.seq, r.ack) : p \in r.buf}

\* The packet is one the ledger takes: not behind or too far ahead of the
\* acknowledgement, not held already, on the right side of the FIN, and
\* within the receive window.
Receivable(r, kind, s) ==
    /\ r.fin # None => ~After(s, r.fin) /\ kind # "FIN"
    /\ After(s, r.ack) /\ Distance(s, r.ack) <= MaxDistance
    /\ \A p \in r.buf : p.seq # s
    /\ kind = "FIN" => \A p \in r.buf : ~After(p.seq, s)
    /\ Buffered(r) + Payload(kind) <= MaxReceive

\* The packets that leave the ledger when s arrives: none when s is out of
\* order, else s and the held packets that follow it without a gap.
Contiguous(r, kind, s, pos) ==
    LET held == r.buf \cup {[seq |-> s, kind |-> kind, pos |-> pos]}
        At(n) == {p \in held : p.seq = Add(r.ack, n)}
        n == CHOOSE k \in 0..MaxDistance :
                /\ \A i \in 1..k : At(i) # {}
                /\ At(k + 1) = {}
    IN  [i \in 1..n |-> CHOOSE p \in At(i) : TRUE]

\* The packets of s with a sequence number in S, in their order.
Picked(s, S) ==
    LET f[i \in 0..Len(s)] ==
          IF i = 0 THEN <<>>
          ELSE IF s[i].seq \in S THEN Append(f[i - 1], s[i]) ELSE f[i - 1]
    IN  f[Len(s)]

\* What deliver hands on of the packets that left the ledger: the FIN has no payload.
DataOf(out) ==
    Picked(out, {out[i].seq : i \in {k \in DOMAIN out : out[k].kind = "DATA"}})

\* mutant: a FIN that arrives early is the end at once
ReceiveEofEarly(r, kind, s, pos) ==
    LET out == Contiguous(r, kind, s, pos)
        gone == {out[i] : i \in DOMAIN out}
    IN  [ack |-> Add(r.ack, Len(out)),
         buf |-> (r.buf \cup {[seq |-> s, kind |-> kind, pos |-> pos]}) \ gone,
         unread |-> r.unread + Len(DataOf(out)),
         fin |-> IF kind = "FIN" THEN s ELSE r.fin,
         eof |-> r.eof \/ kind = "FIN"]

\* ReceiveState::receive on a packet it takes.
Receive(r, kind, s, pos) ==
    LET out == Contiguous(r, kind, s, pos)
        gone == {out[i] : i \in DOMAIN out}
    IN  [ack |-> Add(r.ack, Len(out)),
         buf |-> (r.buf \cup {[seq |-> s, kind |-> kind, pos |-> pos]}) \ gone,
         unread |-> r.unread + Len(DataOf(out)),
         fin |-> IF kind = "FIN" THEN s ELSE r.fin,
         eof |-> r.eof \/ \E p \in gone : p.kind = "FIN"]

\* What that receive gives to the application.
Given(r, kind, s, pos) ==
    LET data == DataOf(Contiguous(r, kind, s, pos))
    IN  [i \in DOMAIN data |-> data[i].pos]

(***************************************************************************)
(* Send ledger.                                                            *)
(***************************************************************************)
NewSend(iss) ==
    [next |-> iss, cum |-> Add(iss, Modulus - 1), high |-> None,
     out |-> <<>>, dup |-> 0, fin |-> FALSE]

\* SendState::record_sent: the packet joins the ledger; a FIN does not
\* consume a sequence number.
RecordSent(t, kind, pos) ==
    [t EXCEPT !.out = Append(@, [seq |-> t.next, kind |-> kind, pos |-> pos,
                                 tx |-> 1, lost |-> FALSE]),
              !.high = t.next,
              !.next = IF kind = "FIN" THEN @ ELSE Add(@, 1),
              !.fin = @ \/ kind = "FIN"]

Outstanding(t) == {t.out[i].seq : i \in DOMAIN t.out}

\* The acknowledgement number is one this ledger reads: the current one, or
\* a later one that does not pass the last packet sent.
Usable(t, ack) ==
    \/ ack = t.cum
    \/ /\ After(ack, t.cum)
       /\ t.high # None
       /\ ack = t.high \/ Before(ack, t.high)

\* The selective acknowledgements that name packets this ledger has sent.
Reported(t, ack, sack) ==
    {o \in sack : t.high # None /\ After(t.high, ack)
                                /\ o <= Distance(t.high, ack)}

\* mutant: an offset of the selective acknowledgement is one too high
ReleasedOffByOne(t, ack, sack, p) ==
    \/ ack # t.cum /\ After(p.seq, t.cum)
       /\ Distance(p.seq, t.cum) <= Distance(ack, t.cum)
    \/ After(p.seq, ack) /\ Distance(p.seq, ack) + 1 \in Reported(t, ack, sack)

\* The packet is released by the cumulative or the selective
\* acknowledgement.
Released(t, ack, sack, p) ==
    \/ ack # t.cum /\ After(p.seq, t.cum)
       /\ Distance(p.seq, t.cum) <= Distance(ack, t.cum)
    \/ After(p.seq, ack) /\ Distance(p.seq, ack) \in Reported(t, ack, sack)

\* Enough later packets are reported for p to be taken as lost, or the same
\* acknowledgement has come often enough.  `old' are the packets whose last
\* retransmission is older than a round trip.
Missing(t, dup, ack, sack, old, p) ==
    /\ ~p.lost /\ (p.tx = 1 \/ p.seq \in old)
    /\ \/ /\ After(p.seq, ack)
          /\ Cardinality({o \in Reported(t, ack, sack) : o > Distance(p.seq, ack)})
               >= LossThreshold
       \/ dup >= LossThreshold /\ p.seq = Add(ack, 1)

\* SendState::acknowledge: the ledger after the acknowledgement; packets
\* newly taken as lost are marked.
Acknowledge(t, ack, sack, kind, old) ==
    LET freed == {t.out[i].seq :
                    i \in {k \in DOMAIN t.out : Released(t, ack, sack, t.out[k])}}
        kept == Picked(t.out, Outstanding(t) \ freed)
        progress == ack # t.cum \/ Len(kept) # Len(t.out)
        dup == CASE progress -> 0
                 [] ~progress /\ kind = "STATE" /\ Reported(t, ack, sack) = {} ->
                      IF t.dup < LossThreshold THEN t.dup + 1 ELSE t.dup
                 [] OTHER -> t.dup
    IN  [t EXCEPT !.cum = ack,
                  !.dup = dup,
                  !.out = [i \in DOMAIN kept |->
                     [kept[i] EXCEPT !.lost =
                        @ \/ Missing(t, dup, ack, sack, old, kept[i])]]]

\* SendState::on_timeout_classified: everything outstanding is lost.
TimedOut(t) ==
    [t EXCEPT !.dup = 0,
              !.out = [i \in DOMAIN @ |-> [@[i] EXCEPT !.lost = TRUE]]]

\* SendState::mark_retransmitted.
Resent(t, i) ==
    [t EXCEPT !.out[i].tx = @ + 1, !.out[i].lost = FALSE, !.dup = 0]

LostIn(t) == {t.out[i].seq : i \in {k \in DOMAIN t.out : t.out[k].lost}}
ResentIn(t) == {t.out[i].seq : i \in {k \in DOMAIN t.out : t.out[k].tx > 1}}

\* The ledgers that p may leave: any retransmission may be older than a round trip.
Acknowledged(t, p) ==
    {Acknowledge(t, p.ack, p.sack, p.kind, old) : old \in SUBSET ResentIn(t)}

\* RetransmissionQueue::schedule, in ledger order.
Schedule(q, t, seqs, fast) ==
    LET queued == {q[i].seq : i \in DOMAIN q}
        new == Picked(t.out, seqs \ queued)
    IN  [i \in DOMAIN q |->
            [q[i] EXCEPT !.fast = @ \/ (fast /\ q[i].seq \in seqs)]]
        \o [i \in DOMAIN new |-> [seq |-> new[i].seq, fast |-> fast]]

\* mutant: acknowledged packets stay queued
UnscheduleNothing(q, t) == q

\* The acknowledged packets leave the queue.
Unschedule(q, t) == Picked(q, Outstanding(t))

FlightBytes(e) ==
    Cardinality({i \in DOMAIN send[e].out :
                    /\ send[e].out[i].kind = "DATA"
                    /\ send[e].out[i].seq \in flight[e]})

(***************************************************************************)
(* The network.                                                            *)
(***************************************************************************)
\* Emitting a packet: it is lost, or travels.
Emit(p) ==
    \/ faults < MaxFaults /\ faults' = faults + 1 /\ UNCHANGED net
    \/ /\ Cardinality(net \cup {p}) <= NetMax
       /\ net' = net \cup {p}
       /\ UNCHANGED faults

\* A packet with the header every packet but the SYN carries: the receive
\* ledger's acknowledgement, selective acknowledgement and window.
Packet(e, kind, s, pos, sack) ==
    [from |-> e, kind |-> kind, seq |-> s, pos |-> pos,
     ack |-> recv[e].ack, sack |-> sack,
     win |-> AdvertisedWindow(recv[e])]

SynPacket(e) ==
    [from |-> e, kind |-> "SYN", seq |-> Iss[e], pos |-> 0, ack |-> 0,
     sack |-> {}, win |-> MaxReceive]

(***************************************************************************)
(* Applications.                                                           *)
(***************************************************************************)
\* UtpWorker::maybe_publish: the initiator's stream exists once the SYN is
\* answered, the acceptor's once its first packet, that answer, is out.
Published(e) ==
    IF e = Initiator THEN phase[e] # "SynSent" ELSE got[e] # <<>> \/ ~ackDue[e]

\* TransportState::queue_data.
Write(e) ==
    /\ phase[e] # "None" /\ ~Terminal(e) /\ Published(e)
    /\ ~closing[e] /\ written[e] < Script[e]
    /\ e = Acceptor => got[e] # <<>>
    /\ written' = [written EXCEPT ![e] = Script[e]]
    /\ UNCHANGED <<phase, send, recv, retx, flight, window, ackDue, synDue,
                   sent, closing, got, net, faults>>

\* TransportState::request_close.
RequestClose(e) ==
    /\ phase[e] # "None" /\ ~Terminal(e) /\ Published(e)
    /\ e \in Closers /\ ~closing[e] /\ written[e] = Script[e]
    /\ e = Acceptor => got[e] # <<>>
    /\ closing' = [closing EXCEPT ![e] = TRUE]
    /\ UNCHANGED <<phase, send, recv, retx, flight, window, ackDue, synDue,
                   written, sent, got, net, faults>>

\* TransportState::consume_received: the application has read a unit; a
\* window that was shut is announced again.
Read(e) ==
    /\ recv[e].unread > 0 /\ ~Terminal(e)
    /\ recv' = [recv EXCEPT ![e].unread = @ - 1]
    /\ ackDue' = [ackDue EXCEPT ![e] = @ \/ AdvertisedWindow(recv[e]) = 0]
    /\ UNCHANGED <<phase, sendVars, window, synDue, appVars, got, net, faults>>

(***************************************************************************)
(* Emissions: TransportState::poll_transmit.                               *)
(***************************************************************************)
EmitSyn ==
    /\ synDue /\ ~Terminal(Initiator)
    /\ synDue' = FALSE
    /\ Emit(SynPacket(Initiator))
    /\ UNCHANGED <<phase, sendVars, recv, window, ackDue, appVars, got>>

\* process_timeout: every outstanding packet is lost and leaves the flight.
Timeout(e) ==
    /\ ~Terminal(e) /\ phase[e] # "None"
    /\ send[e].out # <<>>
    /\ LET t == TimedOut(send[e])
       IN  /\ send' = [send EXCEPT ![e] = t]
           /\ retx' = [retx EXCEPT ![e] = Schedule(@, t, Outstanding(t), FALSE)]
           /\ flight' = [flight EXCEPT ![e] = @ \ Outstanding(t)]
    /\ UNCHANGED <<phase, recv, window, ackDue, synDue, appVars, got, net, faults>>

\* What release_terminal_ownership and the reset of both ledgers leave of a
\* connection that ends.
Release(e, last) ==
    /\ phase' = [phase EXCEPT ![e] = last]
    /\ send' = [send EXCEPT ![e].out = <<>>, ![e].dup = 0]
    /\ recv' = [recv EXCEPT ![e].buf = {}, ![e].unread = 0,
                            ![e].fin = None, ![e].eof = FALSE]
    /\ retx' = [retx EXCEPT ![e] = <<>>]
    /\ flight' = [flight EXCEPT ![e] = {}]
    /\ ackDue' = [ackDue EXCEPT ![e] = FALSE]
    /\ synDue' = (synDue /\ e # Initiator)
    /\ closing' = [closing EXCEPT ![e] = TRUE]

\* retransmission_is_admissible.  The front of the queue may go out whatever
\* the windows are: it repairs a hole, nothing else is in flight, or it has no
\* payload.
Escapes(e) ==
    \/ Head(retx[e]).fast
    \/ FlightBytes(e) = 0
    \/ \A i \in DOMAIN send[e].out :
          send[e].out[i].seq = Head(retx[e]).seq => send[e].out[i].kind # "DATA"

\* Otherwise both windows must hold one more unit.
Admissible(e) == Escapes(e) \/ 1 <= window[e] - FlightBytes(e)

\* poll_retransmission.  A packet sent MaxTx times already ends the
\* connection, as does a queued packet that is no longer outstanding.  The
\* selective acknowledgement is left out when it does not fit.
Retransmit(e) ==
    /\ ~Terminal(e) /\ retx[e] # <<>> /\ ~(synDue /\ e = Initiator)
    /\ Admissible(e)
    /\ LET s == Head(retx[e]).seq
           at == {i \in DOMAIN send[e].out : send[e].out[i].seq = s}
       IN  IF \A i \in at : send[e].out[i].tx >= MaxTx
           THEN /\ Release(e, "Closed")
                /\ UNCHANGED <<window, written, sent, got, net, faults>>
           ELSE LET i == CHOOSE k \in at : TRUE
                    p == send[e].out[i]
                IN  /\ send' = [send EXCEPT ![e] = Resent(@, i)]
                    /\ retx' = [retx EXCEPT ![e] = Tail(@)]
                    /\ flight' = [flight EXCEPT ![e] = @ \cup {s}]
                    /\ ackDue' = [ackDue EXCEPT ![e] = FALSE]
                    /\ IF p.kind = "SYN"
                       THEN Emit(SynPacket(e))
                       ELSE \E sack \in {Sack(recv[e]), {}} :
                              Emit(Packet(e, p.kind, s, p.pos, sack))
                    /\ UNCHANGED <<phase, recv, window, synDue, appVars, got>>

\* poll_new_data.  record_sent refuses a sequence number more than MaxSent
\* beyond the cumulative acknowledgement, and that refusal ends the
\* connection.
NewData(e) ==
    /\ Open(e) /\ retx[e] = <<>>
    /\ sent[e] < written[e]
    /\ Len(send[e].out) < MaxSent
    /\ window[e] - FlightBytes(e) >= 1
    /\ IF Distance(send[e].next, send[e].cum) > MaxSent
       THEN /\ Release(e, "Closed")
            /\ UNCHANGED <<window, written, sent, got, net, faults>>
       ELSE /\ sent' = [sent EXCEPT ![e] = @ + 1]
            /\ send' = [send EXCEPT ![e] = RecordSent(@, "DATA", sent'[e])]
            /\ flight' = [flight EXCEPT ![e] = @ \cup {send[e].next}]
            /\ ackDue' = [ackDue EXCEPT ![e] = FALSE]
            /\ Emit(Packet(e, "DATA", send[e].next, sent'[e], Sack(recv[e])))
            /\ UNCHANGED <<phase, recv, retx, window, synDue, written,
                           closing, got>>

\* The close is requested and everything written has been sent.
CanFin(e) ==
    /\ Open(e) /\ retx[e] = <<>>
    /\ closing[e] /\ sent[e] = written[e] /\ ~send[e].fin
    /\ Len(send[e].out) < MaxSent

\* refresh_phase.
PhaseOf(finSent, eof) ==
    CASE ~finSent /\ ~eof -> "Connected"
      [] finSent /\ ~eof -> "LocalFinSent"
      [] ~finSent /\ eof -> "RemoteFinReceived"
      [] finSent /\ eof -> "Closing"

\* poll_fin.
EmitFin(e) ==
    /\ CanFin(e)
    /\ IF Distance(send[e].next, send[e].cum) > MaxSent
       THEN /\ Release(e, "Closed")
            /\ UNCHANGED <<window, written, sent, got, net, faults>>
       ELSE /\ send' = [send EXCEPT ![e] = RecordSent(@, "FIN", 0)]
            /\ phase' = [phase EXCEPT ![e] = PhaseOf(TRUE, recv[e].eof)]
            /\ flight' = [flight EXCEPT ![e] = @ \cup {send[e].next}]
            /\ ackDue' = [ackDue EXCEPT ![e] = FALSE]
            /\ Emit(Packet(e, "FIN", send[e].next, 0, Sack(recv[e])))
            /\ UNCHANGED <<recv, retx, window, synDue, appVars, got>>

StatePacket(e) == Packet(e, "STATE", send[e].next, 0, Sack(recv[e]))

\* The acknowledgement alone, when no sequence-bearing packet carries it.
EmitState(e) ==
    /\ ackDue[e] /\ ~Terminal(e) /\ ~CanFin(e)
    /\ ackDue' = [ackDue EXCEPT ![e] = FALSE]
    /\ Emit(StatePacket(e))
    /\ UNCHANGED <<phase, sendVars, recv, window, synDue, appVars, got>>

(***************************************************************************)
(* Arrivals: UtpService::handle_datagram and TransportState::incoming.     *)
(***************************************************************************)
\* A datagram arrives, and may arrive again.
Arrives(p) ==
    /\ p \in net
    /\ \/ net' = net \ {p} /\ UNCHANGED faults
       \/ net' = net /\ faults < MaxFaults /\ faults' = faults + 1

\* accept_syn: the SYN creates the acceptor's connection, once.
AcceptSyn(p) ==
    /\ p.kind = "SYN" /\ phase[Acceptor] = "None"
    /\ phase' = [phase EXCEPT ![Acceptor] = "Connected"]
    /\ recv' = [recv EXCEPT ![Acceptor] = NewReceive(p.seq)]
    /\ window' = [window EXCEPT ![Acceptor] = p.win]
    /\ ackDue' = [ackDue EXCEPT ![Acceptor] = TRUE]
    /\ UNCHANGED <<sendVars, synDue, appVars, got>>
    /\ Arrives(p)

\* A packet for nobody, a SYN for a connection that exists, or, while the
\* SYN is unanswered, a packet that does not acknowledge exactly the SYN:
\* nothing happens.
Dropped(p) ==
    LET e == Peer(p.from)
    IN  \/ Terminal(e)
        \/ phase[e] = "None" /\ p.kind # "SYN"
        \/ phase[e] # "None" /\ p.kind = "SYN"
        \/ phase[e] = "SynSent" /\ p.ack # Iss[e]

Ignore(p) ==
    /\ Dropped(p)
    /\ net' = net \ {p}
    /\ UNCHANGED <<phase, sendVars, recv, window, ackDue, synDue, appVars, got,
                   faults>>

\* The receive ledger a packet is offered to.  incoming_handshake_ack: the
\* first packet that acknowledges the SYN founds it, from its own sequence
\* number.
Ledger(e, p) ==
    IF phase[e] = "SynSent" THEN NewReceive(Add(p.seq, Modulus - 1)) ELSE recv[e]

\* incoming_established.
Takes(r, p) == p.kind \in {"DATA", "FIN"} /\ Receivable(r, p.kind, p.seq)

\* The payload is offered to the receive ledger, the acknowledgement to the
\* send ledger, and the transport settles what was released and what lost.
Incoming(p) ==
    LET e == Peer(p.from)
        r == Ledger(e, p)
        taken == Takes(r, p)
        t == send[e]
    IN  /\ p.kind # "SYN" /\ phase[e] # "None" /\ ~Dropped(p)
        /\ recv' = [recv EXCEPT ![e] =
                      IF taken THEN Receive(r, p.kind, p.seq, p.pos) ELSE r]
        /\ got' = [got EXCEPT ![e] =
                      IF taken THEN @ \o Given(r, p.kind, p.seq, p.pos) ELSE @]
        /\ IF Usable(t, p.ack)
           THEN \E u \in Acknowledged(t, p) :
                LET lost == LostIn(u) \ LostIn(t)
                IN  /\ send' = [send EXCEPT ![e] = u]
                    /\ retx' = [retx EXCEPT ![e] =
                                  Schedule(Unschedule(@, u), u, lost, TRUE)]
                    /\ flight' = [flight EXCEPT ![e] =
                                    (@ \cap Outstanding(u)) \ lost]
           ELSE UNCHANGED sendVars
        /\ phase' = [phase EXCEPT ![e] = PhaseOf(send'[e].fin, recv'[e].eof)]
        /\ window' = [window EXCEPT ![e] = p.win]
        /\ ackDue' = [ackDue EXCEPT ![e] = @ \/ p.kind \in {"DATA", "FIN"}]
        /\ Arrives(p)
        /\ UNCHANGED <<synDue, appVars>>

(***************************************************************************)
(* Endings.                                                                *)
(***************************************************************************)
\* mutant: the packets still outstanding are not waited for
ReadyWithOutstanding(e) == ~Terminal(e) /\ send[e].fin /\ recv[e].eof

ReadyToClose(e) ==
    /\ ~Terminal(e)
    /\ send[e].fin /\ send[e].out = <<>> /\ recv[e].eof

\* The worker finds the connection ready to close and finishes it.
Finish(e) ==
    /\ ReadyToClose(e)
    /\ Release(e, "Closed")
    /\ UNCHANGED <<window, written, sent, got, net, faults>>

\* The stream is dropped (which still sends an acknowledgement that is
\* owed), the service is cancelled, the socket is replaced, or the peer
\* sends RESET.
Abort(e) ==
    /\ ~Terminal(e) /\ phase[e] # "None"
    /\ \E last \in {"Closed", "Reset"} : <<e, last>> \in Faults /\ Release(e, last)
    /\ IF ackDue[e] THEN Emit(StatePacket(e)) ELSE UNCHANGED <<net, faults>>
    /\ UNCHANGED <<window, written, sent, got>>

Init ==
    /\ phase = [e \in Side |-> IF e = Initiator THEN "SynSent" ELSE "None"]
    /\ send = [e \in Side |->
                 IF e = Initiator THEN RecordSent(NewSend(Iss[e]), "SYN", 0)
                                  ELSE NewSend(Iss[e])]
    /\ recv = [e \in Side |-> NewReceive(0)]
    /\ retx = [e \in Side |-> <<>>]
    /\ flight = [e \in Side |-> {}]
    /\ window = [e \in Side |-> 0]
    /\ ackDue = [e \in Side |-> FALSE]
    /\ synDue = TRUE
    /\ written = [e \in Side |-> 0]
    /\ sent = [e \in Side |-> 0]
    /\ closing = [e \in Side |-> FALSE]
    /\ got = [e \in Side |-> <<>>]
    /\ net = {}
    /\ faults = 0

Local(e) ==
    \/ Timeout(e) \/ Retransmit(e) \/ NewData(e) \/ EmitFin(e) \/ EmitState(e)
    \/ Finish(e)

Next ==
    \/ EmitSyn
    \/ \E e \in Side : Write(e) \/ RequestClose(e) \/ Read(e) \/ Local(e) \/ Abort(e)
    \/ \E p \in net : AcceptSyn(p) \/ Ignore(p) \/ Incoming(p)

Spec == Init /\ [][Next]_vars

(***************************************************************************)
(* Properties.                                                             *)
(***************************************************************************)
TypeOK ==
    /\ phase \in [Side -> {"None", "SynSent", "Connected", "LocalFinSent",
                          "RemoteFinReceived", "Closing", "Reset", "Closed"}]
    /\ \A e \in Side :
         /\ send[e].next \in 0..Modulus - 1 /\ send[e].cum \in 0..Modulus - 1
         /\ send[e].high \in {None} \cup 0..Modulus - 1
         /\ send[e].dup \in 0..LossThreshold
         /\ \A i \in DOMAIN send[e].out : send[e].out[i].tx \in 1..MaxTx
         /\ recv[e].ack \in 0..Modulus - 1
         /\ recv[e].fin \in {None} \cup 0..Modulus - 1
         /\ sent[e] \in 0..written[e] /\ written[e] \in 0..Script[e]
    /\ Cardinality(net) <= NetMax

\* The connection is a reliable ordered byte stream in both directions
\* (send.rs, receive.rs and connection.rs together): a closed stream is one
\* whose FIN is sent, and the end is what the receive ledger reports as EOF.
Stream == INSTANCE ByteStream WITH
    closing <- [e \in Side |-> send[e].fin],
    ended <- [e \in Side |-> recv[e].eof],
    down <- [e \in Side |-> Terminal(e)]

StreamSpec == Stream!Spec

\* A unit the sender has let go of is one the receiver has: every packetized
\* unit is in the send ledger, held out of order by the peer, or given to the
\* peer's application.  This is what makes releasing a packet on a cumulative
\* or selective acknowledgement safe across the wrap of the sequence space.
Held(e, k) == \E p \in recv[e].buf : p.pos = k
AckedIsReceived ==
    \A e \in Side : ~Terminal(e) /\ ~Terminal(Peer(e)) =>
        \A k \in 1..sent[e] :
            \/ \E i \in DOMAIN send[e].out : send[e].out[i].pos = k
            \/ Held(Peer(e), k)
            \/ \E i \in DOMAIN got[Peer(e)] : got[Peer(e)][i] = k

\* Only packets the ledger still holds are queued for retransmission or
\* counted as in flight: poll_retransmission never asks the ledger for a
\* packet an acknowledgement has released, which would end the connection.
WorkIsOutstanding ==
    \A e \in Side :
        /\ {retx[e][i].seq : i \in DOMAIN retx[e]} \subseteq Outstanding(send[e])
        /\ flight[e] \subseteq Outstanding(send[e])

\* The receive ledger stays within the window it can advertise and within its
\* reorder slots, so receive never returns ReorderPacketLimit and the
\* advertised window never underflows.
LedgerBounded ==
    \A e \in Side : /\ Buffered(recv[e]) <= MaxReceive
                    /\ Cardinality(recv[e].buf) <= MaxReorder

\* Both ledgers are well formed and within their limits, and every queue of the
\* transport names packets the ledger holds.
LedgersSound == TypeOK /\ WorkIsOutstanding /\ LedgerBounded

\* A side that finishes has not left its peer short: everything it wrote has
\* been given to the peer, and the peer has seen its end or is gone.
FinishIsMutual ==
    [][\A e \in Side : Finish(e) =>
          /\ got[Peer(e)] = Stream!Prefix(written[e])
          /\ recv[Peer(e)].eof \/ Terminal(Peer(e))]_vars
=============================================================================
