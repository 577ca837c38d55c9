----------------------------- MODULE ByteStream -----------------------------
(***************************************************************************)
(* What a uTP connection promises its two applications: a reliable ordered *)
(* byte stream in each direction.  Units of payload are numbered in the    *)
(* order in which an application hands them over; the peer is given a      *)
(* growing prefix of them, each unit once, and learns of the end of the    *)
(* stream only together with, or after, the last unit.  A side may go down *)
(* at any time; then the stream simply stops.                              *)
(***************************************************************************)
EXTENDS Integers, Sequences

CONSTANTS Side,       \* the two endpoints
          Peer(_)     \* the other endpoint

VARIABLES written,    \* written[e]: units e's application has handed over
          closing,    \* closing[e]: e's application has asked for the close
          got,        \* got[e]: the units given to e's application, in order
          ended,      \* ended[e]: e has been told that the stream ended
          down        \* down[e]: e's connection is over

vars == <<written, closing, got, ended, down>>

\* The first n units of a stream.
Prefix(n) == [i \in 1..n |-> i]

Init ==
    /\ written = [e \in Side |-> 0]
    /\ closing = [e \in Side |-> FALSE]
    /\ got = [e \in Side |-> <<>>]
    /\ ended = [e \in Side |-> FALSE]
    /\ down = [e \in Side |-> FALSE]

Write(e) ==
    /\ written'[e] \in Nat /\ written'[e] > written[e]
    /\ ~closing[e] /\ ~down[e]
    /\ written' = [written EXCEPT ![e] = written'[e]]
    /\ UNCHANGED <<closing, got, ended, down>>

Close(e) ==
    /\ ~down[e]
    /\ closing' = [closing EXCEPT ![e] = TRUE]
    /\ UNCHANGED <<written, got, ended, down>>

\* e is given a longer prefix of what its peer wrote, the end of the stream
\* with the last of it.
Deliver(e) ==
    /\ ~down[e] /\ ~ended[e]
    /\ \E n \in Len(got[e])..written[Peer(e)] :
          got' = [got EXCEPT ![e] = Prefix(n)]
    /\ ended' \in {ended, [ended EXCEPT ![e] = TRUE]}
    /\ ended'[e] => closing[Peer(e)] /\ Len(got'[e]) = written[Peer(e)]
    /\ UNCHANGED <<written, closing, down>>

\* A side that is down says nothing any more, of the end neither.
GoDown(e) ==
    /\ down' = [down EXCEPT ![e] = TRUE]
    /\ ended' = [ended EXCEPT ![e] = FALSE]
    /\ UNCHANGED <<written, closing, got>>

Next == \E e \in Side : Deliver(e) \/ Write(e) \/ GoDown(e) \/ Close(e)

Spec == Init /\ [][Next]_vars
=============================================================================
