----------------------------- MODULE ByteStream -----------------------------
(***************************************************************************)
(* What the receiving side of a TCP connection promises its user: the      *)
(* bytes of the peer's stream are passed on in order, none left out and    *)
(* none twice, and the end of the stream is announced once, after all of   *)
(* them.  Bytes are numbered from 1 in the order the peer wrote them.      *)
(***************************************************************************)
EXTENDS Integers, Sequences

CONSTANT Total  \* bytes of the peer's stream

VARIABLES
    bytes,  \* the numbers of the bytes passed on, in that order
    ended   \* the end of the stream was announced

Init == bytes = <<>> /\ ended = FALSE

PassOn(n) ==
    /\ ~ended
    /\ Len(bytes) + n <= Total
    /\ bytes' = bytes \o [i \in 1 .. n |-> Len(bytes) + i]

\* The last bytes and the end may come together.
Next ==
    \/ \E n \in 1 .. Total : PassOn(n) /\ (ended' => Len(bytes') = Total)
    \/ ~ended /\ ended' /\ Len(bytes) = Total /\ UNCHANGED bytes

Spec == Init /\ [][Next]_<<bytes, ended>>
=============================================================================
