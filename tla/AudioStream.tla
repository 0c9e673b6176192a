----------------------------- MODULE AudioStream -----------------------------
(***************************************************************************)
(* What the audio path promises: the samples of the converter leave the    *)
(* device in packets of Block samples, in the order they were taken, none  *)
(* left out and none sent twice.  At most one full block waits while the   *)
(* next one is being filled.                                               *)
(*                                                                         *)
(* Samples are numbered from 1 in the order the converter takes them.      *)
(***************************************************************************)
EXTENDS Integers

CONSTANT Block  \* samples in a packet, at least 1

VARIABLES
    taken,      \* number of samples taken
    delivered,  \* number of samples sent
    packet      \* the numbers of the samples in the packet sent last

vars == <<taken, delivered, packet>>

Init ==
    /\ taken = 0
    /\ delivered = 0
    /\ packet = [i \in 1 .. Block |-> 0]

Take ==
    /\ taken + 1 < delivered + 2 * Block
    /\ taken' = taken + 1
    /\ UNCHANGED <<delivered, packet>>

Deliver ==
    /\ delivered + Block <= taken
    /\ packet' = [i \in 1 .. Block |-> delivered + i]
    /\ delivered' = delivered + Block
    /\ UNCHANGED taken

Next == Take \/ Deliver

Live == WF_vars(Deliver)
Spec == Init /\ [][Next]_vars /\ Live
=============================================================================
