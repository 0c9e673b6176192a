----------------------------- MODULE TimerQueue -----------------------------
(***************************************************************************)
(* What the timeout list of lwIP promises its users: armed timers expire   *)
(* in the order of the times they still have to wait, and the expiry of    *)
(* one leaves the distances between the others as they were.               *)
(*                                                                         *)
(* wait[h] is the time timer h still has to wait, measured from the expiry *)
(* handled last.                                                           *)
(***************************************************************************)
EXTENDS Integers

CONSTANTS
    Handlers,  \* the timer handlers
    Times,     \* the times a timer can be armed with
    Unarmed    \* wait of a timer that is not armed

VARIABLE wait

Armed == {h \in Handlers : wait[h] # Unarmed}

Init == wait \in [Handlers -> Times \cup {Unarmed}]

Arm(h) ==
    /\ h \notin Armed
    /\ \E msecs \in Times : wait' = [wait EXCEPT ![h] = msecs]

Expire(h) ==
    /\ h \in Armed
    /\ \A other \in Armed : wait[h] <= wait[other]
    /\ wait' = [other \in Handlers |->
                  IF other \in Armed \ {h} THEN wait[other] - wait[h] ELSE Unarmed]

Next == \E h \in Handlers : Arm(h) \/ Expire(h)

Spec == Init /\ [][Next]_wait
=============================================================================
