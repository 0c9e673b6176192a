------------------------------ MODULE IpReass ------------------------------
(***************************************************************************)
(* IP fragments (src/src/lwip/src/core/ipv4/ip_frag.c): how a datagram is  *)
(* cut, and how the pieces, which may be lost, repeated, reordered and cut *)
(* differently on different routes, are put together again.                *)
(*                                                                         *)
(* Lengths are in units of 8 octets; a unit takes one pbuf.  Datagrams all *)
(* have the same length.  A failed assertion stops the program: here cc.h  *)
(* makes it a loop without end.                                            *)
(***************************************************************************)
EXTENDS Integers, Sequences, FiniteSets, FiniteSetsExt, SequencesExt

CONSTANTS
    Datagrams,      \* source, destination and identification
    Length,         \* of a datagram, without the header
    Rooms,          \* what the MTUs of the routes leave for data
    MaxPbufs,       \* IP_REASS_MAX_PBUFS
    MaxData,        \* MEMP_NUM_REASSDATA
    ReassMaxAge          \* IP_REASS_MAXAGE

ASSUME ReassAssumption ==
    /\ {Length, MaxPbufs, MaxData, ReassMaxAge} \subseteq Nat \ {0}
    /\ Rooms \subseteq Nat \ {0}

VARIABLES
    reassdatagrams,
    ip_reass_pbufcount,
    whole,      \* the pieces of the datagram the last step completed (history)
    hung        \* an assertion has failed

reassVars == <<reassdatagrams, ip_reass_pbufcount, whole, hung>>

ReassInit ==
    /\ reassdatagrams = <<>>
    /\ ip_reass_pbufcount = 0
    /\ whole = <<>>
    /\ hung = FALSE

-----------------------------------------------------------------------------
\* ip_frag: pieces as long as the MTU allows, and the rest.
ip_frag(room) ==
    {[start |-> k * room, end |-> Min({(k + 1) * room, Length})] : k \in {n \in 0 .. Length : n * room < Length}}

Pieces == UNION {ip_frag(room) : room \in Rooms}

More(f) == f.end < Length
Clen(f) == f.end - f.start

\* What a list of numbers comes to; the pbufs of one datagram, and of all on a list.
Total(s) ==
    LET sum[n \in 0 .. Len(s)] == IF n = 0 THEN 0 ELSE sum[n - 1] + s[n]
    IN  sum[Len(s)]

Pbufs(r)   == Total([k \in DOMAIN r.p |-> Clen(r.p[k])])
Held(list) == Total([k \in DOMAIN list |-> Pbufs(list[k])])

-----------------------------------------------------------------------------
\* What ip_reass works on, and how many pbufs were freed in the call.
Now == [list |-> reassdatagrams, count |-> ip_reass_pbufcount, freed |-> 0, more |-> TRUE, hung |-> FALSE]

\* ip_reass_free_complete_datagram
FreeDatagram(t, k) ==
    [t EXCEPT !.list = RemoveAt(@, k), !.count = @ - Pbufs(t.list[k]), !.freed = @ + Pbufs(t.list[k])]

\* One turn of ip_reass_remove_oldest_datagram.  The datagram before the last is
\* taken for the one before the oldest.
Others(t, d) == {k \in DOMAIN t.list : t.list[k].d # d}

OldestOther(t, d) == Max({k \in Others(t, d) : \A j \in Others(t, d) : t.list[k].timer <= t.list[j].timer})

RemoveOne(t, d, needed) ==
    LET k == OldestOther(t, d)
    IN IF ~t.more \/ t.hung THEN t
       ELSE IF Others(t, d) = {} THEN [t EXCEPT !.more = FALSE]
       ELSE IF k # Len(t.list) THEN [t EXCEPT !.hung = TRUE]
       ELSE [FreeDatagram(t, k) EXCEPT
                !.more = Pbufs(t.list[k]) + t.freed < needed /\ Cardinality(Others(t, d)) > 1]

ip_reass_remove_oldest_datagram(t, d, needed) ==
    LET turn[n \in 0 .. Len(t.list)] ==
            IF n = 0 THEN [t EXCEPT !.freed = 0, !.more = TRUE]
            ELSE RemoveOne(turn[n - 1], d, needed)
    IN  turn[Len(t.list)]

\* The first test of ip_reass, and ip_reass_enqueue_new_datagram.
Crowded(t, f) == t.count + Clen(f) > MaxPbufs

MadeRoom(t, d, f) ==
    IF Crowded(t, f) THEN ip_reass_remove_oldest_datagram(t, d, Clen(f)) ELSE t

Known(t, d) == {k \in DOMAIN t.list : t.list[k].d = d}

NewDatagram(t, d) ==
    [t EXCEPT !.list = <<[d |-> d, timer |-> ReassMaxAge, last |-> FALSE, p |-> <<>>]>> \o @]

ip_reass_enqueue_new_datagram(t, d, f) ==
    LET u == ip_reass_remove_oldest_datagram(t, d, Clen(f))
    IN CASE Len(t.list) < MaxData                           -> NewDatagram(t, d)
         [] Len(t.list) = MaxData /\ u.freed >= Clen(f) /\ ~u.hung -> NewDatagram(u, d)
         [] OTHER                                           -> u

-----------------------------------------------------------------------------
\* ip_reass_chain_frag_into_datagram_and_validate: where the piece belongs,
\* whether it is thrown away, and whether with it the datagram is whole.  What
\* comes before the first one is never found to overlap.
Where(p, f) == Min({Len(p) + 1} \cup {k \in DOMAIN p : f.start < p[k].start})

Thrown(p, f) ==
    LET k == Where(p, f)
    IN \/ \E j \in 1 .. k - 1 : f.start < p[j].end
       \/ k > 1 /\ k <= Len(p) /\ f.end > p[k].start

\* Gaps are looked for among the pieces before, and from the new one on, but
\* not in front of one that goes between two others.
NoGap(p, f) ==
    LET k == Where(p, f)
        g == InsertAt(p, k, f)
    IN /\ \A j \in 2 .. k - 1 : p[j - 1].end = p[j].start
       /\ k = Len(p) + 1 /\ p # <<>> => Last(p).end = f.start
       /\ g[1].start = 0
       /\ \A j \in k .. Len(g) - 1 : g[j].end = g[j + 1].start

\* The piece is put into the k-th datagram, which may then be handed on.
Got(r, f) ==
    IF Thrown(r.p, f) THEN [r EXCEPT !.last = @ \/ ~More(f)]
    ELSE [r EXCEPT !.last = @ \/ ~More(f), !.p = InsertAt(@, Where(@, f), f)]

Bug_Chained(t, k, f) ==
    [t EXCEPT !.list = [t.list EXCEPT ![k] = Got(@, f)], !.count = @ + Clen(f)]
Bug_Again(t, k, f) ==
    [t EXCEPT !.list = [t.list EXCEPT ![k] = [Got(@, f) EXCEPT !.timer = ReassMaxAge]],
              !.count = IF Thrown(t.list[k].p, f) THEN @ ELSE @ + Clen(f)]
Chained(t, k, f) ==
    [t EXCEPT !.list = [t.list EXCEPT ![k] = Got(@, f)],
              !.count = IF Thrown(t.list[k].p, f) THEN @ ELSE @ + Clen(f)]

Completes(t, k, f) ==
    /\ t.list[k].last \/ ~More(f)
    /\ ~Thrown(t.list[k].p, f) /\ NoGap(t.list[k].p, f)

Becomes(t) == reassdatagrams' = t.list /\ ip_reass_pbufcount' = t.count /\ hung' = t.hung

ip_reass(d, f) ==
    LET room  == MadeRoom(Now, d, f)
        found == IF Known(room, d) # {} THEN room ELSE ip_reass_enqueue_new_datagram(room, d, f)
        k     == Min(Known(found, d))
        done  == Chained(found, k, f)
        good  == Last(done.list[k].p).end = Length
    IN \/ /\ Crowded(room, f) \/ room.hung
          /\ Becomes(room) /\ whole' = <<>>
       \/ /\ ~Crowded(room, f) /\ ~room.hung
          /\ found.hung \/ Known(found, d) = {}
          /\ Becomes(found) /\ whole' = <<>>
       \/ /\ ~Crowded(room, f) /\ ~room.hung /\ ~found.hung /\ Known(found, d) # {}
          /\ IF Completes(found, k, f) /\ good
             THEN Becomes(FreeDatagram(done, k)) /\ whole' = done.list[k].p
             ELSE Becomes([done EXCEPT !.hung = Completes(found, k, f)]) /\ whole' = <<>>

\* ip_reass_tmr: along the list, a datagram gets older, or is freed in its turn.
Walked(u, r) ==
    IF r.timer > 0 THEN [u EXCEPT !.list = Append(@, [r EXCEPT !.timer = @ - 1])]
    ELSE [u EXCEPT !.count = @ - Pbufs(r)]

ip_reass_tmr ==
    LET walk[n \in 0 .. Len(reassdatagrams)] ==
            IF n = 0 THEN [list |-> <<>>, count |-> ip_reass_pbufcount]
            ELSE Walked(walk[n - 1], reassdatagrams[n])
        end == walk[Len(reassdatagrams)]
    IN /\ reassdatagrams' = end.list /\ ip_reass_pbufcount' = end.count
       /\ whole' = <<>>
       /\ UNCHANGED hung

ReassNext ==
    /\ ~hung
    /\ \/ \E d \in Datagrams, f \in {g \in Pieces : g.start > 0 \/ More(g)} : ip_reass(d, f)
       \/ ip_reass_tmr

ReassFairness == WF_reassVars(~hung /\ ip_reass_tmr)
ReassSpec == ReassInit /\ [][ReassNext]_reassVars /\ ReassFairness

-----------------------------------------------------------------------------
ReassTypeOK ==
    /\ reassdatagrams \in Seq([d : Datagrams, timer : 0 .. ReassMaxAge, last : BOOLEAN, p : Seq(Pieces)])
    /\ ip_reass_pbufcount \in Nat /\ whole \in Seq(Pieces) /\ hung \in BOOLEAN

\* The limit is for what is really held, whichever way pieces were thrown away,
\* timed out, displaced or handed on: otherwise reassembly ends for good one day.
HeldAreCounted ==
    /\ ReassTypeOK
    /\ ip_reass_pbufcount = Held(reassdatagrams)
    /\ ip_reass_pbufcount <= MaxPbufs

\* A datagram handed on has every octet once: "the totally last fragment was
\* received at least once AND all fragments are received" (ip_frag.c).
Complete ==
    whole # <<>> => /\ Head(whole).start = 0 /\ Last(whole).end = Length
                    /\ \A k \in 1 .. Len(whole) - 1 : whole[k].end = whole[k + 1].start

\* What cannot be completed does not stay, also when pieces keep coming.
ReassemblyEnds == \A d \in Datagrams : []<>(hung \/ \A k \in DOMAIN reassdatagrams : reassdatagrams[k].d # d)
=============================================================================
