----------------------------- MODULE TcpReceive -----------------------------
(***************************************************************************)
(* The receiving half of a TCP connection of lwIP (src/src/lwip/src/core:  *)
(* tcp_in.c, tcp.c): trimming of segments, the queue of out-of-sequence    *)
(* segments, the window and its announcement, data the user refuses, and   *)
(* closing.  The peer may send any piece of its stream within the window   *)
(* it was told of, at any time and as often as it likes, which includes    *)
(* loss, duplication and reordering.                                       *)
(*                                                                         *)
(* Bytes of the peer's stream are numbered from 1 and stand for sequence   *)
(* numbers; its FIN has the number Total + 1.  The step of an action is    *)
(* one call of tcp_input, of a timer or of the user's.                     *)
(***************************************************************************)
EXTENDS Integers, Sequences, FiniteSets, FiniteSetsExt, SequencesExt

CONSTANTS
    Total,      \* bytes of the peer's stream
    Wnd,        \* TCP_WND
    Mss,        \* pcb->mss
    Threshold,  \* TCP_WND_UPDATE_THRESHOLD
    Callbacks   \* what the user does in its recv callback

ASSUME ReceiveAssumption ==
    /\ Total \in Nat /\ Wnd \in Nat \ {0} /\ Mss \in 1 .. Wnd /\ Threshold \in 1 .. Wnd
    /\ Callbacks \subseteq {"refuse", "keep", "read", "close"}

VARIABLES
    pcb,   \* the receiving fields of struct tcp_pcb
    user   \* the bytes the user was given (history), whether it was told of the
           \* end of the stream, and how many bytes it has and has not confirmed

receiveVars == <<pcb, user>>

\* A segment carries the bytes from s.from on; its header says s.seq.
Bytes(s)  == [i \in 1 .. s.len |-> s.from + i - 1]
TcpLen(s) == s.len + (IF s.fin THEN 1 ELSE 0)
LastOf(q) == q[Len(q)]

\* No refused data.
None == [data |-> <<>>, fin |-> FALSE]

-----------------------------------------------------------------------------
\* After the handshake: our SYN has announced the whole window.
ReceiveInit ==
    /\ pcb = [state |-> "ESTABLISHED", rcv_nxt |-> 1, rcv_wnd |-> Wnd, rcv_ann_wnd |-> Wnd,
              rcv_ann_right_edge |-> 1 + Wnd, ooseq |-> <<>>, refused |-> None, flags |-> {}]
    /\ user = [bytes |-> <<>>, ended |-> FALSE, unread |-> 0]

-----------------------------------------------------------------------------
\* tcp_update_rcv_ann_wnd, and what it returns.
Inflation(p) ==
    LET edge == p.rcv_nxt + p.rcv_wnd
    IN IF edge >= p.rcv_ann_right_edge + Min({Wnd \div 2, Mss})
       THEN edge - p.rcv_ann_right_edge ELSE 0

tcp_update_rcv_ann_wnd(p) ==
    [p EXCEPT !.rcv_ann_wnd =
        IF Inflation(p) > 0 THEN p.rcv_wnd
        ELSE IF p.rcv_nxt > p.rcv_ann_right_edge THEN 0
        ELSE p.rcv_ann_right_edge - p.rcv_nxt]

\* tcp_send_empty_ack: the peer learns the window.
SendAck(p) ==
    [p EXCEPT !.flags = @ \ {"ACK_DELAY", "ACK_NOW"},
              !.rcv_ann_right_edge = p.rcv_nxt + p.rcv_ann_wnd]

\* tcp_output with nothing to send but an ACK.
Output(p) == IF "ACK_NOW" \in p.flags THEN SendAck(p) ELSE p

\* tcp_ack: every other segment is acknowledged at once.
tcp_ack(p) ==
    IF "ACK_DELAY" \in p.flags
    THEN [p EXCEPT !.flags = (@ \ {"ACK_DELAY"}) \cup {"ACK_NOW"}]
    ELSE [p EXCEPT !.flags = @ \cup {"ACK_DELAY"}]

AckNow(p) == [p EXCEPT !.flags = @ \cup {"ACK_NOW"}]

-----------------------------------------------------------------------------
\* The segments at the head of q that s covers are dropped, and s has the FIN of
\* one of them; then s is cut where the next one begins.
Covered(s, q) ==
    Max({0} \cup {n \in DOMAIN q : \A i \in 1 .. n : s.seq + s.len >= q[i].seq + q[i].len})
Uncovered(s, q) == SubSeq(q, Covered(s, q) + 1, Len(q))
WithFin(s, q)   == [s EXCEPT !.fin = @ \/ \E i \in 1 .. Covered(s, q) : q[i].fin]

Bug_CutBefore(s, q) == s
CutBefore(s, q) ==
    IF q # <<>> /\ s.seq + TcpLen(s) > q[1].seq THEN [s EXCEPT !.len = q[1].seq - s.seq]
    ELSE s

\* tcp_oos_insert_segment
tcp_oos_insert_segment(s, q) ==
    IF s.fin THEN <<s>>
    ELSE <<CutBefore(WithFin(s, q), Uncovered(s, q))>> \o Uncovered(s, q)

\* Segments that are ditched: a longer one has the same start, or the last one
\* ends the stream.
Ditched(s, q) ==
    \/ \E i \in DOMAIN q : q[i].seq = s.seq /\ q[i].len >= s.len
    \/ q # <<>> /\ LastOf(q).seq < s.seq /\ LastOf(q).fin

\* How many segments of the queue begin before s; the last of them is cut where
\* s begins.
Earlier(s, q) == Max({0} \cup {n \in DOMAIN q : q[n].seq < s.seq})

CutAfter(x, s) == IF x.seq + x.len > s.seq THEN [x EXCEPT !.len = s.seq - x.seq] ELSE x

Queued(s, q) ==
    LET n   == Earlier(s, q)
        cut == [i \in 1 .. n |-> IF i = n THEN CutAfter(q[i], s) ELSE q[i]]
    IN IF Ditched(s, q) THEN q
       ELSE cut \o tcp_oos_insert_segment(s, SubSeq(q, n + 1, Len(q)))

-----------------------------------------------------------------------------
\* A segment is cut to what is new, and at the end to what there is room for.
Bug_Trimmed(p, s) ==
    IF s.seq < p.rcv_nxt /\ p.rcv_nxt < s.seq + TcpLen(s)
    THEN [s EXCEPT !.seq = p.rcv_nxt, !.len = @ - (p.rcv_nxt - s.seq)] ELSE s
Trimmed(p, s) ==
    IF s.seq < p.rcv_nxt /\ p.rcv_nxt < s.seq + TcpLen(s)
    THEN [s EXCEPT !.seq = p.rcv_nxt, !.from = @ + (p.rcv_nxt - s.seq),
                   !.len = @ - (p.rcv_nxt - s.seq)]
    ELSE s
Fitted(p, s) ==
    IF TcpLen(s) > p.rcv_wnd THEN [s EXCEPT !.len = p.rcv_wnd, !.fin = FALSE] ELSE s

InWindow(p, seq) == p.rcv_nxt <= seq /\ seq <= p.rcv_nxt + p.rcv_wnd - 1

\* The segments of the queue that are in sequence from nxt on.
InSequence(q, nxt) ==
    Max({0} \cup {n \in DOMAIN q : \A i \in 1 .. n :
             q[i].seq = IF i = 1 THEN nxt ELSE q[i - 1].seq + TcpLen(q[i - 1])})

\* tcp_receive, the next segment in sequence: it and the queued ones that
\* follow it.  recv_data is a piece of the stream, got_fin its end.
NextInSequence(p, segment) ==
    LET fits == Fitted(p, segment)
        q    == IF fits.fin THEN <<>> ELSE Uncovered(fits, p.ooseq)
        s    == IF fits.fin THEN fits ELSE CutBefore(WithFin(fits, p.ooseq), q)
        n    == InSequence(q, s.seq + TcpLen(s))
        more == IF n = 0 THEN s ELSE q[n]
        nxt  == more.seq + TcpLen(more)
        data == [i \in 1 .. n |-> Bytes(q[i])]
    IN [pcb |-> tcp_ack(tcp_update_rcv_ann_wnd(
                    [p EXCEPT !.rcv_nxt = nxt, !.rcv_wnd = @ - (nxt - s.seq),
                              !.ooseq = SubSeq(q, n + 1, Len(q))])),
        data |-> FlattenSeq(<<Bytes(s)>> \o data), fin |-> more.fin]

Nothing(p) == [pcb |-> p, data |-> <<>>, fin |-> FALSE]

\* tcp_receive for a segment with text, before the peer's FIN was received.
\* There may be no memory for a copy of it on the queue.
Text(p, segment, mem) ==
    LET s == Trimmed(p, segment)
        q == IF s.seq < p.rcv_nxt THEN AckNow(p) ELSE p
    IN IF ~InWindow(p, s.seq) THEN Nothing(SendAck(q))
       ELSE IF s.seq = p.rcv_nxt THEN NextInSequence(p, s)
       ELSE Nothing([SendAck(q) EXCEPT !.ooseq = IF mem THEN Queued(s, @) ELSE @])

tcp_receive(p, s, mem) ==
    IF TcpLen(s) > 0 /\ p.state \in {"ESTABLISHED", "FIN_WAIT"} THEN Text(p, s, mem)
    ELSE Nothing(IF InWindow(p, s.seq) THEN p ELSE AckNow(p))

\* tcp_process: the state after a FIN.  CLOSING and TIME_WAIT are one here.
AfterFin(r) ==
    IF ~r.fin THEN r.pcb
    ELSE AckNow([r.pcb EXCEPT !.state = IF @ = "FIN_WAIT" THEN "TIME_WAIT" ELSE "CLOSE_WAIT"])

-----------------------------------------------------------------------------
\* tcp_recved
tcp_recved(p, n) ==
    LET q == [p EXCEPT !.rcv_wnd = Min({Wnd, @ + n})]
        u == tcp_update_rcv_ann_wnd(q)
    IN IF Inflation(q) >= Threshold THEN SendAck(u) ELSE u

\* tcp_close_shutdown: a RST when data was not received by the user; otherwise
\* a FIN, which carries an ACK.
AllRead(p) == p.refused = None /\ p.rcv_wnd = Wnd

Gone(p) == [p EXCEPT !.state = "GONE", !.ooseq = <<>>, !.refused = None]

tcp_close(p, u) ==
    LET q == [p EXCEPT !.flags = @ \cup {"RXCLOSED"}]
    IN IF AllRead(p)
       THEN [pcb |-> SendAck([q EXCEPT !.state = IF @ = "ESTABLISHED" THEN "FIN_WAIT" ELSE "LAST_ACK"]),
             user |-> u]
       ELSE [pcb |-> Gone(q), user |-> u]

-----------------------------------------------------------------------------
\* The end of the stream, which waits for refused data.  The FIN's place in the
\* window is given back here, as the user will not confirm it.
EndSeen(c, fin) ==
    IF ~fin THEN c
    ELSE IF c.pcb.refused # None
         THEN [pcb  |-> [c.pcb EXCEPT !.refused = [data |-> c.pcb.refused.data, fin |-> TRUE]],
               user |-> c.user]
    ELSE [pcb  |-> [c.pcb EXCEPT !.rcv_wnd = IF @ = Wnd \/ c.pcb.state = "GONE" THEN @ ELSE @ + 1],
          user |-> [c.user EXCEPT !.ended = TRUE]]

\* The recv callback with data: it is refused, kept, confirmed at once, or
\* confirmed before a tcp_close.
Callback(p, u, data, what) ==
    LET given == [u EXCEPT !.bytes = @ \o data]
    IN CASE what = "refuse" -> [pcb |-> [p EXCEPT !.refused = [data |-> data, fin |-> FALSE]], user |-> u]
         [] what = "keep"   -> [pcb |-> p, user |-> [given EXCEPT !.unread = @ + Len(data)]]
         [] what = "read"   -> [pcb |-> tcp_recved(p, Len(data)), user |-> given]
         [] what = "close"  -> tcp_close(tcp_recved(p, Len(data)), given)

\* tcp_process_refused_data: the user is asked again, and again refuses or not.
tcp_process_refused_data(p, u, what) ==
    EndSeen(Callback([p EXCEPT !.refused = None], u, p.refused.data, what), p.refused.fin)

\* tcp_input, the part after tcp_process.  Data for a user that has closed the
\* connection aborts it.
Delivered(r, u, what) ==
    LET p == AfterFin(r)
    IN IF r.data # <<>> /\ "RXCLOSED" \in p.flags
       THEN [pcb |-> Gone(p), user |-> u]
       ELSE EndSeen(IF r.data = <<>> THEN [pcb |-> p, user |-> u]
                    ELSE Callback(p, u, r.data, what), r.fin)

\* tcp_input: refused data is offered first; as long as it is refused a segment
\* with text is dropped.
tcp_input(s, mem, again, what) ==
    LET c == IF pcb.refused = None THEN [pcb |-> pcb, user |-> user]
             ELSE tcp_process_refused_data(pcb, user, again)
        d == Delivered(tcp_receive(c.pcb, s, mem), c.user, what)
    IN IF c.pcb.state = "GONE" \/ (c.pcb.refused # None /\ TcpLen(s) > 0)
       THEN pcb' = c.pcb /\ user' = c.user
       ELSE pcb' = Output(d.pcb) /\ user' = d.user

\* What the peer may send: within the window it was told of, or one byte more.
Sendable(s) ==
    /\ s.seq + s.len <= Total + 1
    /\ s.fin => s.seq + s.len = Total + 1
    /\ \/ s.seq + TcpLen(s) <= pcb.rcv_ann_right_edge
       \/ s.seq = pcb.rcv_ann_right_edge /\ TcpLen(s) = 1

Arrive ==
    \E seq \in 1 .. Total + 1, len \in 0 .. Mss, fin, mem \in BOOLEAN, again, what \in Callbacks :
        LET s == [seq |-> seq, from |-> seq, len |-> len, fin |-> fin]
        IN /\ pcb.state \notin {"GONE", "TIME_WAIT"}
           /\ Sendable(s)
           /\ tcp_input(s, mem, again, what)

\* tcp_fasttmr: a delayed ACK is sent; refused data is offered again.
tcp_fasttmr(what) ==
    LET p == IF "ACK_DELAY" \in pcb.flags THEN SendAck(pcb) ELSE pcb
        c == tcp_process_refused_data(p, user, what)
    IN /\ "ACK_DELAY" \in pcb.flags \/ pcb.refused # None
       /\ IF p.refused = None THEN pcb' = p /\ UNCHANGED user
          ELSE pcb' = c.pcb /\ user' = c.user

\* The queue is dropped after a time (tcp_slowtmr) or when pbufs are wanted.
pbuf_free_ooseq_queue ==
    /\ pcb.ooseq # <<>>
    /\ pcb' = [pcb EXCEPT !.ooseq = <<>>]
    /\ UNCHANGED user

\* The user confirms bytes it kept.
Read(n) ==
    /\ n <= user.unread /\ pcb.state # "GONE"
    /\ user' = [user EXCEPT !.unread = @ - n]
    /\ pcb' = tcp_recved(pcb, n)

Close ==
    /\ pcb.state \in {"ESTABLISHED", "CLOSE_WAIT"}
    /\ pcb' = tcp_close(pcb, user).pcb
    /\ user' = tcp_close(pcb, user).user

ReceiveNext ==
    \/ Arrive
    \/ \E what \in Callbacks : tcp_fasttmr(what)
    \/ pbuf_free_ooseq_queue
    \/ \E n \in 1 .. Wnd : Read(n)
    \/ Close

ReceiveSpec == ReceiveInit /\ [][ReceiveNext]_receiveVars

-----------------------------------------------------------------------------
ReceiveTypeOK ==
    /\ pcb.rcv_nxt \in 1 .. Total + 2 /\ pcb.rcv_wnd \in 0 .. Wnd /\ pcb.rcv_ann_wnd \in 0 .. Wnd
    /\ \A i \in DOMAIN pcb.ooseq : pcb.ooseq[i] \in [seq : Nat, from : Nat, len : Nat, fin : BOOLEAN]
    /\ user.unread \in Nat

\* The user gets the stream of the peer, in order and nothing twice, whatever
\* arrives: tcp_receive cuts segments in seven places.
Stream == INSTANCE ByteStream WITH bytes <- user.bytes, ended <- user.ended
InOrder == Stream!Spec

\* What the peer was told it may send is accepted when it comes: the window is
\* never smaller than what was announced ("keep the right edge of window
\* constant", tcp.c:598), and segments wait in order without overlapping.
WindowKept ==
    /\ pcb.rcv_ann_right_edge <= pcb.rcv_nxt + pcb.rcv_wnd
    /\ \A i \in DOMAIN pcb.ooseq :
          /\ pcb.ooseq[i].seq > pcb.rcv_nxt
          /\ i > 1 => pcb.ooseq[i - 1].seq + TcpLen(pcb.ooseq[i - 1]) <= pcb.ooseq[i].seq

\* Every byte is in the window, with the user, or refused, so that a user who
\* confirms what it gets has the whole window open again.
Accounted ==
    pcb.state # "GONE" => pcb.rcv_wnd + user.unread + Len(pcb.refused.data)
                          + (IF pcb.refused.fin THEN 1 ELSE 0) = Wnd

\* Nothing of the window is lost: what was announced stays true, and what was
\* taken is given back.
WindowSane == ReceiveTypeOK /\ WindowKept /\ Accounted
=============================================================================
