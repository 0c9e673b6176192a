------------------------------ MODULE TcpSend ------------------------------
(***************************************************************************)
(* The sending half of a TCP connection of lwIP (src/src/lwip/src/core:    *)
(* tcp_out.c, tcp_in.c, tcp.c): the queues of unsent and unacknowledged    *)
(* segments, the windows, fast retransmission, the timers, closing.  The   *)
(* peer buffers PeerBuf bytes, takes what comes in sequence, answers every *)
(* segment and never takes back a window.  The network may reorder, lose   *)
(* and duplicate.                                                          *)
(*                                                                         *)
(* Sequence numbers count from 0, the first byte after our SYN.  A step is *)
(* one call of tcp_input, of a timer or of the user's.  Running out of     *)
(* memory and of queue entries are one case of tcp_write and tcp_close.    *)
(***************************************************************************)
EXTENDS Integers, Sequences, FiniteSets, FiniteSetsExt, SequencesExt

CONSTANTS
    MssValues,  \* values of pcb->mss, which the peer's option sets
    SndBuf,     \* TCP_SND_BUF
    PeerBuf,    \* the window the peer announced in its SYN
    MaxRtx,     \* TCP_MAXRTX
    Writes,     \* lengths the user writes
    MaxSent,    \* bound: the user writes so many bytes and one segment
    MaxFaults,  \* bound: losses, duplicates and premature time-outs
    Lossy       \* bound: what gets lost, of "segment", "ack", "update" and "fin"

ASSUME SendAssumption ==
    /\ {SndBuf, MaxRtx, MaxSent} \cup MssValues \subseteq Nat \ {0} /\ MaxFaults \in Nat
    /\ PeerBuf \in Nat /\ PeerBuf >= 2 /\ Writes \subseteq Nat \ {0}
    /\ Lossy \subseteq {"segment", "ack", "update", "fin"}

VARIABLES
    snd,    \* the sending fields of struct tcp_pcb
    net,    \* segments to the peer and from it, and the faults so far
    peer    \* what the peer received and read, whether it has our FIN and sent its own

sendVars == <<snd, net, peer>>

\* "don't allocate segments bigger than half the maximum window we ever received"
mss_local(p) == Min({p.mss, PeerBuf \div 2})

\* Beyond the peer's window the size of cwnd makes no difference.
CwndMax == 2 * PeerBuf

SegLen(s)  == s.len + (IF s.fin THEN 1 ELSE 0)
Closing    == {"FIN_WAIT_1", "CLOSING", "LAST_ACK"}
Open       == {"ESTABLISHED", "CLOSE_WAIT"}
Over       == {"TIME_WAIT", "GONE", "ABORTED"}

-----------------------------------------------------------------------------
\* After the handshake of a connection that was accepted.
SendInit ==
    /\ \E mss \in MssValues :
         snd = [mss |-> mss, state |-> "ESTABLISHED", unsent |-> <<>>, unacked |-> <<>>, snd_nxt |-> 0,
                snd_lbb |-> 0, snd_buf |-> SndBuf, lastack |-> 0, snd_wnd |-> PeerBuf,
                snd_wl1 |-> 0, snd_wl2 |-> 0, cwnd |-> 2 * mss, ssthresh |-> PeerBuf,
                dupacks |-> 0, rtime |-> FALSE, nrtx |-> 0, persist |-> FALSE, flags |-> {}]
    /\ net = [segs |-> <<>>, acks |-> <<>>, faults |-> 0]
    /\ peer = [rcv |-> 0, read |-> 0, fin |-> FALSE, closed |-> FALSE]

-----------------------------------------------------------------------------
\* tcp_output: the first n unsent segments are sent, each of which fits in the
\* windows and is not held back by Nagle's algorithm.
Bug_InWindows(p, s) == s.seq - p.lastack + s.len <= Max({p.snd_wnd, p.cwnd})
InWindows(p, s) == s.seq - p.lastack + s.len <= Min({p.snd_wnd, p.cwnd})

tcp_do_output_nagle(p, i) ==
    \/ i = 1 /\ p.unacked = <<>>
    \/ i < Len(p.unsent) \/ p.unsent[i].len >= p.mss \/ p.snd_buf = 0
    \/ p.flags \cap {"INFR", "NAGLEMEMERR", "FIN"} # {}

SentNow(p) ==
    Max({0} \cup {n \in DOMAIN p.unsent : \A i \in 1 .. n :
                     InWindows(p, p.unsent[i]) /\ tcp_do_output_nagle(p, i)})

\* A segment is put before the first one with a higher number.
Lower(q, s)    == Max({0} \cup {n \in DOMAIN q : \A i \in 1 .. n : q[i].seq < s.seq})
Inserted(q, s) == SubSeq(q, 1, Lower(q, s)) \o <<s>> \o SubSeq(q, Lower(q, s) + 1, Len(q))

\* The unacknowledged segments stay in the order of their numbers.
Placed(q, sent) ==
    LET put[i \in 0 .. Len(sent)] == IF i = 0 THEN q ELSE Inserted(put[i - 1], sent[i])
    IN put[Len(sent)]

\* What tcp_output does to the PCB, and the segments it sends.
tcp_output(p) ==
    LET n    == SentNow(p)
        sent == SubSeq(p.unsent, 1, n)
    IN [p EXCEPT !.unsent  = SubSeq(@, n + 1, Len(@)),
                 !.unacked = Placed(@, sent),
                 !.snd_nxt = Max({@} \cup {sent[i].seq + SegLen(sent[i]) : i \in 1 .. n}),
                 !.rtime   = @ \/ n > 0,
                 !.flags   = @ \ {"NAGLEMEMERR"}]
SegmentsOf(p) == SubSeq(p.unsent, 1, SentNow(p))

Probe(seq, fin) == [seq |-> seq, len |-> IF fin THEN 0 ELSE 1, fin |-> fin]

\* A handler that ends in tcp_output.
Outputs(p) ==
    /\ snd' = tcp_output(p)
    /\ net' = [net EXCEPT !.segs = @ \o SegmentsOf(p)]

-----------------------------------------------------------------------------
\* tcp_write: the last unsent segment is filled up, the rest goes to new ones.
Enqueued(p, n) ==
    LET mss   == mss_local(p)
        last  == p.unsent[Len(p.unsent)]
        room  == IF p.unsent = <<>> \/ last.len = 0 THEN 0 ELSE Max({0, mss - last.len})
        add   == Min({room, n})
        grown == IF add = 0 THEN p.unsent
                 ELSE [p.unsent EXCEPT ![Len(p.unsent)].len = @ + add]
        count == (n - add + mss - 1) \div mss
        new   == [i \in 1 .. count |->
                    [seq |-> p.snd_lbb + add + (i - 1) * mss,
                     len |-> Min({mss, n - add - (i - 1) * mss}), fin |-> FALSE]]
    IN grown \o new

Bug_Written(p, n) ==
    [p EXCEPT !.unsent = Enqueued(p, n), !.snd_lbb = @ + n]
Written(p, n) ==
    [p EXCEPT !.unsent = Enqueued(p, n), !.snd_lbb = @ + n, !.snd_buf = @ - n]

NoMemory(p) == [p EXCEPT !.flags = @ \cup {"NAGLEMEMERR"}]

\* tcp_send_fin: the FIN joins the last unsent segment, or is one of its own.
FinQueued(p) ==
    IF p.unsent # <<>>
    THEN [p EXCEPT !.unsent[Len(p.unsent)].fin = TRUE, !.flags = @ \cup {"FIN"}]
    ELSE [p EXCEPT !.unsent = <<[seq |-> p.snd_lbb, len |-> 0, fin |-> TRUE]>>,
                   !.snd_lbb = @ + 1, !.snd_buf = @ - 1, !.flags = @ \cup {"FIN"}]
CanFin(p) == p.unsent # <<>> \/ p.snd_buf > 0

\* tcp_close, the state of the sender.
Closed(p) ==
    [FinQueued(p) EXCEPT !.state = IF @ = "ESTABLISHED" THEN "FIN_WAIT_1" ELSE "LAST_ACK"]

\* The user writes, and may close at once; then tcp_output (httpd.c:191-206).
Write(n, close) ==
    /\ snd.state \in Open
    /\ snd.snd_lbb + n <= MaxSent + snd.mss
    /\ n <= snd.snd_buf
    /\ close => CanFin(Written(snd, n))
    /\ Outputs(IF close THEN Closed(Written(snd, n)) ELSE Written(snd, n))
    /\ UNCHANGED peer

\* There is no room for it, or no memory: nothing is queued.
WriteFails ==
    /\ snd.state \in Open
    /\ snd' = NoMemory(snd)
    /\ UNCHANGED <<net, peer>>

CloseNow ==
    /\ snd.state \in Open /\ CanFin(snd)
    /\ Outputs(Closed(snd))
    /\ UNCHANGED peer

-----------------------------------------------------------------------------
\* tcp_receive: the window.  An ACK carries the peer's number, what it expects
\* and its window.
NewWindow(p, a) ==
    IF p.snd_wl1 < a.seq \/ (p.snd_wl1 = a.seq /\ p.snd_wl2 < a.ack)
       \/ (p.snd_wl2 = a.ack /\ a.wnd > p.snd_wnd)
    THEN [p EXCEPT !.snd_wnd = a.wnd, !.snd_wl1 = a.seq, !.snd_wl2 = a.ack,
                   !.persist = a.wnd = 0]
    ELSE p

\* nrtx has 8 bits.
Again(n) == (n + 1) % 256

\* tcp_rexmit_fast
Ssthresh(p) == Max({Min({p.cwnd, p.snd_wnd}) \div 2, 2 * p.mss})

tcp_rexmit_fast(p) ==
    IF p.unacked = <<>> \/ "INFR" \in p.flags THEN p
    ELSE [p EXCEPT !.unsent = Inserted(@, Head(p.unacked)), !.unacked = Tail(@),
                   !.nrtx = Again(@), !.ssthresh = Ssthresh(p),
                   !.cwnd = Min({CwndMax, Ssthresh(p) + 3 * p.mss}),
                   !.flags = @ \cup {"INFR"}]

\* A duplicate ACK: the third one is answered by a retransmission.
Duplicate(p, q, a) ==
    /\ SegLen(a) = 0
    /\ q.snd_wl2 + q.snd_wnd = p.snd_wl2 + p.snd_wnd
    /\ p.rtime /\ p.lastack = a.ack

DupAck(p) ==
    LET n == p.dupacks + 1
    IN IF n > 3 THEN [p EXCEPT !.dupacks = 4, !.cwnd = Min({CwndMax, @ + p.mss})]
       ELSE IF n = 3 THEN tcp_rexmit_fast([p EXCEPT !.dupacks = 3])
       ELSE [p EXCEPT !.dupacks = n]

Grown(p, cwnd) ==
    Min({CwndMax, cwnd + (IF cwnd < p.ssthresh THEN p.mss ELSE (p.mss * p.mss) \div cwnd)})

\* The segments at the head of q that are acknowledged are dropped.
UpTo(q, ack)  == Max({0} \cup {n \in DOMAIN q : \A i \in 1 .. n : q[i].seq + SegLen(q[i]) <= ack})
Above(q, ack) == SubSeq(q, UpTo(q, ack) + 1, Len(q))

\* New data is acknowledged.
Bug_NewAck(p, ack) ==
    LET cwnd == IF "INFR" \in p.flags THEN p.ssthresh ELSE p.cwnd
    IN [p EXCEPT !.flags = @ \ {"INFR"}, !.nrtx = 0, !.dupacks = 0,
                 !.snd_buf = @ + (ack - p.lastack), !.lastack = ack,
                 !.cwnd = Grown(p, cwnd),
                 !.unacked = Above(@, ack), !.rtime = FALSE]
NewAck(p, ack) ==
    LET cwnd == IF "INFR" \in p.flags THEN p.ssthresh ELSE p.cwnd
    IN [p EXCEPT !.flags = @ \ {"INFR"}, !.nrtx = 0, !.dupacks = 0,
                 !.snd_buf = @ + (ack - p.lastack), !.lastack = ack,
                 !.cwnd = Grown(p, cwnd),
                 !.unacked = Above(@, ack), !.rtime = Above(p.unacked, ack) # <<>>]

\* After a retransmission segments that were sent are on the unsent queue.
UnsentAcked(p, ack) == IF ack > p.snd_nxt THEN p ELSE [p EXCEPT !.unsent = Above(@, ack)]

\* tcp_receive, the acknowledgment.
Acked(p, a) ==
    LET q == NewWindow(p, a)
        r == IF a.ack <= p.lastack
             THEN IF Duplicate(p, q, a) THEN DupAck(q) ELSE [q EXCEPT !.dupacks = 0]
             ELSE IF a.ack <= p.snd_nxt THEN NewAck(q, a.ack) ELSE q
    IN UnsentAcked(r, a.ack)

\* tcp_pcb_purge
Purged(p, state) ==
    [p EXCEPT !.state = state, !.unsent = <<>>, !.unacked = <<>>, !.rtime = FALSE,
              !.persist = FALSE]

\* tcp_process: the state after the segment; fin, the peer's FIN is in sequence.
NextState(p, a) ==
    LET done == a.ack = p.snd_nxt
    IN CASE a.fin /\ p.state = "ESTABLISHED"      -> [p EXCEPT !.state = "CLOSE_WAIT"]
         [] a.fin /\ p.state = "FIN_WAIT_1"       ->
                IF done THEN Purged(p, "TIME_WAIT") ELSE [p EXCEPT !.state = "CLOSING"]
         [] ~a.fin /\ p.state = "FIN_WAIT_1" /\ done -> [p EXCEPT !.state = "FIN_WAIT_2"]
         [] a.fin /\ p.state = "FIN_WAIT_2"       -> Purged(p, "TIME_WAIT")
         [] p.state = "CLOSING" /\ done           -> Purged(p, "TIME_WAIT")
         [] p.state = "LAST_ACK" /\ done          -> Purged(p, "GONE")
         [] OTHER                                 -> p

-----------------------------------------------------------------------------
\* tcp_slowtmr: retransmission of all, with a window of one segment.
Bug_tcp_rexmit_rto(p) ==
    [p EXCEPT !.ssthresh = Ssthresh(p), !.cwnd = p.mss, !.unacked = <<>>, !.nrtx = Again(@)]
tcp_rexmit_rto(p) ==
    [p EXCEPT !.ssthresh = Ssthresh(p), !.cwnd = p.mss,
              !.unsent = p.unacked \o @, !.unacked = <<>>, !.nrtx = Again(@)]

Quiet == net.segs = <<>> /\ net.acks = <<>>

\* A time-out is premature while there is something on the way.
CanTimeOut == snd.nrtx # MaxRtx /\ (Quiet \/ net.faults < MaxFaults)

TimesOut(segs) ==
    /\ CanTimeOut
    /\ net' = [net EXCEPT !.segs = @ \o segs, !.faults = IF Quiet THEN @ ELSE @ + 1]
    /\ UNCHANGED peer

CanRexmit == snd.unacked # <<>> /\ snd.rtime /\ ~snd.persist /\ CanTimeOut

Rexmit ==
    /\ CanRexmit
    /\ snd' = tcp_output(tcp_rexmit_rto(snd))
    /\ TimesOut(SegmentsOf(tcp_rexmit_rto(snd)))

\* tcp_zero_window_probe: a byte, or a FIN alone, is sent into a closed window.
ProbeWindow ==
    LET q == snd.unacked \o snd.unsent
        s == Head(q)
    IN /\ snd.persist /\ q # <<>>
       /\ TimesOut(<<Probe(s.seq, s.fin /\ s.len = 0)>>)
       /\ UNCHANGED snd

\* "unsent data is sent from tcp timer functions, also": at every poll.
CanPoll == snd.state \notin Over /\ SentNow(snd) > 0

Poll ==
    /\ CanPoll
    /\ Outputs(snd)
    /\ UNCHANGED peer

\* Too many retransmissions, or too long in FIN-WAIT-2 or LAST-ACK.
RemoveTimedOut ==
    /\ \/ snd.nrtx = MaxRtx /\ snd.state \notin Over
       \/ snd.state \in {"FIN_WAIT_2", "LAST_ACK"}
    /\ snd' = Purged(snd, "ABORTED")
    /\ UNCHANGED <<net, peer>>

-----------------------------------------------------------------------------
\* What the peer sends: an ACK with its window, to answer a segment, to tell of
\* a larger window, or with its FIN.
Answer(p, kind) ==
    LET fin == kind = "fin"
    IN [kind |-> kind, seq |-> IF p.closed /\ ~fin THEN 1 ELSE 0, ack |-> p.rcv + (IF p.fin THEN 1 ELSE 0),
     wnd |-> PeerBuf - (p.rcv - p.read), len |-> 0, fin |-> fin]

\* What a segment brings in sequence and within the window.
Taken(p, s) ==
    LET upto == Min({s.seq + s.len, p.read + PeerBuf})
        rcv  == IF s.seq <= p.rcv THEN Max({p.rcv, upto}) ELSE p.rcv
    IN [p EXCEPT !.rcv = rcv, !.fin = @ \/ (s.fin /\ s.seq <= p.rcv /\ rcv = s.seq + s.len)]

\* The network passes on what is first in a queue, and may keep it, lose it or
\* let the others overtake it.
Faulty(fault) == ~fault \/ net.faults < MaxFaults
Count(fault)  == IF fault THEN net.faults + 1 ELSE net.faults

PeerReceives(again) ==
    /\ net.segs # <<>> /\ Faulty(again)
    /\ UNCHANGED snd
    /\ peer' = Taken(peer, Head(net.segs))
    /\ net' = [segs   |-> Tail(net.segs) \o IF again THEN <<Head(net.segs)>> ELSE <<>>,
               acks   |-> Append(net.acks, Answer(peer', "ack")),
               faults |-> Count(again)]

\* The peer's user reads what there is, and the peer tells of the larger window.
PeerReads ==
    /\ peer.read < peer.rcv
    /\ peer' = [peer EXCEPT !.read = peer.rcv]
    /\ net' = [net EXCEPT !.acks = Append(@, Answer(peer', "update"))]
    /\ UNCHANGED snd

\* The peer's FIN, which it repeats until it is acknowledged.
PeerCloses ==
    /\ snd.state \in {"ESTABLISHED", "FIN_WAIT_1", "FIN_WAIT_2"}
    /\ \A i \in DOMAIN net.acks : ~net.acks[i].fin
    /\ peer' = [peer EXCEPT !.closed = TRUE]
    /\ net' = [net EXCEPT !.acks = Append(@, Answer(peer', "fin"))]
    /\ UNCHANGED snd

\* tcp_input for an ACK, or the peer's FIN.
tcp_input_ack(again) ==
    LET a == Head(net.acks)
        p == NextState(Acked(snd, a), a)
        q == IF snd.state \in Over THEN snd ELSE p
    IN /\ net.acks # <<>> /\ Faulty(again)
       /\ UNCHANGED peer
       /\ snd' = IF snd.state \in Over THEN snd ELSE tcp_output(q)
       /\ net' = [segs   |-> net.segs \o SegmentsOf(q),
                  acks   |-> Tail(net.acks) \o IF again THEN <<a>> ELSE <<>>,
                  faults |-> Count(again)]

LoseSegment ==
    /\ net.segs # <<>> /\ Faulty(TRUE)
    /\ \/ "segment" \in Lossy /\ net' = [net EXCEPT !.segs = Tail(@), !.faults = @ + 1]
       \/ net' = [net EXCEPT !.segs = Append(Tail(@), Head(@)), !.faults = @ + 1]
    /\ UNCHANGED <<snd, peer>>

LoseAck ==
    /\ net.acks # <<>> /\ Faulty(TRUE)
    /\ \/ Head(net.acks).kind \in Lossy /\ net' = [net EXCEPT !.acks = Tail(@), !.faults = @ + 1]
       \/ net' = [net EXCEPT !.acks = Append(Tail(@), Head(@)), !.faults = @ + 1]
    /\ UNCHANGED <<snd, peer>>

SendNext ==
    \/ \E n \in Writes, close \in BOOLEAN : Write(n, close)
    \/ WriteFails \/ CloseNow
    \/ \E again \in BOOLEAN : tcp_input_ack(again) \/ PeerReceives(again)
    \/ Rexmit \/ ProbeWindow \/ Poll \/ RemoveTimedOut
    \/ PeerReads \/ PeerCloses \/ LoseSegment \/ LoseAck

\* The timers run, what is sent again arrives, and the peer's user reads.  The
\* last three are weak fairness of an action with its guard written out.
SendFairness ==
    /\ WF_sendVars(PeerReceives(FALSE)) /\ WF_sendVars(PeerReads)
    /\ WF_sendVars(ProbeWindow)
    /\ []<>(net.acks = <<>>) \/ []<><<tcp_input_ack(FALSE)>>_sendVars
    /\ []<>(~CanRexmit) \/ []<><<Rexmit>>_sendVars
    /\ []<>(~CanPoll) \/ []<><<Poll>>_sendVars

SendSpec == SendInit /\ [][SendNext]_sendVars /\ SendFairness
-----------------------------------------------------------------------------
SendTypeOK ==
    /\ {snd.snd_nxt, snd.snd_lbb, snd.snd_buf, snd.lastack, snd.snd_wnd, snd.cwnd} \subseteq Nat
    /\ snd.nrtx \in 0 .. 255 /\ snd.dupacks \in 0 .. 4

\* What is sent fits in the window the peer told of, whatever ACKs arrive late
\* or twice.  (Where the peer's FIN is lost and comes again with its old number,
\* tcp_receive takes its newer acknowledgment but not its window.)
WithinWindow ==
    \A i \in DOMAIN snd.unacked :
        snd.unacked[i].seq + snd.unacked[i].len <= peer.read + PeerBuf

\* The queues hold what is not acknowledged, each byte once, and snd_buf is what
\* is left of the buffer.
Span(q) == IF q = <<>> THEN 0 ELSE q[Len(q)].seq + q[Len(q)].len
QueuesHold ==
    /\ SendTypeOK
    /\ snd.state \in Open =>
        LET all == snd.unacked \o snd.unsent
        IN /\ snd.snd_buf = SndBuf - (snd.snd_lbb - snd.lastack)
           /\ \A i \in 1 .. Len(all) - 1 : all[i].seq + all[i].len = all[i + 1].seq
           /\ IF all = <<>> THEN snd.lastack = snd.snd_lbb
              ELSE all[1].seq <= snd.lastack /\ Span(all) = snd.snd_lbb

\* What was written is acknowledged, unless the user closes: the timers send it
\* again until it is.
AllDelivered ==
    (snd.state \in Open /\ snd.lastack < snd.snd_lbb) ~>
        (snd.state \notin Open \/ snd.lastack = snd.snd_lbb)

\* Closing comes to an end.
ClosingEnds == (snd.state \in Closing) ~> (snd.state \notin Closing)

\* Neither sending nor closing hangs, whatever is lost on the way (tcp_slowtmr,
\* tcp_receive).
SendingEnds == AllDelivered /\ ClosingEnds

\* The peer has all that was written when the connection ends by itself: after
\* tcp_close "unsent data is sent from tcp timer functions, also" (tcp.c:260).
NothingLost ==
    snd.state \in {"TIME_WAIT", "GONE"} => peer.fin
=============================================================================
