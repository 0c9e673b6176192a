------------------------------ MODULE TcpPcbs ------------------------------
(***************************************************************************)
(* The connections of lwIP's TCP (src/src/lwip/src/core: tcp.c, tcp_in.c): *)
(* the pool of PCBs, the lists they are on, the states they go through,    *)
(* which of them a new connection displaces, and what the user is told.    *)
(*                                                                         *)
(* A segment is known by its flags, whether its sequence number is the     *)
(* next one, and whether it acknowledges all that was sent: what happens   *)
(* inside the windows is in TcpReceive and TcpSend.  Refused data,         *)
(* keep-alive and zero windows are left out here, and every PCB has        *)
(* TCP_PRIO_NORMAL: the program never calls tcp_setprio.  A step is one    *)
(* call of tcp_input or of the user's, or one turn of tcp_slowtmr's loop.  *)
(***************************************************************************)
EXTENDS Integers, Sequences, FiniteSets, FiniteSetsExt, SequencesExt

CONSTANTS
    Ids,            \* the PCBs in the pool, MEMP_NUM_TCP_PCB of them
    Remotes,        \* address and port of a peer
    WellKnown,      \* ports users bind to
    Ephemeral,      \* TCP_LOCAL_PORT_RANGE
    NoOne,          \* no peer
    Short, Long,    \* TCP_FIN_WAIT_TIMEOUT and TCP_SYN_RCVD_TIMEOUT; 2 * TCP_MSL
    SynMaxRtx, MaxRtx,
    Callbacks,      \* what the user does in its callbacks
    TimerCallbacks, \* what it does in those tcp_slowtmr calls
    Failures        \* where tcp_enqueue_flags may find no memory

ASSUME PcbsAssumption ==
    /\ Ids \subseteq Nat \ {0} /\ IsFiniteSet(Ids)
    /\ WellKnown \cup Ephemeral \subseteq Nat \ {0} /\ WellKnown \cap Ephemeral = {}
    /\ NoOne \notin Remotes
    /\ {Short, Long, SynMaxRtx, MaxRtx} \subseteq Nat
    /\ Short < Long /\ SynMaxRtx < MaxRtx
    /\ Callbacks \subseteq {"read", "keep", "close", "abort"}
    /\ TimerCallbacks \subseteq {"close", "abort"}
    /\ Failures \subseteq {"listen", "connect", "close"}

VARIABLES
    tcp,    \* the PCBs, the four lists, what the user holds; whether a PCB was
            \* freed and its user not told (history)
    walk    \* the loop of tcp_slowtmr: prev, pcb, and who has been visited

pcbsVars == <<tcp, walk>>

InPool == [state |-> "FREE", port |-> 0, rem |-> NoOne, age |-> 0,
           rxclosed |-> FALSE, unread |-> FALSE, out |-> FALSE, nrtx |-> 0]

NoWalk == [on |-> FALSE, prev |-> 0, pcb |-> 0, seen |-> {}]

\* Ages beyond the longest time-out are not told apart.
AgeCap == Long + 1

PcbsInit ==
    /\ tcp = [pcb |-> [i \in Ids |-> InPool], bound |-> <<>>, active |-> <<>>, tw |-> <<>>,
              listen |-> {}, holds |-> {}, untold |-> FALSE]
    /\ walk = NoWalk

-----------------------------------------------------------------------------
PlaceOf(q, x) == CHOOSE k \in DOMAIN q : q[k] = x

\* TCP_RMV
Without(q, x) ==
    IF x \notin ToSet(q) THEN q
    ELSE SubSeq(q, 1, PlaceOf(q, x) - 1) \o SubSeq(q, PlaceOf(q, x) + 1, Len(q))

Put(t, i, p) == [t EXCEPT !.pcb[i] = p]

\* The user is told, or says itself, that it is over with a PCB.
LetGo(t, i) == [t EXCEPT !.holds = @ \ {i}]

\* memp_free
Release(t, i) == [LetGo(Put(t, i, InPool), i) EXCEPT !.untold = @ \/ i \in t.holds]

Deactivate(t, i) == [t EXCEPT !.active = Without(@, i)]
Activate(t, i)   == [t EXCEPT !.active = <<i>> \o @]

\* A connection goes to TIME_WAIT.
TimeWaiting(p) == [p EXCEPT !.state = "TIME_WAIT", !.out = FALSE]
Bug_ToTimeWait(t, i) == [Put(t, i, TimeWaiting(t.pcb[i])) EXCEPT !.tw = <<i>> \o @]
ToTimeWait(t, i) ==
    [Put(t, i, TimeWaiting(t.pcb[i])) EXCEPT !.active = Without(@, i), !.tw = <<i>> \o @]

\* tcp_abandon of a connection: the err callback is called, but not in TIME_WAIT.
Bug_tcp_abandon(t, i) ==
    IF t.pcb[i].state = "TIME_WAIT" THEN Release([t EXCEPT !.tw = Without(@, i)], i)
    ELSE Release(Deactivate(t, i), i)
tcp_abandon(t, i) ==
    IF t.pcb[i].state = "TIME_WAIT" THEN Release([t EXCEPT !.tw = Without(@, i)], i)
    ELSE Release(LetGo(Deactivate(t, i), i), i)

-----------------------------------------------------------------------------
\* tcp_kill_timewait and tcp_kill_prio: the later one on the list, if two are
\* equally old.
OldestPcb(t, q) ==
    q[Max({k \in DOMAIN q : \A m \in DOMAIN q : t.pcb[q[m]].age <= t.pcb[q[k]].age})]

FreeIds(t) == {i \in Ids : t.pcb[i].state = "FREE"}

\* tcp_alloc gives up first a connection in TIME_WAIT, then an active one.
MakeRoom(t) ==
    CASE FreeIds(t) = {} /\ t.tw # <<>> -> tcp_abandon(t, OldestPcb(t, t.tw))
      [] FreeIds(t) = {} /\ t.tw = <<>> /\ t.active # <<>> -> tcp_abandon(t, OldestPcb(t, t.active))
      [] OTHER -> t

New(t) == Min(FreeIds(t))
tcp_alloc(t) == Put(t, New(t), [InPool EXCEPT !.state = "CLOSED"])

-----------------------------------------------------------------------------
\* tcp_close_shutdown; without memory for the FIN it fails and changes nothing.
NeedsFin(t, i) == t.pcb[i].state \in {"SYN_RCVD", "ESTABLISHED", "CLOSE_WAIT"}
SendsRst(t, i) == t.pcb[i].state \in {"ESTABLISHED", "CLOSE_WAIT"} /\ t.pcb[i].unread

SendFin(t, i, next) == Put(t, i, [t.pcb[i] EXCEPT !.state = next, !.out = TRUE])

tcp_close_shutdown(t, i, rst) ==
    CASE rst /\ SendsRst(t, i) /\ t.pcb[i].state = "ESTABLISHED" -> ToTimeWait(t, i)
      [] rst /\ SendsRst(t, i) /\ t.pcb[i].state = "CLOSE_WAIT"  -> Release(Deactivate(t, i), i)
      [] t.pcb[i].state = "CLOSED"   -> Release([t EXCEPT !.bound = Without(@, i)], i)
      [] t.pcb[i].state = "SYN_SENT" -> Release(Deactivate(t, i), i)
      [] ~(rst /\ SendsRst(t, i)) /\ t.pcb[i].state \in {"SYN_RCVD", "ESTABLISHED"} ->
             SendFin(t, i, "FIN_WAIT_1")
      [] ~(rst /\ SendsRst(t, i)) /\ t.pcb[i].state = "CLOSE_WAIT" -> SendFin(t, i, "LAST_ACK")
      [] OTHER -> t

\* tcp_close by the user, who forgets the PCB if it succeeds.
CloseFails(t, i) == NeedsFin(t, i) /\ ~SendsRst(t, i)
NotClosed(t, i)  == Put(t, i, [t.pcb[i] EXCEPT !.rxclosed = TRUE])
tcp_close(t, i)  == tcp_close_shutdown(NotClosed(LetGo(t, i), i), i, TRUE)

\* tcp_abort by the user
tcp_abort(t, i) == tcp_abandon(LetGo(t, i), i)

-----------------------------------------------------------------------------
\* A callback: the user, if it still holds the PCB, may close or abort it.
React(t, i, c) ==
    CASE i \in t.holds /\ c = "close" -> tcp_close(t, i)
      [] i \in t.holds /\ c = "abort" -> tcp_abort(t, i)
      [] OTHER -> t

\* The recv callback for data.  A FIN that came with it is missing in the
\* window until the callback has returned.
Unread(t, i, unread) == Put(t, i, [t.pcb[i] EXCEPT !.unread = unread])

ReceiveData(t, i, fin, c) ==
    IF t.pcb[i].rxclosed THEN tcp_abandon(t, i)
    ELSE React(Unread(t, i, t.pcb[i].unread \/ c = "keep" \/ fin), i, c)

\* The callback for the end of the stream.  A user that has also ended its own
\* half has nothing left to do with the PCB, and forgets it.
ReceiveEnd(t, i, c) ==
    LET u == React(t, i, c)
    IN IF u.pcb[i].state \in {"CLOSING", "TIME_WAIT"} THEN LetGo(u, i) ELSE u

\* What follows tcp_process in tcp_input.
Deliver(t, i, data, fin, c) ==
    LET given == ReceiveData(t, i, fin, c)
        back  == Unread(given, i, t.pcb[i].unread \/ c = "keep")
    IN CASE data /\ (~fin \/ given.pcb[i].state = "FREE") -> given
         [] data /\ fin /\ given.pcb[i].state # "FREE"    -> ReceiveEnd(back, i, "keep")
         [] ~data /\ fin                                  -> ReceiveEnd(t, i, c)
         [] OTHER                                         -> t

-----------------------------------------------------------------------------
\* Segments.  next: it begins with the next number, or, for a RST, with one in
\* the window; all: it acknowledges everything sent.
Segment(s) ==
    /\ s.data => s.next /\ s.flags \in {{"ACK"}, {"ACK", "FIN"}}
    /\ s.all => s.flags # {"SYN"}

Segments ==
    {s \in [rem : Remotes, port : WellKnown \cup Ephemeral, next : BOOLEAN, all : BOOLEAN,
             flags : {{"RST"}, {"SYN"}, {"SYN", "ACK"}, {"ACK"}, {"ACK", "FIN"}}, data : BOOLEAN] :
        Segment(s)}

Acks(s)   == "ACK" \in s.flags /\ s.all
GotFin(s) == "FIN" \in s.flags /\ s.next

Found(t, q, s) == {i \in ToSet(q) : t.pcb[i].rem = s.rem /\ t.pcb[i].port = s.port}

\* tcp_receive: the acknowledgement.
Acked(t, i, s) ==
    IF Acks(s) /\ t.pcb[i].out THEN Put(t, i, [t.pcb[i] EXCEPT !.out = FALSE, !.nrtx = 0]) ELSE t

\* The inactivity timer starts again, unless the user has closed.
Touched(t, i) == IF t.pcb[i].rxclosed THEN t ELSE Put(t, i, [t.pcb[i] EXCEPT !.age = 0])

\* tcp_process in the states with a connection: the next state.
NextState(state, s) ==
    CASE state \in {"ESTABLISHED", "CLOSE_WAIT"} /\ GotFin(s) -> "CLOSE_WAIT"
      [] state = "FIN_WAIT_1" /\ GotFin(s) /\ Acks(s)  -> "TIME_WAIT"
      [] state = "FIN_WAIT_1" /\ GotFin(s) /\ ~Acks(s) -> "CLOSING"
      [] state = "FIN_WAIT_1" /\ ~GotFin(s) /\ Acks(s) -> "FIN_WAIT_2"
      [] state = "FIN_WAIT_2" /\ GotFin(s)             -> "TIME_WAIT"
      [] state = "CLOSING" /\ Acks(s)                  -> "TIME_WAIT"
      [] state = "LAST_ACK" /\ Acks(s)                 -> "FREE"
      [] OTHER                                         -> state

\* tcp_process and the callbacks, for a segment without RST.
Connected(t, i, s, c) ==
    LET u    == Acked(Touched(t, i), i, s)
        next == NextState(u.pcb[i].state, s)
    IN CASE next = "FREE" ->
              Release(Deactivate(IF u.pcb[i].rxclosed THEN u ELSE LetGo(u, i), i), i)
         [] next = "TIME_WAIT" -> Deliver(ToTimeWait(u, i), i, s.data, GotFin(s), c)
         [] OTHER -> Deliver(Put(u, i, [u.pcb[i] EXCEPT !.state = next]), i, s.data, GotFin(s), c)

\* SYN_RCVD: the accept callback takes the connection or refuses it.
Accept(t, i, s, c) ==
    LET u == Acked(Touched(t, i), i, s)
        v == Put(u, i, [u.pcb[i] EXCEPT !.state = NextState("ESTABLISHED", s)])
    IN IF c = "abort" THEN tcp_abandon(Touched(t, i), i)
       ELSE Deliver([v EXCEPT !.holds = @ \cup {i}], i, s.data, GotFin(s), c)

\* SYN_SENT: the connection stands, and the connected callback is called.
Establish(t, i, c) ==
    LET u == Touched(t, i)
    IN React(Put(u, i, [u.pcb[i] EXCEPT !.state = "ESTABLISHED", !.out = FALSE]), i, c)

Process(t, i, s, c) ==
    LET state == t.pcb[i].state
    IN CASE "RST" \in s.flags ->
              IF (IF state = "SYN_SENT" THEN s.all ELSE s.next)
              THEN Release(Deactivate(LetGo(t, i), i), i) ELSE t
         [] "RST" \notin s.flags /\ state = "SYN_SENT" ->
              IF Acks(s) /\ "SYN" \in s.flags THEN Establish(t, i, c) ELSE Touched(t, i)
         [] "RST" \notin s.flags /\ state = "SYN_RCVD" ->
              IF Acks(s) THEN Accept(t, i, s, c) ELSE Touched(t, i)
         [] OTHER -> IF "SYN" \in s.flags THEN t ELSE Connected(t, i, s, c)

\* tcp_listen_input: a SYN makes a connection.
Arrives(t, s) ==
    LET u == MakeRoom(t)
        p == [InPool EXCEPT !.state = "SYN_RCVD", !.out = TRUE, !.rem = s.rem, !.port = s.port]
    IN IF FreeIds(u) = {} THEN u ELSE Activate(Put(u, New(u), p), New(u))

\* What the user may do in the accept, connected or recv callback, if one is
\* called.
Reactions(t, i, s) ==
    IF s.data \/ GotFin(s) \/ t.pcb[i].state \in {"SYN_SENT", "SYN_RCVD"} THEN Callbacks ELSE {"keep"}

\* tcp_input: active connections first, which also brings one to the front,
\* then those in TIME_WAIT, then the listening ones.
Active(s) ==
    \E i \in Found(tcp, tcp.active, s) : \E c \in Reactions(tcp, i, s) :
        tcp' = Process([tcp EXCEPT !.active = <<i>> \o Without(@, i)], i, s, c)

TimeWait(s) ==
    /\ Found(tcp, tcp.active, s) = {}
    /\ \E i \in Found(tcp, tcp.tw, s) :
         tcp' = IF "FIN" \in s.flags THEN Put(tcp, i, [tcp.pcb[i] EXCEPT !.age = 0]) ELSE tcp

Bug_Listen(s) ==
    /\ Found(tcp, tcp.active, s) = {}
    /\ s.port \in tcp.listen
    /\ s.flags = {"SYN"}
    /\ \/ tcp' = Arrives(tcp, s)
       \/ "listen" \in Failures /\ tcp' = MakeRoom(tcp)
Listen(s) ==
    /\ Found(tcp, tcp.active \o tcp.tw, s) = {}
    /\ s.port \in tcp.listen
    /\ s.flags = {"SYN"}
    /\ \/ tcp' = Arrives(tcp, s)
       \/ "listen" \in Failures /\ tcp' = MakeRoom(tcp)

tcp_input ==
    /\ ~walk.on
    /\ \E s \in Segments : Active(s) \/ TimeWait(s) \/ Listen(s)
    /\ UNCHANGED walk

-----------------------------------------------------------------------------
\* The calls of the user.
Ports(t, q) == {t.pcb[i].port : i \in ToSet(q)}

InUse == Ports(tcp, tcp.bound \o tcp.active \o tcp.tw) \cup tcp.listen

tcp_new ==
    LET u == MakeRoom(tcp)
    IN /\ FreeIds(u) # {}
       /\ tcp' = [tcp_alloc(u) EXCEPT !.holds = @ \cup {New(u)}]

tcp_bind(i, port) ==
    /\ tcp.pcb[i].state = "CLOSED" /\ tcp.pcb[i].port = 0
    /\ port \notin InUse
    /\ tcp' = [Put(tcp, i, [tcp.pcb[i] EXCEPT !.port = port]) EXCEPT !.bound = <<i>> \o @]

\* tcp_listen_with_backlog: a smaller PCB from another pool takes over.
tcp_listen(i) ==
    /\ tcp.pcb[i].state = "CLOSED" /\ i \in ToSet(tcp.bound)
    /\ tcp' = Release(LetGo([tcp EXCEPT !.bound = Without(@, i),
                                        !.listen = @ \cup {tcp.pcb[i].port}], i), i)

CloseListening == \E port \in tcp.listen : tcp' = [tcp EXCEPT !.listen = @ \ {port}]

\* The port is kept when there is no memory for the SYN, and so is the state.
tcp_connect(i, rem) ==
    /\ tcp.pcb[i].state = "CLOSED"
    /\ \E port \in IF tcp.pcb[i].port # 0 THEN {tcp.pcb[i].port} ELSE Ephemeral \ InUse :
         LET p == [tcp.pcb[i] EXCEPT !.port = port, !.rem = rem]
             q == [p EXCEPT !.state = "SYN_SENT", !.out = TRUE]
         IN \/ tcp' = Activate([Put(tcp, i, q) EXCEPT !.bound = Without(@, i)], i)
            \/ "connect" \in Failures /\ tcp' = Put(tcp, i, p)

CanSend(i) == tcp.pcb[i].state \in {"SYN_SENT", "SYN_RCVD", "ESTABLISHED", "CLOSE_WAIT"}

\* tcp_write and tcp_output; tcp_recved of all there is
Write(i)   == CanSend(i) /\ tcp' = Put(tcp, i, [tcp.pcb[i] EXCEPT !.out = TRUE])
Recved(i)  == tcp.pcb[i].unread /\ tcp' = Unread(tcp, i, FALSE)

Close(i) ==
    \/ tcp' = tcp_close(tcp, i)
    \/ "close" \in Failures /\ CloseFails(tcp, i) /\ tcp' = NotClosed(tcp, i)

\* tcp_shutdown of the sending half by a user who goes on to receive; one whose
\* tcp_close failed calls tcp_close again.
Shutdown(i) ==
    /\ NeedsFin(tcp, i) /\ ~tcp.pcb[i].rxclosed
    /\ tcp' = tcp_close_shutdown(tcp, i, FALSE)

Abort(i) == tcp.pcb[i].state # "CLOSED" /\ tcp' = tcp_abort(tcp, i)

User ==
    /\ ~walk.on
    /\ \/ tcp_new
       \/ CloseListening
       \/ \E i \in tcp.holds :
            \/ \E port \in WellKnown : tcp_bind(i, port)
            \/ tcp_listen(i)
            \/ \E rem \in Remotes : tcp_connect(i, rem)
            \/ Write(i) \/ Recved(i)
            \/ Close(i) \/ Shutdown(i) \/ Abort(i)
    /\ UNCHANGED walk

-----------------------------------------------------------------------------
\* tcp_slowtmr.
First(q) == IF q = <<>> THEN 0 ELSE q[1]
After(q, i) == IF PlaceOf(q, i) = Len(q) THEN 0 ELSE q[PlaceOf(q, i) + 1]

SlowStart ==
    /\ ~walk.on
    /\ walk' = [on |-> TRUE, prev |-> 0, pcb |-> First(tcp.active), seen |-> {}]
    /\ tcp' = [tcp EXCEPT !.pcb = [i \in Ids |->
                  IF tcp.pcb[i].state = "FREE" THEN tcp.pcb[i]
                  ELSE [tcp.pcb[i] EXCEPT !.age = Min({@ + 1, AgeCap})]]]

\* Visited before a restart of the loop: prev stays where it is.
Skip ==
    /\ walk.pcb \in walk.seen
    /\ walk' = [walk EXCEPT !.pcb = After(tcp.active, walk.pcb)]
    /\ UNCHANGED tcp

Bug_TimedOut(p) ==
    \/ p.state = "SYN_SENT" /\ p.nrtx = SynMaxRtx
    \/ p.nrtx = MaxRtx
    \/ p.state = "SYN_RCVD" /\ p.age > Short
    \/ p.state = "LAST_ACK" /\ p.age > Long
TimedOut(p) ==
    \/ p.state = "SYN_SENT" /\ p.nrtx = SynMaxRtx
    \/ p.nrtx = MaxRtx
    \/ p.state = "FIN_WAIT_2" /\ p.rxclosed /\ p.age > Short
    \/ p.state = "SYN_RCVD" /\ p.age > Short
    \/ p.state = "LAST_ACK" /\ p.age > Long

\* The list without i, when prev is taken for the one before it.
Unlinked(q, prev, i) ==
    SubSeq(q, 1, IF prev = 0 THEN 0 ELSE PlaceOf(q, prev)) \o SubSeq(q, PlaceOf(q, i) + 1, Len(q))

\* A callback may close or abort any connection, and the loop begins again if
\* that has changed the list.
Callback(t, prev, next, seen) ==
    \/ tcp' = t /\ walk' = [on |-> TRUE, prev |-> prev, pcb |-> next, seen |-> seen]
    \/ \E j \in t.holds, c \in TimerCallbacks :
         LET u == IF c = "close" THEN tcp_close(t, j) ELSE tcp_abort(t, j)
         IN /\ t.pcb[j].state # "CLOSED"
            /\ tcp' = u
            /\ walk' = IF u.active # t.active
                       THEN [on |-> TRUE, prev |-> 0, pcb |-> First(u.active), seen |-> seen]
                       ELSE [on |-> TRUE, prev |-> prev, pcb |-> next, seen |-> seen]

\* due: a retransmission is; it counts when something is unacknowledged.
Visit(due) ==
    LET i    == walk.pcb
        next == After(tcp.active, i)
        seen == walk.seen \cup {i}
        sent == IF due /\ tcp.pcb[i].out THEN Put(tcp, i, [tcp.pcb[i] EXCEPT !.nrtx = @ + 1]) ELSE tcp
    IN /\ i # 0 /\ i \notin walk.seen
       /\ IF TimedOut(tcp.pcb[i])
          THEN Callback(Release(LetGo([tcp EXCEPT !.active = Unlinked(@, walk.prev, i)], i), i),
                        walk.prev, next, seen)
          ELSE Callback(sent, i, next, seen)

\* At the end of the list: those in TIME_WAIT, one after the other.
Sweep(t, i) ==
    IF t.pcb[i].age > Long THEN Release([t EXCEPT !.tw = Without(@, i)], i) ELSE t
Swept[k \in 0 .. Len(tcp.tw)] == IF k = 0 THEN tcp ELSE Sweep(Swept[k - 1], tcp.tw[k])
SlowEnd ==
    /\ walk.pcb = 0
    /\ tcp' = Swept[Len(tcp.tw)]
    /\ walk' = NoWalk

tcp_slowtmr ==
    \/ SlowStart
    \/ walk.on /\ (Skip \/ (\E due \in BOOLEAN : Visit(due)) \/ SlowEnd)

PcbsNext == tcp_input \/ User \/ tcp_slowtmr

\* The timer runs, and what is unacknowledged is sent again and again.
PcbsFairness ==
    /\ WF_pcbsVars(tcp_slowtmr)
    /\ \A i \in Ids : SF_pcbsVars(walk.on /\ walk.pcb = i /\ Visit(TRUE))

PcbsSpec == PcbsInit /\ [][PcbsNext]_pcbsVars /\ PcbsFairness

-----------------------------------------------------------------------------
Sent == {"SYN_SENT", "SYN_RCVD", "ESTABLISHED", "CLOSE_WAIT", "FIN_WAIT_1", "FIN_WAIT_2", "CLOSING",
         "LAST_ACK"}

Pcb == [state : Sent \cup {"FREE", "CLOSED", "TIME_WAIT"}, port : {0} \cup WellKnown \cup Ephemeral,
        rem : Remotes \cup {NoOne}, age : 0 .. AgeCap, rxclosed : BOOLEAN, unread : BOOLEAN,
        out : BOOLEAN, nrtx : 0 .. MaxRtx]

PcbsTypeOK ==
    tcp \in [pcb : [Ids -> Pcb], bound : Seq(Ids), active : Seq(Ids), tw : Seq(Ids),
             listen : SUBSET WellKnown, holds : SUBSET Ids, untold : BOOLEAN]

\* "Axioms about the above lists" (tcp_impl.h:326): every PCB that is not CLOSED
\* is on one list and on one only, once, in a state that belongs there; and the
\* loop of tcp_slowtmr stands on the list.
Once(q) == \A k, m \in DOMAIN q : k # m => q[k] # q[m]
ListsSane ==
    /\ PcbsTypeOK
    /\ Once(tcp.active) /\ Once(tcp.tw) /\ Once(tcp.bound)
    /\ ToSet(tcp.active) = {i \in Ids : tcp.pcb[i].state \in Sent}
    /\ ToSet(tcp.tw) = {i \in Ids : tcp.pcb[i].state = "TIME_WAIT"}
    /\ ToSet(tcp.bound) \subseteq {i \in Ids : tcp.pcb[i].state = "CLOSED"}
    /\ {walk.prev, walk.pcb} \subseteq {0} \cup ToSet(tcp.active)

\* A segment belongs to one connection: no two connections, also in TIME_WAIT,
\* have the same port and peer, however ports are bound, chosen and reused.
OneForEach ==
    \A i, j \in ToSet(tcp.active \o tcp.tw) :
        (tcp.pcb[i].port = tcp.pcb[j].port /\ tcp.pcb[i].rem = tcp.pcb[j].rem) => i = j

\* No PCB is freed under its user: the err callback, the end of the stream or
\* its own call has told it.  "call the PCB's err callback and indicate the
\* closure to ensure the application doesn't continue using the PCB" (tcp_in.c).
UserTold == ~tcp.untold /\ \A i \in tcp.holds : tcp.pcb[i].state # "FREE"

\* A connection the user has closed is gone in the end, whatever its peer does:
\* "the pcb is then automatically freed in tcp_slowtmr()" (tcp.c:158).
Leaving(i) == tcp.pcb[i].rxclosed /\ tcp.pcb[i].state \in {"FIN_WAIT_1", "FIN_WAIT_2", "CLOSING", "LAST_ACK"}
ClosedLeaves == \A i \in Ids : []<>~Leaving(i)
=============================================================================
