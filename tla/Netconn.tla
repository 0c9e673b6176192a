------------------------------- MODULE Netconn -------------------------------
(***************************************************************************)
(* The sequential interface of lwIP: api_lib.c, which runs in the threads  *)
(* of the application, api_msg.c and tcpip.c, which run in the thread of   *)
(* the stack.  A call is a message to the stack's thread; the caller waits *)
(* on the semaphore of the netconn until the message is answered, at once  *)
(* or by a later event of the connection.  Data and new connections come   *)
(* over mailboxes the caller reads itself.                                 *)
(*                                                                         *)
(* A netconn is used by one thread at a time, the one that made or         *)
(* accepted it.  Of the error codes only the three kinds of err.h are      *)
(* kept: none, one that passes, and a fatal one (below ERR_ISCONN), which  *)
(* stays.  RAW netconns go the way of UDP ones.  A connection's data are   *)
(* numbered pieces, 0 stands for the NULL that marks the end.              *)
(* LWIP_TCPIP_CORE_LOCKING, the timeouts of LWIP_SO_SNDTIMEO and _RCVTIMEO *)
(* and one-sided shutdowns are left out.                                   *)
(***************************************************************************)
EXTENDS Naturals, Sequences, FiniteSets

CONSTANTS
    Conns,          \* MEMP_NETCONN: the pool of netconns
    Threads,        \* the threads of the application
    Nobody,         \* NULL for a thread
    TcpipBox,       \* TCPIP_MBOX_SIZE
    RecvBox,        \* DEFAULT_TCP_RECVMBOX_SIZE
    AcceptBox,      \* DEFAULT_ACCEPTMBOX_SIZE
    SndBuf,         \* TCP_SND_BUF, in units of data
    MaxWrite,       \* the longest data of one netconn_write
    MaxData,        \* the pieces a peer sends
    Types,          \* the types of netconn the application makes
    MaxCalls,       \* the calls the application makes
    MaxMemFaults    \* failures of an allocation

ASSUME NetconnAssumption ==
    /\ Nobody \notin Threads \cup Conns
    /\ {TcpipBox, RecvBox, AcceptBox, SndBuf, MaxWrite, MaxData, MaxCalls, MaxMemFaults} \subseteq Nat
    /\ TcpipBox > 0 /\ RecvBox > 0 /\ Types \subseteq {"TCP", "UDP"}

VARIABLES
    conns,          \* the netconns with their pcbs
    callers,        \* each thread: the call it makes and the message for it
    tcpipMbox,      \* mbox of tcpip.c: the threads whose messages it holds
    tally           \* what the bounds count

netconnVars == <<conns, callers, tcpipMbox, tally>>

\* A netconn as netconn_alloc leaves it.  current is current_msg: the thread whose
\* message is kept; boxes are the valid mailboxes; unread is the part of the receive
\* window that is taken, space what the send buffer still takes, rx whether the pcb
\* has a receive callback; read is the last piece the application was given.
Fresh(type, nonblocking) ==
    [used |-> TRUE, owner |-> Nobody, type |-> type, nonblocking |-> nonblocking,
     connecting |-> FALSE, state |-> "NONE", pcb |-> "none", lastErr |-> "ok",
     current |-> Nobody, sem |-> 0, offset |-> 0, boxes |-> {"recv"},
     recvmbox |-> <<>>, acceptmbox |-> <<>>, rx |-> TRUE, given |-> 0, refused |-> 0,
     fin |-> "no", unread |-> 0, space |-> SndBuf, read |-> 0]

Unused == [Fresh("TCP", FALSE) EXCEPT !.used = FALSE, !.boxes = {}]

Resting == [pc |-> "idle", conn |-> Nobody, op |-> "none", err |-> "unset",
            size |-> 0, len |-> 0, queued |-> 0, dontblock |-> FALSE, got |-> 0]

NetconnInit ==
    /\ conns = [c \in Conns |-> Unused]
    /\ callers = [t \in Threads |-> Resting]
    /\ tcpipMbox = <<>>
    /\ tally = [calls |-> 0, faults |-> 0]

\* NETCONN_SET_SAFE_ERR: a fatal error is not overwritten.
SafeErr(k, err) == [k EXCEPT !.lastErr = IF @ = "fatal" THEN @ ELSE err]

\* sys_sem_signal(&conn->op_completed), TCPIP_APIMSG_ACK
Signal(k) == [k EXCEPT !.sem = @ + 1]

Told(t, err) == [callers EXCEPT ![t].err = err]

OutOfMemory == tally.faults < MaxMemFaults /\ tally' = [tally EXCEPT !.faults = @ + 1]

-----------------------------------------------------------------------------
(* The threads of the application: api_lib.c *)

\* tcpip_apimsg: post the message, wait on op_completed.
Post(t, call) ==
    /\ Len(tcpipMbox) < TcpipBox
    /\ tcpipMbox' = Append(tcpipMbox, t)
    /\ callers' = [callers EXCEPT ![t] = [call EXCEPT !.pc = "waits", !.err = "unset"]]

Counted ==
    tally.calls < MaxCalls /\ tally' = [tally EXCEPT !.calls = @ + 1]

\* netconn_new_with_proto_and_callback; with no netconn left it returns NULL.
netconn_new(t, c, type, nonblocking) ==
    /\ callers[t].pc = "idle" /\ ~conns[c].used
    /\ Counted
    /\ conns' = [conns EXCEPT ![c] = [Fresh(type, nonblocking) EXCEPT !.owner = t]]
    /\ Post(t, [Resting EXCEPT !.conn = c, !.op = "newconn"])

\* A call of netconn c that is one message.
Asks(t, c, message) ==
    /\ callers[t].pc = "idle" /\ conns[c].used /\ conns[c].owner = t
    /\ Counted
    /\ Post(t, message)
    /\ UNCHANGED conns

ApiMsg(c, op) == [Resting EXCEPT !.conn = c, !.op = op]

\* netconn_getaddr, netconn_bind, netconn_connect, netconn_disconnect, netconn_listen
Plain == {"getaddr", "bind", "connect", "disconnect", "listen"}
netconn_plain(t, c, op) == Asks(t, c, ApiMsg(c, op))
netconn_send(t, c) == conns[c].type = "UDP" /\ Asks(t, c, ApiMsg(c, "send"))
netconn_join_leave_group(t, c) == Asks(t, c, ApiMsg(c, "group"))
netconn_close(t, c) == Asks(t, c, ApiMsg(c, "close"))
netconn_delete(t, c) == Asks(t, c, ApiMsg(c, "delete"))

\* netconn_write_partly: it may not block on a nonblocking netconn.
netconn_write(t, c) ==
    /\ conns[c].type = "TCP"
    /\ \E size \in 1..MaxWrite, dontblock \in BOOLEAN :
        /\ conns[c].nonblocking => dontblock
        /\ Asks(t, c, [ApiMsg(c, "write") EXCEPT !.size = size, !.len = size, !.dontblock = dontblock])

\* netconn_recv_data and netconn_accept up to the fetch: a missing mailbox or a fatal
\* error is returned at once.
Look(t, c, box) ==
    /\ callers[t].pc = "idle" /\ conns[c].used /\ conns[c].owner = t
    /\ Counted
    /\ box \in conns[c].boxes /\ conns[c].lastErr # "fatal"
    /\ callers' = [callers EXCEPT ![t] = [Resting EXCEPT !.pc = "looked", !.conn = c, !.op = box]]
    /\ UNCHANGED <<conns, tcpipMbox>>

\* netconn_recv_data, the fetch: a datagram is returned, of a TCP connection the stack
\* is told first.
FetchData(t) ==
    LET c == callers[t].conn
        k == conns[c]
    IN  /\ callers[t].pc = "looked" /\ callers[t].op = "recv" /\ k.recvmbox # <<>>
        /\ conns' = [conns EXCEPT ![c].recvmbox = Tail(@)]
        /\ callers' = [callers EXCEPT ![t] =
              IF k.type = "UDP" THEN Resting
              ELSE [@ EXCEPT !.pc = "taken", !.got = Head(k.recvmbox)]]
        /\ UNCHANGED <<tcpipMbox, tally>>

\* netconn_recv_data: do_recv opens the window again.
AskRecv(t) ==
    /\ callers[t].pc = "taken"
    /\ Post(t, callers[t])
    /\ UNCHANGED <<conns, tally>>

\* netconn_accept, the fetch
FetchConn(t) ==
    LET c == callers[t].conn
        k == conns[c]
    IN  /\ callers[t].pc = "looked" /\ callers[t].op = "accept" /\ k.acceptmbox # <<>>
        /\ conns' = [conns EXCEPT ![c].acceptmbox = Tail(@), ![Head(k.acceptmbox)].owner = t]
        /\ callers' = [callers EXCEPT ![t] = Resting]
        /\ UNCHANGED <<tcpipMbox, tally>>

\* The end of a call in the caller's thread: sys_arch_sem_wait returns and the error
\* is kept in last_err; netconn_delete frees the netconn, as netconn_new does when
\* there was no pcb; netconn_recv_data gives out the data, or ERR_CLSD at the end.
Returned(t) ==
    LET m == callers[t]
        k == [conns[m.conn] EXCEPT !.sem = @ - 1]
    IN  CASE m.op = "delete" -> Unused
          [] m.op = "newconn" -> IF m.err = "ok" THEN k ELSE Unused
          [] m.op = "recv" -> IF m.got = 0 THEN SafeErr(k, "fatal") ELSE [k EXCEPT !.read = m.got]
          [] OTHER -> SafeErr(k, m.err)

CallReturns(t) ==
    /\ callers[t].pc = "waits" /\ conns[callers[t].conn].sem > 0
    /\ conns' = [conns EXCEPT ![callers[t].conn] = Returned(t)]
    /\ callers' = [callers EXCEPT ![t] = Resting]
    /\ UNCHANGED <<tcpipMbox, tally>>

-----------------------------------------------------------------------------
(* The thread of the stack: api_msg.c *)

\* The pcb is given up, with what TCP keeps of the connection.
Gone(k) == [k EXCEPT !.pcb = "none", !.rx = TRUE, !.given = 0, !.refused = 0, !.fin = "no",
                     !.unread = 0, !.space = SndBuf]

\* The end of a message that is kept: current_msg->err is set, the caller woken.
Ended(k) == Signal([k EXCEPT !.current = Nobody, !.state = "NONE"])

\* do_newconn, pcb_new
do_newconn(t, c) ==
    \/ /\ conns' = [conns EXCEPT ![c] =
              Signal([@ EXCEPT !.pcb = IF conns[c].type = "UDP" THEN "udp" ELSE "new"])]
       /\ callers' = Told(t, "ok")
       /\ UNCHANGED tally
    \/ /\ OutOfMemory
       /\ conns' = [conns EXCEPT ![c] = Signal(@)]
       /\ callers' = Told(t, "soft")

\* The calls that only ask the pcb, with the errors each may answer.  The peer of an
\* unconnected UDP pcb is ERR_CONN.
IfAlive(k, errs) == IF k.lastErr = "fatal" THEN {"fatal"} ELSE errs
do_bind(k) == IfAlive(k, IF k.pcb = "none" THEN {"soft"} ELSE {"ok", "soft"})
do_send(k) == IfAlive(k, IF k.pcb = "none" THEN {"fatal"} ELSE {"ok", "soft"})
do_join_leave_group(k) ==
    IfAlive(k, IF k.pcb = "none" THEN {"fatal"}
               ELSE IF k.type = "UDP" THEN {"ok", "soft"} ELSE {"soft"})
do_disconnect(k) == IF k.type = "UDP" THEN {"ok"} ELSE {"soft"}
do_getaddr(k) ==
    IF k.pcb = "none" THEN {"fatal"} ELSE IF k.type = "UDP" THEN {"ok", "fatal"} ELSE {"ok"}

Answered(t, c, errs) ==
    /\ \E err \in errs : callers' = Told(t, err)
    /\ conns' = [conns EXCEPT ![c] = Signal(@)]
    /\ UNCHANGED tally

\* do_connect; tcp_connect takes a closed pcb only.
do_connect(t, c) ==
    LET k == conns[c]
        opened == [k EXCEPT !.state = "CONNECT", !.pcb = "syn", !.connecting = k.nonblocking]
    IN  \/ k.pcb = "none" /\ Answered(t, c, {"fatal"})
        \/ k.type = "UDP" /\ k.pcb # "none" /\ Answered(t, c, {"ok", "soft"})
        \/ k.type = "TCP" /\ k.pcb # "none" /\ Answered(t, c, {"soft"})
        \/ /\ k.pcb = "new" /\ k.state = "NONE"
           /\ conns' = [conns EXCEPT ![c] = IF k.nonblocking THEN Signal(opened)
                                            ELSE [opened EXCEPT !.current = t]]
           /\ callers' = IF k.nonblocking THEN Told(t, "soft") ELSE callers
           /\ UNCHANGED tally

\* do_listen: the recvmbox gives way to the acceptmbox.  Without an acceptmbox the
\* new pcb is closed.
do_listen(t, c) ==
    LET k == conns[c]
        May == k.lastErr # "fatal" /\ k.type = "TCP" /\ k.state = "NONE" /\ k.pcb # "none"
        Becomes(r, err) == conns' = [conns EXCEPT ![c] = Signal(r)] /\ callers' = Told(t, err)
    IN  \/ ~May /\ Answered(t, c, {"fatal"})
        \/ May /\ k.pcb # "new" /\ Answered(t, c, {"soft"})
        \/ /\ May /\ k.pcb = "new" /\ UNCHANGED tally
           /\ Becomes([k EXCEPT !.state = "LISTEN", !.pcb = "listen", !.boxes = {"accept"}], "ok")
        \/ May /\ k.pcb = "new" /\ OutOfMemory /\ Becomes(k, "soft")
        \/ May /\ k.pcb = "new" /\ OutOfMemory /\ Becomes([k EXCEPT !.pcb = "none", !.boxes = {}], "soft")

\* do_recv, tcp_recved: the window never grows over its size.
do_recv(t, c) ==
    LET k == conns[c]
        unread == IF k.pcb = "none" \/ k.unread = 0 THEN k.unread ELSE k.unread - 1
    IN  /\ conns' = [conns EXCEPT ![c] = Signal([k EXCEPT !.unread = unread])]
        /\ callers' = Told(t, "ok")
        /\ UNCHANGED tally

\* do_writemore for the message of thread t, with the answer of tcp_write.
Fits(k, m) == IF k.space < m.size - k.offset THEN k.space ELSE m.size - k.offset

Blocked(k, m) == m.dontblock /\ Fits(k, m) = 0

do_writemore(c, k, t) ==
    LET m == callers[t]
        n == Fits(k, m)
        put == [k EXCEPT !.space = @ - n, !.offset = @ + n]
        done == put.offset = m.size \/ m.dontblock
        Fails(err) == /\ conns' = [conns EXCEPT ![c] = Ended(k)]
                      /\ callers' = [callers EXCEPT ![t].err = err, ![t].len = 0]
    IN  \/ /\ ~Blocked(k, m) /\ k.pcb = "open" /\ UNCHANGED tally
           /\ IF done
              THEN /\ conns' = [conns EXCEPT ![c] = Ended([put EXCEPT !.offset = 0])]
                   /\ callers' = [callers EXCEPT ![t].queued = @ + n, ![t].len = put.offset,
                                                  ![t].err = "ok"]
              ELSE /\ conns' = [conns EXCEPT ![c] = put]
                   /\ callers' = [callers EXCEPT ![t].queued = @ + n]
        \/ Blocked(k, m) /\ k.pcb = "open" /\ UNCHANGED tally /\ Fails("soft")
        \/ k.pcb = "new" /\ UNCHANGED tally /\ Fails("fatal")
        \/ /\ ~Blocked(k, m) /\ k.pcb = "open" /\ OutOfMemory
           /\ IF m.dontblock THEN Fails("soft")
              ELSE conns' = [conns EXCEPT ![c] = k] /\ UNCHANGED callers

\* do_write
do_write(t, c) ==
    LET k == conns[c]
    IN  IF k.lastErr = "fatal" THEN Answered(t, c, {"fatal"})
        ELSE IF k.state # "NONE" THEN Answered(t, c, {"soft"})
        ELSE IF k.pcb = "none" THEN Answered(t, c, {"fatal"})
        ELSE do_writemore(c, [k EXCEPT !.state = "WRITE", !.current = t, !.offset = 0], t)

\* do_close_internal with both sides shut; only with data to send and nothing unread
\* may tcp_close fail, and then the receive callback stays away.
do_close_internal(cs, c, k, t) ==
    \/ /\ conns' = [cs EXCEPT ![c] = Ended(Gone(k))]
       /\ callers' = Told(t, "ok")
       /\ UNCHANGED tally
    \/ /\ k.pcb = "open" /\ k.refused = 0 /\ k.unread = 0
       /\ OutOfMemory
       /\ conns' = [cs EXCEPT ![c] = [k EXCEPT !.rx = FALSE]]
       /\ UNCHANGED callers

\* netconn_drain: the mailboxes are emptied and deleted; a connection nobody has
\* accepted is aborted and its netconn freed.
Drained(k) ==
    LET pieces == Cardinality({i \in 1..Len(k.recvmbox) : k.recvmbox[i] # 0})
    IN  [k EXCEPT !.boxes = {}, !.recvmbox = <<>>, !.acceptmbox = <<>>,
                  !.unread = IF k.pcb = "none" THEN @ ELSE @ - pieces]

netconn_drain(c) ==
    [d \in Conns |-> IF d = c THEN Drained(conns[c])
                     ELSE IF \E i \in 1..Len(conns[c].acceptmbox) : conns[c].acceptmbox[i] = d
                          THEN Unused ELSE conns[d]]

Closing(t, c) ==
    LET cs == netconn_drain(c)
    IN  do_close_internal(cs, c, [cs[c] EXCEPT !.state = "CLOSE", !.current = t], t)

\* do_close
do_close(t, c) ==
    LET k == conns[c]
    IN  IF k.state \in {"NONE", "LISTEN"} /\ k.pcb # "none" /\ k.type = "TCP"
        THEN Closing(t, c)
        ELSE Answered(t, c, {"soft"})

\* do_delconn
do_delconn(t, c) ==
    LET k == conns[c]
    IN  IF k.state \notin {"NONE", "LISTEN", "CONNECT"}
        THEN Answered(t, c, {"soft"})
        ELSE IF k.pcb # "none" /\ k.type = "TCP" THEN Closing(t, c)
        ELSE /\ conns' = [netconn_drain(c) EXCEPT ![c] = Signal(Gone(@))]
             /\ UNCHANGED <<callers, tally>>

\* tcpip_thread: the next message
tcpip_thread ==
    /\ tcpipMbox # <<>>
    /\ tcpipMbox' = Tail(tcpipMbox)
    /\ LET t == Head(tcpipMbox)
           c == callers[t].conn
           op == callers[t].op
       IN  CASE op = "newconn" -> do_newconn(t, c)
             [] op = "connect" -> do_connect(t, c)
             [] op = "listen" -> do_listen(t, c)
             [] op = "recv" -> do_recv(t, c)
             [] op = "write" -> do_write(t, c)
             [] op = "close" -> do_close(t, c)
             [] op = "delete" -> do_delconn(t, c)
             [] op = "bind" -> Answered(t, c, do_bind(conns[c]))
             [] op = "send" -> Answered(t, c, do_send(conns[c]))
             [] op = "group" -> Answered(t, c, do_join_leave_group(conns[c]))
             [] op = "disconnect" -> Answered(t, c, do_disconnect(conns[c]))
             [] op = "getaddr" -> Answered(t, c, do_getaddr(conns[c]))

-----------------------------------------------------------------------------
(* The events of the pcbs, in the thread of the stack too *)

\* do_connected
do_connected(c) ==
    LET k == conns[c]
        up == [k EXCEPT !.pcb = "open", !.state = "NONE", !.connecting = FALSE, !.current = Nobody]
    IN  /\ k.pcb = "syn"
        /\ conns' = [conns EXCEPT ![c] = IF k.connecting THEN SafeErr(up, "ok") ELSE Signal(up)]
        /\ callers' = IF k.current = Nobody THEN callers ELSE Told(k.current, "ok")
        /\ UNCHANGED <<tcpipMbox, tally>>

\* A caller waits for what the netconn does; after a nonblocking connect nobody.
Bug_KeepsMessage(k) == k.state \in {"WRITE", "CLOSE", "CONNECT"}
KeepsMessage(k) == k.state \in {"WRITE", "CLOSE"} \/ (k.state = "CONNECT" /\ ~k.connecting)

\* err_tcp: the pcb is gone.  A NULL goes to the mailbox if there is room, and whoever
\* waits for an answer gets the error.
Posted(box, size, x) == IF Len(box) < size THEN Append(box, x) ELSE box

err_tcp(c) ==
    LET k == conns[c]
        dead == [Gone(k) EXCEPT !.lastErr = "fatal", !.state = "NONE", !.connecting = FALSE,
                                !.current = Nobody,
                                !.recvmbox = IF "recv" \in k.boxes THEN Posted(@, RecvBox, 0) ELSE @]
    IN  /\ conns' = [conns EXCEPT ![c] = IF KeepsMessage(k) THEN Signal(dead) ELSE dead]
        /\ callers' = IF KeepsMessage(k) THEN Told(k.current, "fatal") ELSE callers
        /\ UNCHANGED <<tcpipMbox, tally>>

Reset(c) == conns[c].pcb \in {"syn", "open"} /\ err_tcp(c)

\* recv_tcp for a piece or the end (0): refused when the mailbox is full.
Takes(k) == Len(k.recvmbox) < RecvBox

Bug_recv_tcp(k, x) ==
    IF Takes(k) THEN [SafeErr(k, "ok") EXCEPT !.recvmbox = Append(@, x)] ELSE SafeErr(k, "ok")
recv_tcp(k, x) ==
    LET heard == SafeErr(k, "ok")
    IN  IF Takes(k) THEN [heard EXCEPT !.recvmbox = Append(@, x)]
        ELSE IF x = 0 THEN [heard EXCEPT !.fin = "lost"]
        ELSE [heard EXCEPT !.refused = x]

\* A piece arrives.  When the netconn is closing, the connection is aborted.
Data(c) ==
    LET k == conns[c]
    IN  /\ k.pcb = "open" /\ k.refused = 0 /\ k.fin = "no" /\ k.given < MaxData
        /\ IF k.rx
           THEN /\ conns' = [conns EXCEPT ![c] =
                      recv_tcp([k EXCEPT !.given = @ + 1, !.unread = @ + 1], k.given + 1)]
                /\ UNCHANGED <<callers, tcpipMbox, tally>>
           ELSE err_tcp(c)

\* The peer's FIN: kept with the refused data, otherwise told at once, once only
\* (tcp_input).
Fin(c) ==
    LET k == conns[c]
    IN  /\ k.pcb = "open" /\ k.fin = "no"
        /\ conns' = [conns EXCEPT ![c] =
              IF k.refused # 0 THEN [k EXCEPT !.fin = "kept"]
              ELSE IF k.rx THEN recv_tcp([k EXCEPT !.fin = "told"], 0)
              ELSE [k EXCEPT !.fin = "told"]]
        /\ UNCHANGED <<callers, tcpipMbox, tally>>

\* tcp_process_refused_data, from tcp_fasttmr or the next segment
Refused(c) ==
    LET k == conns[c]
        again == recv_tcp([k EXCEPT !.refused = 0], k.refused)
    IN  /\ k.pcb = "open" /\ k.refused # 0
        /\ conns' = [conns EXCEPT ![c] =
              IF again.refused = 0 /\ k.fin = "kept"
              THEN recv_tcp([again EXCEPT !.fin = "told"], 0) ELSE again]
        /\ UNCHANGED <<callers, tcpipMbox, tally>>

\* What poll_tcp and sent_tcp do for the message that is kept.
GoOn(c, k) ==
    IF k.state = "WRITE" THEN do_writemore(c, k, k.current)
    ELSE IF k.state = "CLOSE" THEN do_close_internal(conns, c, k, k.current)
    ELSE conns' = [conns EXCEPT ![c] = k] /\ UNCHANGED <<callers, tally>>

poll_tcp(c) ==
    /\ conns[c].pcb = "open" /\ conns[c].state # "NONE"
    /\ GoOn(c, conns[c])
    /\ UNCHANGED tcpipMbox

\* The peer acknowledges.
sent_tcp(c) ==
    /\ conns[c].pcb = "open" /\ conns[c].space < SndBuf
    /\ \E space \in (conns[c].space + 1)..SndBuf : GoOn(c, [conns[c] EXCEPT !.space = space])
    /\ UNCHANGED tcpipMbox

\* accept_function; without a netconn or room in the acceptmbox the connection is
\* aborted and nothing is left of it.
accept_function(c, n) ==
    LET k == conns[c]
    IN  /\ k.pcb = "listen" /\ Len(k.acceptmbox) < AcceptBox /\ ~conns[n].used
        /\ conns' = [conns EXCEPT ![c].acceptmbox = Append(@, n),
                                  ![n] = [Fresh("TCP", FALSE) EXCEPT !.pcb = "open"]]
        /\ UNCHANGED <<callers, tcpipMbox, tally>>

\* recv_udp, recv_raw: a datagram there is no room for is dropped.
recv_udp(c) ==
    /\ conns[c].pcb = "udp" /\ "recv" \in conns[c].boxes /\ Takes(conns[c])
    /\ conns' = [conns EXCEPT ![c].recvmbox = Append(@, 1)]
    /\ UNCHANGED <<callers, tcpipMbox, tally>>

-----------------------------------------------------------------------------

ThreadGoesOn(t) == FetchData(t) \/ FetchConn(t) \/ AskRecv(t) \/ CallReturns(t)

NetconnNext ==
    \/ \E t \in Threads, c \in Conns, type \in Types, nonblocking \in BOOLEAN :
          netconn_new(t, c, type, nonblocking)
    \/ \E t \in Threads, c \in Conns, op \in Plain : netconn_plain(t, c, op)
    \/ \E t \in Threads, c \in Conns :
          netconn_send(t, c) \/ netconn_join_leave_group(t, c) \/ netconn_write(t, c)
          \/ netconn_close(t, c) \/ netconn_delete(t, c)
    \/ \E t \in Threads, c \in Conns, box \in {"recv", "accept"} : Look(t, c, box)
    \/ \E t \in Threads : ThreadGoesOn(t)
    \/ tcpip_thread
    \/ \E c \in Conns : do_connected(c) \/ Reset(c) \/ Data(c) \/ Fin(c) \/ Refused(c)
                        \/ poll_tcp(c) \/ sent_tcp(c) \/ recv_udp(c)
    \/ \E c \in Conns, n \in Conns : accept_function(c, n)

\* The threads run; TCP connects or gives up, the peer acknowledges or the connection
\* is given up, and the pcb is polled.
ConnectEnds(c) == conns[c].pcb = "syn" /\ (do_connected(c) \/ Reset(c))
NetconnFairness ==
    /\ WF_netconnVars(tcpip_thread)
    /\ \A t \in Threads : WF_netconnVars(ThreadGoesOn(t))
    /\ \A c \in Conns : /\ WF_netconnVars(ConnectEnds(c))
                        /\ WF_netconnVars(sent_tcp(c) \/ Reset(c))
                        /\ WF_netconnVars(poll_tcp(c))

NetconnSpec == NetconnInit /\ [][NetconnNext]_netconnVars /\ NetconnFairness

-----------------------------------------------------------------------------

NetconnTypeOK ==
    /\ \A c \in Conns : LET k == conns[c] IN
        /\ k.used \in BOOLEAN /\ k.owner \in Threads \cup {Nobody} /\ k.type \in {"TCP", "UDP"}
        /\ k.nonblocking \in BOOLEAN /\ k.connecting \in BOOLEAN
        /\ k.state \in {"NONE", "WRITE", "LISTEN", "CONNECT", "CLOSE"}
        /\ k.pcb \in {"none", "new", "udp", "listen", "syn", "open"}
        /\ k.lastErr \in {"ok", "soft", "fatal"} /\ k.current \in Threads \cup {Nobody}
        /\ k.sem \in 0..1 /\ k.offset \in 0..MaxWrite /\ k.boxes \subseteq {"recv", "accept"}
        /\ k.recvmbox \in Seq(0..MaxData + 1) /\ Len(k.recvmbox) <= RecvBox
        /\ k.acceptmbox \in Seq(Conns) /\ Len(k.acceptmbox) <= AcceptBox
        /\ k.space \in 0..SndBuf /\ k.unread \in 0..MaxData
    /\ tcpipMbox \in Seq(Threads) /\ Len(tcpipMbox) <= TcpipBox

Holds(q, x) == \E i \in 1..Len(q) : q[i] = x

\* A caller that waits is woken once and by its own answer: its message is in the
\* mailbox of the stack, or kept by the netconn for an event to answer, or answered,
\* and exactly one of the three; nobody else is woken by the netconn's semaphore.
WokenOnce ==
    \A c \in Conns :
        LET waiting == {t \in Threads : callers[t].pc = "waits" /\ callers[t].conn = c}
            posted == {t \in waiting : Holds(tcpipMbox, t)}
            kept == IF conns[c].current = Nobody THEN {} ELSE {conns[c].current}
        IN  /\ kept \subseteq waiting /\ kept \cap posted = {}
            /\ conns[c].sem + Cardinality(posted) + Cardinality(kept) = Cardinality(waiting)
            /\ Cardinality(waiting) <= 1

\* Where the callbacks rely on it, the kept message is there, the write has an offset
\* only while it goes on, and the netconn has a pcb (the assertions of do_writemore,
\* do_close_internal, do_connected, err_tcp, do_write, do_delconn and netconn_free).
AssertionsHold ==
    \A c \in Conns : LET k == conns[c] IN
        /\ (k.current # Nobody) <=> KeepsMessage(k)
        /\ k.state # "NONE" => k.pcb # "none"
        /\ (k.state = "CONNECT") <=> (k.pcb = "syn")
        /\ k.pcb # "none" /\ k.offset > 0 => k.state = "WRITE" /\ k.offset < callers[k.current].size
        /\ k.sem = 1 /\ (\E t \in Threads : callers[t].conn = c /\ callers[t].op = "delete") =>
              k.pcb = "none" /\ k.boxes = {}

\* A thread that is about to wait at a mailbox never waits at an empty one after the
\* connection has failed, although the error came after it looked (err_tcp).
NeverWaitsForTheDead ==
    \A t \in Threads : callers[t].pc = "looked" =>
        LET k == conns[callers[t].conn] IN
        /\ callers[t].op \in k.boxes
        /\ (callers[t].op = "recv" /\ k.recvmbox = <<>> => k.lastErr # "fatal" /\ k.pcb # "none")

\* The application gets the pieces in order: those that wait for it follow the last it
\* read, one by one, with the end, if any, behind them.
Coming(c) ==
    LET taken == {callers[t].got : t \in {u \in Threads : callers[u].conn = c /\ callers[u].op = "recv"
                                                          /\ callers[u].pc \in {"taken", "waits"}}}
        q == conns[c].recvmbox
    IN  [taken |-> taken, q |-> q,
         next |-> conns[c].read + Cardinality(taken \ {0}) + 1]

PiecesInOrder ==
    \A c \in Conns : conns[c].type = "TCP" =>
        LET w == Coming(c) IN
        /\ \A x \in w.taken : x # 0 => x = conns[c].read + 1
        /\ \A i \in 1..Len(w.q) : \/ w.q[i] = w.next + i - 1
                                  \/ \A j \in i..Len(w.q) : w.q[j] = 0
        /\ conns[c].refused # 0 => conns[c].refused = w.next + Len(w.q)

\* The receive window is neither leaked nor given twice: what is taken of it are the
\* pieces the application has not been given (tcp_recved in do_recv, netconn_drain).
WindowKept ==
    \A c \in Conns : conns[c].pcb = "open" =>
        LET w == Coming(c)
            k == conns[c]
            held == {t \in Threads : callers[t].conn = c /\ callers[t].op = "recv"
                        /\ callers[t].got # 0
                        /\ (callers[t].pc = "taken" \/ Holds(tcpipMbox, t))}
        IN  k.unread = Cardinality({i \in 1..Len(w.q) : w.q[i] # 0}) + Cardinality(held)
                         + (IF k.refused # 0 THEN 1 ELSE 0)

\* A write tells the truth: answered without an error, TCP has been given as much as
\* the caller is told, all of it if the call blocks; answered with one while the
\* connection lives, nothing.
WriteTold ==
    \A t \in Threads : LET m == callers[t] IN
        m.pc = "waits" /\ m.op = "write" /\ conns[m.conn].sem = 1 =>
            IF m.err = "ok" THEN m.queued = (IF m.dontblock THEN m.len ELSE m.size)
            ELSE conns[m.conn].pcb # "none" => m.queued = 0

CallsSane ==
    WokenOnce /\ AssertionsHold /\ NeverWaitsForTheDead /\ PiecesInOrder /\ WindowKept /\ WriteTold

\* Every call that waits for the stack returns.
CallsReturn == \A t \in Threads : []<>(callers[t].pc # "waits")
=============================================================================
