------------------------------ MODULE SpeexUdp ------------------------------
(***************************************************************************)
(* The link to the dispatch servers: src/apps/speex_udp.c together with    *)
(* the UDP calls it makes (lwip/src/core/udp.c).                           *)
(*                                                                         *)
(* The device talks to one of two servers.  A control datagram received    *)
(* on port 5199 marks the sender as the connected server; every 5 s the    *)
(* device sends a control datagram of its own and, when nothing was heard  *)
(* for more than 10 s, gives the server up and tries the other one.  Audio *)
(* goes from the data PCB to the connected server.                         *)
(*                                                                         *)
(* All of it runs in the main loop (roip.c), so one call is one step; what *)
(* interleaves are the calls, the millisecond clock, the Ethernet link and *)
(* the datagrams the network delivers.                                     *)
(***************************************************************************)
EXTENDS Integers

CONSTANTS
    Server1, Server2,  \* the two configured server addresses
    Others,            \* other hosts that may send to port 5199
    LiveServers,       \* the servers that answer every control datagram
    Any,               \* IP_ADDR_ANY, the peer of an unconnected PCB
    ClockMod,          \* size of the millisecond counter, 2^32 in the code
    SendPeriod,        \* 5000 in the code
    RecvTimeout,       \* 10000 in the code
    MaxPass,           \* longest pass of the main loop, in clock units
    SendErrors         \* the ways a send can fail in this environment

Servers == {Server1, Server2}
Hosts   == Servers \cup Others

ASSUME HostsAssumption ==
    /\ Server1 # Server2
    /\ Any \notin Hosts
    /\ Servers \cap Others = {}
    /\ LiveServers \subseteq Servers
    /\ SendErrors \subseteq {"failed", "nopbuf"}

ASSUME TimeAssumption ==
    /\ SendPeriod \in Nat
    /\ RecvTimeout \in Nat
    /\ MaxPass \in Nat
    /\ ClockMod \in Nat
    /\ ClockMod > RecvTimeout + SendPeriod + 2 * MaxPass + 1

VARIABLES
    now,       \* systick_timems
    conn,      \* the SPUDP_CONNECTED bit of dt.st
    server,    \* dt.st & SPUDP_SERVER_MASK
    tmSent,    \* tm_ctlpacket_sent
    tmRecv,    \* tm_ctlpacket_received
    dataPeer,  \* dt.p->remote_ip; Any while the PCB is unconnected
    linkUp,    \* NETIF_FLAG_LINK_UP of the interface
    late,      \* clock units since spudp_control_send last ran
    halted,    \* the processor sits in a failed assertion
    asked,     \* servers that owe an answer to a control datagram
    out,       \* the datagram the last step put on the wire
    silence,   \* clock units since the selected server was last heard
    stranger   \* the last control datagram came from neither server

timers  == <<tmSent, tmRecv>>
linkHistory == <<asked, silence, stranger>>
linkVars == <<now, conn, server, tmSent, tmRecv, dataPeer, linkUp, late, halted,
          asked, out, silence, stranger>>

-----------------------------------------------------------------------------
Clock == 0 .. ClockMod - 1

NoDatagram == [kind |-> "none", to |-> Any]
Datagram(kind, to) == [kind |-> kind, to |-> to]

\* u32_t subtraction SysTick_GetMS() - from
Elapsed(from) == IF now >= from THEN now - from ELSE now - from + ClockMod

Addr(s) == IF s = 1 THEN Server1 ELSE Server2

\* The server tried next: 1 -> 2, 2 -> 1, anything else -> 1.
Bug_OtherServerSame(s) == s
OtherServer(s)     == IF s = 1 THEN 2 ELSE 1

\* What udp_send can come to: it succeeds only over a link that is up, it may
\* fail (no memory, ARP queue full, link down), and pbuf_alloc may return NULL
\* before it, which ends in the assertion of pbuf_header.
Outcomes == (IF linkUp THEN {"sent"} ELSE {"failed"}) \cup SendErrors

\* The bound on how long a connection may outlive the last control datagram.
StaleMax == RecvTimeout + SendPeriod + 2 * MaxPass

Older(n) == IF n > StaleMax THEN n ELSE n + 1

-----------------------------------------------------------------------------
\* spudp_init has run and the main loop starts.  radio_comm_init kept it
\* waiting for an unbounded time, so the clock may stand anywhere.
LinkInit ==
    /\ now \in Clock
    /\ conn = FALSE
    /\ server = 1
    /\ tmSent \in Clock
    /\ tmRecv = tmSent
    /\ dataPeer = Any
    /\ linkUp \in BOOLEAN
    /\ late = 0
    /\ halted = FALSE
    /\ asked = {}
    /\ out = NoDatagram
    /\ silence = 0
    /\ stranger = FALSE

\* SysTick_Handler.  No pass of the main loop takes longer than MaxPass.
Tick ==
    /\ ~halted
    /\ late < MaxPass
    /\ now' = IF now = ClockMod - 1 THEN 0 ELSE now + 1
    /\ late' = late + 1
    /\ silence' = Older(silence)
    /\ out' = NoDatagram
    /\ UNCHANGED <<conn, server, timers, dataPeer, linkUp, halted, asked, stranger>>

\* The PHY reports a change and the main loop calls netif_set_link_up/_down.
LinkChange ==
    /\ ~halted
    /\ linkUp' = ~linkUp
    /\ out' = NoDatagram
    /\ UNCHANGED <<now, conn, server, timers, dataPeer, late, halted, linkHistory>>

\* handleControlInput: a control datagram of host h.  The receive time is
\* taken whoever sent it, the server state only follows the two servers.
ControlInput(h) ==
    /\ ~halted
    /\ linkUp
    /\ server' = CASE h = Server1 -> 1
                   [] h # Server1 /\ h = Server2 -> 2
                   [] OTHER -> server
    /\ conn' = (conn \/ h \in Servers)
    /\ tmRecv' = now
    /\ silence' = IF h \in Servers THEN 0 ELSE silence
    /\ stranger' = (h \notin Servers)
    /\ asked' = asked \ {h}
    /\ out' = NoDatagram
    /\ UNCHANGED <<now, tmSent, dataPeer, linkUp, late, halted>>

\* spudp_string_send: connect the control PCB to server s, send, disconnect.
\* It leaves the control PCB unconnected on every path that returns.
StringSend(s, outcome) ==
    /\ outcome \in Outcomes
    /\ out' = IF outcome = "sent" THEN Datagram("control", Addr(s)) ELSE NoDatagram
    /\ asked' = IF outcome = "sent" THEN asked \cup ({Addr(s)} \cap LiveServers) ELSE asked
    /\ halted' = (outcome = "nopbuf")

\* radio_comm forwards what the radio sent.
ForwardString ==
    /\ ~halted
    /\ \E outcome \in Outcomes : StringSend(server, outcome)
    /\ UNCHANGED <<now, conn, server, timers, dataPeer, linkUp, late, silence,
                   stranger>>

Bug_GiveUpNever     == ~conn
SyncDue    == Elapsed(tmSent) > SendPeriod
GiveUp     == ~conn \/ Elapsed(tmRecv) > RecvTimeout
NextServer == IF GiveUp THEN OtherServer(server) ELSE server

\* spudp_control_send, the period has passed: choose the server, then send.
\* The send time is taken only when the send succeeded.
ControlSend(outcome) ==
    /\ ~halted
    /\ SyncDue
    /\ server' = NextServer
    /\ conn' = (conn /\ ~GiveUp)
    /\ StringSend(NextServer, outcome)
    /\ tmSent' = IF outcome = "sent" THEN now ELSE tmSent
    /\ late' = 0
    /\ UNCHANGED <<now, tmRecv, dataPeer, linkUp, silence, stranger>>

\* spudp_control_send, the period has not passed.
ControlSkip ==
    /\ ~halted
    /\ ~SyncDue
    /\ late' = 0
    /\ out' = NoDatagram
    /\ UNCHANGED <<now, conn, server, timers, dataPeer, linkUp, halted, linkHistory>>

\* The peer spudp_send uses: it connects the data PCB only in the connected
\* state and otherwise sends to whatever peer the PCB has.
Bug_AudioPeerKept == IF conn /\ dataPeer = Any THEN Addr(server) ELSE dataPeer
AudioPeer     == IF conn THEN Addr(server) ELSE dataPeer

\* spudp_send, one encoded block.  The PCB is disconnected after a send that
\* succeeded and left as it is after one that failed.  An unconnected PCB has
\* peer 0.0.0.0, a broadcast address, which udp_sendto_if refuses.
AudioSend(outcome) ==
    /\ ~halted
    /\ outcome \in Outcomes \cup {"failed"}
    /\ outcome = "sent" => AudioPeer # Any
    /\ outcome = "failed" => (AudioPeer = Any \/ ~linkUp \/ "failed" \in SendErrors)
    /\ dataPeer' = IF outcome = "sent" THEN Any ELSE AudioPeer
    /\ out' = IF outcome = "sent" THEN Datagram("audio", AudioPeer) ELSE NoDatagram
    /\ halted' = (outcome = "nopbuf")
    /\ UNCHANGED <<now, conn, server, timers, linkUp, late, linkHistory>>

LinkNext ==
    \/ Tick
    \/ LinkChange
    \/ \E h \in Hosts : ControlInput(h)
    \/ ForwardString
    \/ \E outcome \in Outcomes : ControlSend(outcome)
    \/ ControlSkip
    \/ \E outcome \in Outcomes \cup {"failed"} : AudioSend(outcome)

LinkSpec == LinkInit /\ [][LinkNext]_linkVars

-----------------------------------------------------------------------------
(***************************************************************************)
(* Fairness.  The clock and the main loop keep running, a live server      *)
(* answers a control datagram that reached it, and a send to a server over *)
(* a link that is up does not fail every time it is tried.                 *)
(***************************************************************************)
Answer(h) == h \in asked /\ ControlInput(h)
SyncTo(s) == NextServer = s /\ ControlSend("sent")
Pass      == ControlSkip \/ \E outcome \in Outcomes : ControlSend(outcome)

LinkFairness ==
    /\ WF_linkVars(Tick)
    /\ WF_linkVars(Pass)
    /\ \A s \in {1, 2} : SF_linkVars(SyncTo(s))
    /\ \A h \in LiveServers : SF_linkVars(Answer(h))

LinkLiveSpec == LinkSpec /\ LinkFairness

-----------------------------------------------------------------------------
LinkTypeOK ==
    /\ now \in Clock
    /\ conn \in BOOLEAN
    /\ server \in {1, 2}
    /\ tmSent \in Clock
    /\ tmRecv \in Clock
    /\ dataPeer \in Servers \cup {Any}
    /\ linkUp \in BOOLEAN
    /\ late \in 0 .. MaxPass
    /\ halted \in BOOLEAN
    /\ asked \in SUBSET LiveServers
    /\ out \in [kind : {"none", "control", "audio"}, to : Servers \cup {Any}]
    /\ silence \in 0 .. StaleMax + 1
    /\ stranger \in BOOLEAN

\* The connected state never outlives the last control datagram by more than
\* the receive timeout, one send period and two passes of the main loop, at
\* whatever moment the clock wraps and however many sends fail: the loss of a
\* server is noticed by the test in spudp_control_send, which itself is only
\* reached when the send period has passed.
StaleBound == conn => Elapsed(tmRecv) <= StaleMax

\* While connected, the selected server itself was heard within that bound,
\* unless the last control datagram came from a third host: any datagram on
\* port 5199 refreshes the receive time, and one of a third host then counts
\* as the "last response from server" (speex_udp.c:231).
ServerHeardBound == conn /\ ~stranger => silence <= StaleMax

\* Audio sent in the connected state goes to the server that is connected now,
\* never to one an earlier failed send left in the data PCB.
AudioToConnectedServer ==
    (out.kind = "audio" /\ conn) => out.to = Addr(server)

\* No audio leaves the device in the disconnected state: "errror or we are in
\* DISCONNECTED state" is the comment on the return of spudp_send
\* (speex_udp.c:170).
NoAudioWhenDisconnected == out.kind = "audio" => conn

\* A server that answers is found again and again as long as the link stays up
\* and memory lasts: the device does not settle on a server that is gone.
Reconnects ==
    (LiveServers # {} /\ <>[]linkUp /\ []~halted) => []<>conn
=============================================================================
