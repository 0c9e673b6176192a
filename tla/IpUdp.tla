-------------------------------- MODULE IpUdp --------------------------------
(***************************************************************************)
(* UDP over IP on the one interface (src/src/lwip/src/core/udp.c,          *)
(* ipv4/ip.c, ipv4/icmp.c, netif.c): the list of UDP PCBs, which of them   *)
(* gets a datagram, what a datagram carries that is sent, and what is      *)
(* answered to a packet nobody wants.                                      *)
(*                                                                         *)
(* A packet has right lengths and checksums, no options and is in one      *)
(* piece: any other is freed before anything else is looked at, or put     *)
(* together first (IpReass).  There is no raw PCB: the program makes none.  *)
(* The interface is up: netif_set_up is called before the first PCB is     *)
(* made and netif_set_down by nobody.                                      *)
(***************************************************************************)
EXTENDS Integers, Sequences, FiniteSetsExt

CONSTANTS
    UdpPcbs,        \* the PCBs of the pool
    Own,            \* the addresses the interface is given, all of one network
    Peers,          \* hosts of that network
    AnyAddr,        \* 0.0.0.0
    Ones,           \* 255.255.255.255
    Subnet,         \* the broadcast address of the network
    Group,          \* a multicast address
    Nobody,
    KnownPorts,
    PortStart,      \* UDP_LOCAL_PORT_RANGE_START
    PortEnd,        \* UDP_LOCAL_PORT_RANGE_END
    PeerPort        \* the port of the peers

Ports == KnownPorts \cup PortStart .. PortEnd

\* A PCB: its address and port, those of the peer, and whether it is connected.
Pcb == [ip : Own \cup {AnyAddr}, port : Ports \cup {0}, rip : Peers \cup {AnyAddr},
        rport : {0, PeerPort}, conn : BOOLEAN]

ASSUME UdpAssumption ==
    /\ PortStart \in Nat \ {0} /\ PortEnd \in Nat /\ PortStart <= PortEnd
    /\ KnownPorts \subseteq 1 .. PortStart - 1 /\ PeerPort \in Nat \ {0}
    /\ Cardinality({AnyAddr, Ones, Subnet, Group}) = 4
    /\ Own \cap Peers = {} /\ (Own \cup Peers) \cap {AnyAddr, Ones, Subnet, Group} = {}
    /\ Nobody \notin UdpPcbs \cup Pcb

VARIABLES
    pcb,        \* the PCBs; Nobody for one that is in the pool
    udp_pcbs,   \* the list
    udp_port,   \* the last local port that was chosen
    ip_addr     \* of the interface

udpVars == <<pcb, udp_pcbs, udp_port, ip_addr>>

Listed == {udp_pcbs[i] : i \in DOMAIN udp_pcbs}
Used   == {p \in UdpPcbs : pcb[p] # Nobody}

\* The place on the list of the first of some PCBs.
PlaceOf(some) == Min({i \in DOMAIN udp_pcbs : udp_pcbs[i] \in some})

\* A PCB as udp_new leaves it.
Fresh == [ip |-> AnyAddr, port |-> 0, rip |-> AnyAddr, rport |-> 0, conn |-> FALSE]

UdpInit ==
    /\ pcb = [p \in UdpPcbs |-> Nobody]
    /\ udp_pcbs = <<>>
    /\ udp_port = PortStart
    /\ ip_addr \in Own

-----------------------------------------------------------------------------
\* ip_addr_isbroadcast on an interface with address ip.
ip_addr_isbroadcast(a, ip) == a \in {AnyAddr, Ones} \/ (a = Subnet /\ a # ip)

\* ip_addr_netcmp with an address of our network.
OurNet(a) == a \in Own \cup Peers \cup {Subnet}

\* udp_new_port: the next port, round the range, that no PCB has; 0 if none.
Round(k) == PortStart + ((udp_port - PortStart + k) % (PortEnd - PortStart + 1))
FreeAt   == {k \in 1 .. PortEnd - PortStart + 1 :
                \A p \in Listed : pcb[p].port # Round(k)}
udp_new_port == IF FreeAt = {} THEN 0 ELSE Round(Min(FreeAt))

\* udp_bind: another PCB has the port, with this address or one of them any.
Bug_Taken(p, ip, port) ==
    \E q \in Listed \ {p} : pcb[q].port = port /\ pcb[q].ip \in {AnyAddr, ip}
Taken(p, ip, port) ==
    \E q \in Listed \ {p} :
        pcb[q].port = port /\ (ip = AnyAddr \/ pcb[q].ip \in {AnyAddr, ip})

\* udp_bind.  The address is set before a port is looked for; a PCB that is not
\* on the list yet comes first on it.
BoundPort(port) == IF port = 0 THEN udp_new_port ELSE port
BindOk(p, ip, port) == ~Taken(p, ip, port) /\ BoundPort(port) # 0

udp_bind(p, ip, port, remote) ==
    IF BindOk(p, ip, port)
    THEN /\ pcb' = [pcb EXCEPT ![p] = [remote EXCEPT !.ip = ip, !.port = BoundPort(port)]]
         /\ udp_pcbs' = (IF p \in Listed THEN <<>> ELSE <<p>>) \o udp_pcbs
         /\ udp_port' = IF port = 0 THEN udp_new_port ELSE udp_port
    ELSE UNCHANGED <<pcb, udp_pcbs, udp_port>>

-----------------------------------------------------------------------------
\* udp_new: PCBs come from a pool.
New(p) ==
    /\ pcb[p] = Nobody
    /\ pcb' = [pcb EXCEPT ![p] = Fresh]
    /\ UNCHANGED <<udp_pcbs, udp_port, ip_addr>>

Bind(p, ip, port) ==
    /\ p \in Used
    /\ udp_bind(p, ip, port, pcb[p])
    /\ UNCHANGED ip_addr

\* udp_connect: an unbound PCB is bound to a port of the range first.
Connect(p, rip) ==
    /\ p \in Used
    /\ LET connected == [pcb[p] EXCEPT !.rip = rip, !.rport = PeerPort, !.conn = TRUE]
       IN IF pcb[p].port = 0
          THEN udp_bind(p, pcb[p].ip, 0, connected)
          ELSE /\ pcb' = [pcb EXCEPT ![p] = connected]
               /\ UNCHANGED <<udp_pcbs, udp_port>>
    /\ UNCHANGED ip_addr

Disconnect(p) ==
    /\ p \in Used
    /\ pcb' = [pcb EXCEPT ![p] = [@ EXCEPT !.rip = AnyAddr, !.rport = 0, !.conn = FALSE]]
    /\ UNCHANGED <<udp_pcbs, udp_port, ip_addr>>

\* udp_remove: off the list, back to the pool.
Unlisted(p) ==
    IF p \notin Listed THEN udp_pcbs
    ELSE SubSeq(udp_pcbs, 1, PlaceOf({p}) - 1)
           \o SubSeq(udp_pcbs, PlaceOf({p}) + 1, Len(udp_pcbs))

Remove(p) ==
    /\ p \in Used
    /\ udp_pcbs' = Unlisted(p)
    /\ pcb' = [pcb EXCEPT ![p] = Nobody]
    /\ UNCHANGED <<udp_port, ip_addr>>

\* udp_sendto_if: the address of the PCB may be an old one of the interface.
Bug_Stale(p) == FALSE
Stale(p) == pcb[p].ip \notin {AnyAddr, ip_addr}

\* The source address of a datagram that PCB p may send (at most one).
SourceOf(p) ==
    IF Stale(p) THEN {}
    ELSE {IF pcb[p].ip = AnyAddr THEN ip_addr ELSE pcb[p].ip}

\* udp_sendto: a PCB that has no port is bound first.  What is sent leaves no
\* trace here.
SendTo(p) ==
    /\ p \in Used /\ pcb[p].port = 0
    /\ udp_bind(p, pcb[p].ip, 0, pcb[p])
    /\ UNCHANGED ip_addr

-----------------------------------------------------------------------------
\* udp_input.  The PCB's own address and port are those of datagram d, or d is
\* a broadcast of the network of that address.
LocalMatch(p, d) ==
    /\ pcb[p].port = d.dport
    /\ \/ pcb[p].ip \in {AnyAddr, d.dst}
       \/ ip_addr_isbroadcast(d.dst, ip_addr) /\ OurNet(d.dst)

Perfect(p, d) ==
    LocalMatch(p, d) /\ pcb[p].rport = d.sport /\ pcb[p].rip \in {AnyAddr, d.src}

\* The first PCB of the list that is connected to the sender, or else the
\* first that is not connected at all.
Bug_Unconnected(p, d) == LocalMatch(p, d)
Unconnected(p, d) == LocalMatch(p, d) /\ ~pcb[p].conn
Receiver(d) ==
    LET perfect     == {p \in Listed : Perfect(p, d)}
        unconnected == {p \in Listed : Unconnected(p, d)}
    IN IF perfect # {} THEN udp_pcbs[PlaceOf(perfect)]
       ELSE IF unconnected # {} THEN udp_pcbs[PlaceOf(unconnected)]
       ELSE Nobody

\* ip_input: the interface takes its address and broadcasts, and nothing that
\* comes from a broadcast or multicast address.
Accepts(ip, d) ==
    /\ d.dst = ip \/ ip_addr_isbroadcast(d.dst, ip)
    /\ ~ip_addr_isbroadcast(d.src, ip) /\ d.src # Group

\* udp_input: a PCB found by its peer is moved to the front of the list.  The
\* receive functions of this program make no call that changes a PCB.
Input(d) ==
    /\ Accepts(ip_addr, d)
    /\ LET p == Receiver(d)
       IN /\ p # Nobody /\ Perfect(p, d) /\ p # Head(udp_pcbs)
          /\ udp_pcbs' = <<p>> \o Unlisted(p)
    /\ UNCHANGED <<pcb, udp_port, ip_addr>>

\* What the stack at address ip answers to packet d: the kind of the answer, or
\* Nobody.  open says that a PCB takes it.
\* icmp_input answers a request; ip_input and udp_input refuse with
\* icmp_dest_unreach what is for this address; tcp_input resets.
Bug_AnswerTo(ip, open, d) ==
    IF ~Accepts(ip, d) \/ open \/ ip_addr_isbroadcast(d.dst, ip) THEN Nobody
    ELSE [echo |-> "reply", reply |-> "error", error |-> "error", udp |-> "error",
          other |-> "error", tcp |-> "rst", rst |-> Nobody][d.kind]
AnswerTo(ip, open, d) ==
    IF ~Accepts(ip, d) \/ open \/ ip_addr_isbroadcast(d.dst, ip) THEN Nobody
    ELSE [echo |-> "reply", reply |-> Nobody, error |-> Nobody, udp |-> "error",
          other |-> "error", tcp |-> "rst", rst |-> Nobody][d.kind]

-----------------------------------------------------------------------------
\* netif_set_ipaddr.  TCP connections of the old address are aborted (Abort in
\* TcpPcbs); UDP PCBs are not told.
SetAddress(ip) ==
    /\ ip_addr # ip
    /\ ip_addr' = ip
    /\ UNCHANGED <<pcb, udp_pcbs, udp_port>>

Datagrams ==
    [kind : {"udp"}, src : Peers, sport : {0, PeerPort}, dst : Own \cup {Ones, Subnet},
     dport : Ports]

UdpNext ==
    \/ \E p \in UdpPcbs :
        \/ New(p) \/ Disconnect(p) \/ SendTo(p) \/ Remove(p)
        \/ \E ip \in Own \cup {AnyAddr}, port \in KnownPorts \cup {0} : Bind(p, ip, port)
        \/ \E rip \in Peers : Connect(p, rip)
    \/ \E d \in Datagrams : Input(d)
    \/ \E ip \in Own : SetAddress(ip)

UdpSpec == UdpInit /\ [][UdpNext]_udpVars

-----------------------------------------------------------------------------
UdpTypeOK ==
    /\ pcb \in [UdpPcbs -> Pcb \cup {Nobody}]
    /\ udp_pcbs \in Seq(UdpPcbs)
    /\ udp_port \in PortStart .. PortEnd
    /\ ip_addr \in Own

\* The list holds every PCB that has a port, once, and no other ("pcb may occur
\* at most once in active list", udp.c:780), and no two of them can claim a
\* datagram that is sent to an address of this host: they differ in port or in
\* address, and any is no address of its own (udp_bind, udp_connect, udp_sendto,
\* udp_remove).
OnePerAddress ==
    /\ UdpTypeOK
    /\ \A i, j \in DOMAIN udp_pcbs : i # j => udp_pcbs[i] # udp_pcbs[j]
    /\ Listed = {p \in Used : pcb[p].port # 0}
    /\ \A p, q \in Listed : (p # q /\ pcb[p].port = pcb[q].port) =>
            (pcb[p].ip # pcb[q].ip /\ AnyAddr \notin {pcb[p].ip, pcb[q].ip})

\* A datagram goes to a PCB that is connected to its sender if there is one, to
\* an unconnected one if there is one, and else to nobody; never to one that is
\* connected to another (udp.c:225-228), in whatever order the list is.
ToItsReceiver ==
    \A d \in Datagrams :
        LET matching == {p \in Listed : LocalMatch(p, d)}
            sender(p) == pcb[p].conn /\ pcb[p].rip = d.src /\ pcb[p].rport = d.sport
            p == Receiver(d)
        IN /\ p = Nobody <=> \A q \in matching : pcb[q].conn /\ ~sender(q)
           /\ p # Nobody =>
                /\ p \in matching
                /\ pcb[p].conn => sender(p)
                /\ ~pcb[p].conn => (d.sport = 0 \/ \A q \in matching : ~sender(q))

\* What is sent bears the address that the interface has now, though a PCB may
\* be bound to one it had before ("this could be an old address if
\* netif->ip_addr has changed", udp.c:632).
SentFromHere ==
    \A p \in Used : SourceOf(p) \subseteq {ip_addr}

\* No answer is itself answered, by this device or by another with the same
\* stack, and no broadcast is answered at all: what nobody wants dies out.
AnswersEnd ==
    \A kind \in {"echo", "reply", "error", "udp", "other", "tcp", "rst"},
       src \in Peers \cup {AnyAddr, Ones, Subnet, Group}, dst \in Own \cup {AnyAddr, Ones, Subnet, Group} :
        LET answer == AnswerTo(ip_addr, FALSE, [kind |-> kind, src |-> src, dst |-> dst])
        IN answer # Nobody =>
            /\ src \in Peers /\ dst = ip_addr
            /\ AnswerTo(src, FALSE, [kind |-> answer, src |-> dst, dst |-> src]) = Nobody
=============================================================================
