------------------------------- MODULE Autoip -------------------------------
(***************************************************************************)
(* AutoIP (src/src/lwip/src/core/ipv4/autoip.c): hosts on one link choose  *)
(* their own addresses, probe for them, announce and defend them.  All     *)
(* hosts run this code; what etharp_arp_input adds to it, the answer to a  *)
(* request for one's own address, is part of FrameArrives.                 *)
(*                                                                         *)
(* Time is counted in calls of autoip_tmr, every host counts its own.  A   *)
(* call comes every 100 ms; a frame is delivered to all other hosts, and   *)
(* answered, long before any host's next call, or it is lost.              *)
(***************************************************************************)
EXTENDS Integers

CONSTANTS
    Hosts,
    Seed,               \* LWIP_AUTOIP_CREATE_SEED_ADDR of a host, less the first address
    FirstWaits,         \* the random waits before the first probe
    ProbeWaits,         \* those between probes
    AnnounceWait, AnnounceInterval, DefendInterval, RateLimitInterval,
    ProbeNum, AnnounceNum, MaxConflicts,
    MaxLost,            \* bound: frames that are lost or cannot be allocated
    MaxChanges          \* bound: clients started and stopped, link changes

ASSUME AutoipAssumption ==
    /\ Seed \in [Hosts -> Nat] /\ \A h \in Hosts : Seed[h] < 65536
    /\ FirstWaits \cup ProbeWaits \subseteq Nat
    /\ {AnnounceWait, AnnounceInterval, RateLimitInterval} \subseteq Nat
    /\ {DefendInterval, MaxConflicts, MaxLost, MaxChanges} \subseteq Nat
    /\ {ProbeNum, AnnounceNum} \subseteq Nat \ {0}

VARIABLES
    autoip,         \* struct autoip of each host, its address and interface
    frames,         \* ARP frames on their way, one for each host that gets it
    lostFrames,     \* frames lost so far
    hostChanges     \* starts, stops and link changes so far

autoipVars == <<autoip, frames, lostFrames, hostChanges>>

NoIp == 0

\* autoip_create_addr: the last 16 bits of the address, 1.0 to 254.255.
autoip_create_addr(h, tried) ==
    LET addr == (256 + Seed[h] + tried) % 65536
    IN IF addr < 256 THEN addr + 65024 ELSE IF addr > 65279 THEN addr - 65024 ELSE addr

\* autoip_start_probing.
autoip_start_probing(a, wait) ==
    [a EXCEPT !.state = "PROBING", !.sent_num = 0,
              !.ttw = IF a.tried_llipaddr > MaxConflicts THEN RateLimitInterval ELSE wait]

\* autoip_start: the interface is down and without an address.
autoip_start(h, a, wait) ==
    autoip_start_probing(
        [a EXCEPT !.up = FALSE, !.ip = NoIp, !.lastconflict = 0,
                  !.llipaddr = autoip_create_addr(h, a.tried_llipaddr)], wait)

\* autoip_restart: tried_llipaddr is a byte.
autoip_restart(h, a, wait) ==
    autoip_start(h, [a EXCEPT !.tried_llipaddr = (@ + 1) % 256], wait)

\* What h sends, to all others that are on the link (etharp_raw, broadcast).
Frame(h, k, sip, dip, request) == [from |-> h, to |-> k, sip |-> sip, dip |-> dip, request |-> request]
Sent(h, sip, dip, request) ==
    IF autoip[h].link
    THEN {Frame(h, k, sip, dip, request) : k \in {j \in Hosts \ {h} : autoip[j].link}}
    ELSE {}
ProbeOf(h, a)    == Sent(h, NoIp, a.llipaddr, TRUE)
AnnounceOf(h, a) == Sent(h, a.llipaddr, a.llipaddr, TRUE)

\* Before the address is taken; from then on it is defended.
Early(a) == a.state = "PROBING" \/ (a.state = "ANNOUNCING" /\ a.sent_num = 0)

-----------------------------------------------------------------------------
\* No client yet: autoip is NULL, as after autoip_set_struct it is all zeros.
AutoipInit ==
    /\ autoip = [h \in Hosts |->
                    [state |-> "OFF", sent_num |-> 0, ttw |-> 0, lastconflict |-> 0, tried_llipaddr |-> 0,
                     llipaddr |-> NoIp, ip |-> NoIp, up |-> FALSE, link |-> TRUE]]
    /\ frames = {} /\ lostFrames = 0 /\ hostChanges = 0

\* Frames go out, or cannot be allocated, which is not noticed.
Send(out, fails) ==
    /\ fails => lostFrames < MaxLost
    /\ lostFrames' = lostFrames + (IF fails THEN 1 ELSE 0)
    /\ frames' = frames \cup (IF fails THEN {} ELSE out)

\* autoip_tmr, in all of its branches: a conflict is forgotten in time.
Later(a) == [a EXCEPT !.lastconflict = IF @ > 0 THEN @ - 1 ELSE 0]

Count(h) ==
    LET a == Later(autoip[h])
    IN /\ frames = {}
       /\ a.ttw > 0 \/ a.state \in {"OFF", "BOUND"}
       /\ autoip' = [autoip EXCEPT ![h] =
                        [a EXCEPT !.ttw = IF a.state \in {"OFF", "BOUND"} THEN @ ELSE @ - 1]]
       /\ UNCHANGED <<frames, lostFrames, hostChanges>>

Probe(h, fails) ==
    LET a == Later(autoip[h])
    IN /\ frames = {}
       /\ a.state = "PROBING" /\ a.ttw = 0 /\ a.sent_num < ProbeNum
       /\ \E wait \in ProbeWaits :
            autoip' = [autoip EXCEPT ![h] = [a EXCEPT !.sent_num = @ + 1, !.ttw = wait]]
       /\ Send(ProbeOf(h, a), fails)
       /\ UNCHANGED hostChanges

Probed(h) ==
    LET a == Later(autoip[h])
    IN /\ frames = {}
       /\ a.state = "PROBING" /\ a.ttw = 0 /\ a.sent_num >= ProbeNum
       /\ autoip' = [autoip EXCEPT ![h] =
                        [a EXCEPT !.state = "ANNOUNCING", !.sent_num = 0, !.ttw = AnnounceWait]]
       /\ UNCHANGED <<frames, lostFrames, hostChanges>>

\* autoip_bind, when it is the first: netif_set_up announces the address.
Bound(a) == IF a.sent_num = 0 THEN [a EXCEPT !.ip = a.llipaddr, !.up = TRUE] ELSE a
Announced(a) ==
    IF a.sent_num + 1 >= AnnounceNum
    THEN [a EXCEPT !.state = "BOUND", !.sent_num = 0, !.ttw = 0]
    ELSE [a EXCEPT !.sent_num = @ + 1, !.ttw = AnnounceInterval]

Announce(h, fails) ==
    LET a == Later(autoip[h])
    IN /\ frames = {}
       /\ a.state = "ANNOUNCING" /\ a.ttw = 0
       /\ autoip' = [autoip EXCEPT ![h] = Announced(Bound(a))]
       /\ Send(AnnounceOf(h, a), fails)
       /\ UNCHANGED hostChanges

autoip_tmr(h) ==
    Count(h) \/ Probed(h) \/ \E fails \in BOOLEAN : Probe(h, fails) \/ Announce(h, fails)

\* autoip_arp_reply: no conflict, one that makes the host look for another
\* address, or one that it answers with an announcement.
Conflict(a, f) ==
    /\ a.state # "OFF"
    /\ f.sip = a.llipaddr \/ (Early(a) /\ f.dip = a.llipaddr)
Retreats(a)  == Early(a) \/ a.lastconflict > 0
Defended(a)  == [a EXCEPT !.lastconflict = DefendInterval]

\* etharp_arp_input: a request for the address of the interface is answered to
\* all, the address being link-local.
Reply(h, a, f) ==
    IF f.request /\ a.ip # NoIp /\ f.dip = a.ip THEN Sent(h, a.ip, f.sip, FALSE) ELSE {}

FrameArrives(f, fails) ==
    LET h == f.to
        a == autoip[h]
    IN /\ autoip' \in {[autoip EXCEPT ![h] = b] :
                        b \in IF ~Conflict(a, f) THEN {a}
                              ELSE IF Retreats(a) THEN {autoip_restart(h, a, wait) : wait \in FirstWaits}
                              ELSE {Defended(a)}}
       /\ fails => lostFrames < MaxLost /\ Conflict(a, f) /\ ~Retreats(a)
       /\ lostFrames' = lostFrames + (IF fails THEN 1 ELSE 0)
       /\ frames' = (frames \ {f}) \cup Reply(h, autoip'[h], f)
                        \cup (IF Conflict(a, f) /\ ~Retreats(a) /\ ~fails THEN AnnounceOf(h, a) ELSE {})
       /\ UNCHANGED hostChanges

\* A frame that does not reach one of the hosts.
LoseFrame(f) ==
    /\ lostFrames < MaxLost
    /\ lostFrames' = lostFrames + 1 /\ frames' = frames \ {f}
    /\ UNCHANGED <<autoip, hostChanges>>

Change == hostChanges < MaxChanges /\ hostChanges' = hostChanges + 1 /\ UNCHANGED lostFrames

\* The user starts the client, once more if it runs, or stops it.
StartClient(h) ==
    /\ Change
    /\ \E wait \in FirstWaits : autoip' = [autoip EXCEPT ![h] = autoip_start(h, autoip[h], wait)]
    /\ UNCHANGED frames
autoip_stop(h) ==
    /\ Change
    /\ autoip[h].state # "OFF"
    /\ autoip' = [autoip EXCEPT ![h] = [@ EXCEPT !.state = "OFF", !.up = FALSE]]
    /\ UNCHANGED frames

\* netif_set_link_down, netif_set_link_up with autoip_network_changed.
LinkDown(h) ==
    /\ Change
    /\ autoip[h].link
    /\ autoip' = [autoip EXCEPT ![h] = [@ EXCEPT !.link = FALSE]]
    /\ frames' = {f \in frames : f.to # h}
Bug_autoip_network_changed(a) ==
    IF a.state \in {"OFF", "BOUND"} THEN {a}
    ELSE {autoip_start_probing([a EXCEPT !.up = FALSE], wait) : wait \in FirstWaits}
autoip_network_changed(a) ==
    IF a.state = "OFF" THEN {a}
    ELSE {autoip_start_probing([a EXCEPT !.up = FALSE], wait) : wait \in FirstWaits}
LinkUp(h) ==
    /\ Change
    /\ ~autoip[h].link
    /\ \E a \in autoip_network_changed(autoip[h]) :
            autoip' = [autoip EXCEPT ![h] = [a EXCEPT !.link = TRUE]]
    /\ UNCHANGED frames

AutoipNext ==
    \/ \E h \in Hosts : autoip_tmr(h)
    \/ \E f \in frames : LoseFrame(f) \/ \E fails \in BOOLEAN : FrameArrives(f, fails)
    \/ \E h \in Hosts : StartClient(h) \/ autoip_stop(h) \/ LinkDown(h) \/ LinkUp(h)

\* The timer goes on at every host, and a frame that is not lost arrives.
AutoipSpec ==
    /\ AutoipInit /\ [][AutoipNext]_autoipVars
    /\ \A h \in Hosts : WF_autoipVars(autoip_tmr(h))
    /\ WF_autoipVars(\E f \in frames : FrameArrives(f, FALSE))

-----------------------------------------------------------------------------
LinkLocal == {x \in Nat : x = NoIp \/ (x >= 256 /\ x < 65280)}

HostType ==
    [state : {"OFF", "PROBING", "ANNOUNCING", "BOUND"}, sent_num : Nat, ttw : Nat,
     lastconflict : 0..DefendInterval, tried_llipaddr : 0..255, llipaddr : LinkLocal,
     ip : LinkLocal, up : BOOLEAN, link : BOOLEAN]

FrameType == [from : Hosts, to : Hosts, sip : LinkLocal, dip : LinkLocal, request : BOOLEAN]

AutoipTypeOK ==
    /\ autoip \in [Hosts -> HostType] /\ frames \subseteq FrameType
    /\ lostFrames \in 0..MaxLost /\ hostChanges \in 0..MaxChanges

\* Two hosts on the link use the same address only if at least as many frames were
\* lost as a host sends probes: hosts that probe, announce, defend and give up an
\* address at any time, with links that come and go, do not share one
\* (autoip_arp_reply, autoip_tmr).
OneUser ==
    (lostFrames < ProbeNum) =>
        \A g, h \in Hosts :
            /\ autoip[g].up /\ autoip[g].link
            /\ autoip[h].up /\ autoip[h].link
            /\ autoip[g].ip = autoip[h].ip
            => g = h

\* A host that looks for an address gets one, or is stopped: hosts that want the
\* same address do not chase each other for ever (autoip_restart).
Settles ==
    \A h \in Hosts : []<>(autoip[h].state \in {"OFF", "BOUND"})
=============================================================================
