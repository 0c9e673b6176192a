-------------------------------- MODULE Dhcp --------------------------------
(***************************************************************************)
(* The DHCP client (src/src/lwip/src/core/dhcp.c), which main starts once  *)
(* when LWIP_DHCP is set (src/src/roip.c:140): the negotiation of an       *)
(* address, its renewal, and what ends its use.                            *)
(*                                                                         *)
(* Time is counted in calls of dhcp_fine_tmr, and all times are scaled     *)
(* down.  There is one server, and it grants the same times again and      *)
(* again; it offers the address it keeps for this client as long as there  *)
(* is one and acknowledges no other.  Answers are lost, late by up to      *)
(* MaxDelay, or come twice.                                                *)
(***************************************************************************)
EXTENDS Integers, FiniteSetsExt

CONSTANTS
    Leasable,       \* the addresses the server gives out
    NoAddr,         \* 0.0.0.0
    Coarse,         \* calls of dhcp_fine_tmr for one of dhcp_coarse_tmr
    TimerMod,       \* t1_timeout and t2_timeout are 16 bits wide
    TriesMod,       \* tries is 8 bits wide
    T1, T2, Lease,  \* the times the server grants
    MaxDelay,       \* an answer comes no later after the request
    LongestWait,    \* no request is repeated later than that
    BackOff,        \* the pause after an address that is in use by another
    RequestTries,   \* 5
    RebindTries,    \* 8
    RebootTries,    \* REBOOT_TRIES
    MaxFaults       \* bound: refusals, failed allocations, link changes

\* The times of a lease in calls of dhcp_coarse_tmr (dhcp_bind).
Rounded(t) == Max({(t + Coarse \div 2) \div Coarse, 1})

\* The server gives T2 soon enough for the client to give up in time: an answer
\* may be late, dhcp_check waits twice, T2 is rounded to calls of dhcp_coarse_tmr,
\* and the last tries take their time.
ASSUME DhcpAssumption ==
    /\ {Coarse, T1, T2, LongestWait, BackOff} \subseteq Nat \ {0}
    /\ {MaxDelay, MaxFaults, RebootTries} \subseteq Nat
    /\ {TimerMod, TriesMod} \subseteq Nat /\ {RequestTries, RebindTries} \subseteq Nat \ {0}
    /\ RequestTries + 1 < TriesMod /\ RebindTries + 1 < TriesMod
    /\ Lease >= MaxDelay + 2 + Coarse * Rounded(T2) + (RebindTries + 1) * LongestWait
    /\ T1 < T2 /\ Rounded(T2) < TimerMod
    /\ Lease \in Nat /\ NoAddr \notin Leasable

VARIABLES
    dhcp,       \* struct dhcp, the interface, and the requests under its xid
    dhcpPhase,  \* calls of dhcp_fine_tmr since the last of dhcp_coarse_tmr
    dhcpFaults, \* faults so far
    server      \* the address kept for the client, and for how long (history)

dhcpVars == <<dhcp, dhcpPhase, dhcpFaults, server>>

\* dhcp_set_state: a new state starts with no tries and no timer.
dhcp_set_state(d, state) ==
    IF d.state = state THEN d ELSE [d EXCEPT !.state = state, !.tries = 0, !.rto = 0]

\* The requests that can still be answered, with their ages.
Message(kind, ip) == [kind |-> kind, ip |-> ip, age |-> 0]
Aged(asked) == {[m EXCEPT !.age = @ + 1] : m \in {n \in asked : n.age < MaxDelay}}

\* When a request is repeated.
Doubled(tries) == IF tries < 6 THEN Min({<<1, 2, 4, 8, 16, 32>>[tries + 1], LongestWait}) ELSE LongestWait
Wait(state, tries) ==
    CASE state \in {"SELECTING", "REQUESTING"} -> Doubled(tries)
      [] state = "RENEWING" -> Min({2 * tries, LongestWait})
      [] state \in {"REBINDING", "REBOOTING", "OFF"} -> Min({tries, LongestWait})
      [] state = "BACKING_OFF" -> BackOff
      [] state = "CHECKING" -> 1

\* dhcp_create_msg and what follows it in all functions that send.  A first try
\* has a new xid; without a pbuf (fails) nothing is sent.
Ask(d, state, kind, ip, fails) ==
    LET e     == dhcp_set_state(d, state)
        tries == (e.tries + 1) % TriesMod
        asked == IF e.tries = 0 THEN {} ELSE e.asked
    IN [e EXCEPT !.tries = tries, !.rto = Wait(state, tries),
                 !.asked = IF fails THEN @ ELSE asked \cup {Message(kind, ip)}]

dhcp_discover(d, fails) ==
    Ask([d EXCEPT !.offered = NoAddr], "SELECTING", "discover", NoAddr, fails)
dhcp_select(d, fails)  == Ask(d, "REQUESTING", "request", d.offered, fails)
dhcp_renew(d, fails)   == Ask(d, "RENEWING", "request", d.ip, fails)
dhcp_rebind(d, fails)  == Ask(d, "REBINDING", "request", d.ip, fails)
dhcp_reboot(d, fails)  == Ask(d, "REBOOTING", "request", d.offered, fails)
dhcp_decline(d, fails) == Ask(d, "BACKING_OFF", "decline", d.ip, fails)

\* dhcp_release.  What is sent names neither the client's address nor, any
\* more, the server: it has no effect there.
Bug_dhcp_release(d, fails) ==
    Ask([d EXCEPT !.offered = NoAddr, !.timed = FALSE], "OFF", "release", NoAddr, fails)
dhcp_release(d, fails) ==
    Ask([d EXCEPT !.offered = NoAddr, !.timed = FALSE, !.ip = NoAddr, !.up = FALSE],
            "OFF", "release", NoAddr, fails)
StartAgain(d, fails) == dhcp_discover(dhcp_release(d, fails), fails)

dhcp_handle_nak(d, fails) ==
    dhcp_discover(dhcp_set_state([d EXCEPT !.ip = NoAddr, !.up = FALSE], "BACKING_OFF"), fails)

\* dhcp_check: the ARP query for the address; the answer is ArpReply.
dhcp_check(d) ==
    LET e == dhcp_set_state(d, "CHECKING")
    IN [e EXCEPT !.tries = @ + 1, !.rto = Wait("CHECKING", e.tries + 1)]

\* dhcp_bind.  timed says that an ACK has set the times; they are 0 otherwise.
dhcp_bind(d) ==
    LET t1 == Rounded(IF d.timed THEN T1 ELSE 0)
        t2 == Rounded(IF d.timed THEN T2 ELSE 0)
    IN dhcp_set_state([d EXCEPT !.t1 = IF t1 >= t2 THEN 0 ELSE t1, !.t2 = t2,
                                !.ip = d.offered, !.up = TRUE], "BOUND")

\* dhcp_timeout.
Bug_dhcp_timeout(d, fails) ==
    CASE d.state \in {"BACKING_OFF", "SELECTING"} -> dhcp_discover(d, fails)
      [] d.state = "REQUESTING" ->
            IF d.tries <= RequestTries THEN dhcp_select(d, fails) ELSE StartAgain(d, fails)
      [] d.state = "CHECKING" -> IF d.tries <= 1 THEN dhcp_check(d) ELSE dhcp_bind(d)
      [] d.state = "RENEWING" -> dhcp_renew(d, fails)
      [] d.state = "REBINDING" ->
            IF d.tries <= RebindTries THEN dhcp_rebind(d, fails) ELSE StartAgain(d, fails)
      [] d.state = "REBOOTING" -> dhcp_reboot(d, fails)
      [] OTHER -> d
dhcp_timeout(d, fails) ==
    CASE d.state \in {"BACKING_OFF", "SELECTING"} -> dhcp_discover(d, fails)
      [] d.state = "REQUESTING" ->
            IF d.tries <= RequestTries THEN dhcp_select(d, fails) ELSE StartAgain(d, fails)
      [] d.state = "CHECKING" -> IF d.tries <= 1 THEN dhcp_check(d) ELSE dhcp_bind(d)
      [] d.state = "RENEWING" -> dhcp_renew(d, fails)
      [] d.state = "REBINDING" ->
            IF d.tries <= RebindTries THEN dhcp_rebind(d, fails) ELSE StartAgain(d, fails)
      [] d.state = "REBOOTING" ->
            IF d.tries < RebootTries THEN dhcp_reboot(d, fails) ELSE dhcp_discover(d, fails)
      [] OTHER -> d

-----------------------------------------------------------------------------
\* dhcp_start; main has set the interface up without an address.
DhcpInit ==
    /\ dhcp = dhcp_discover([state |-> "OFF", tries |-> 0, rto |-> 0, t1 |-> 0, t2 |-> 0,
                             timed |-> FALSE, offered |-> NoAddr, ip |-> NoAddr,
                             up |-> TRUE, asked |-> {}], FALSE)
    /\ dhcpPhase = 0 /\ dhcpFaults = 0
    /\ server = [ip |-> NoAddr, left |-> 0]

\* A fault that happens, or does not.
Fault(happens) ==
    /\ dhcpFaults + (IF happens THEN 1 ELSE 0) <= MaxFaults
    /\ dhcpFaults' = dhcpFaults + (IF happens THEN 1 ELSE 0)

\* dhcp_fine_tmr, while the time goes on for requests and server.
dhcp_fine_tmr(fails) ==
    /\ dhcpPhase < Coarse
    /\ dhcpPhase' = dhcpPhase + 1
    /\ server' = [server EXCEPT !.left = Max({@ - 1, 0})]
    /\ LET d == [dhcp EXCEPT !.asked = Aged(@), !.rto = Max({@ - 1, 0})]
       IN dhcp' = IF dhcp.rto = 1 THEN dhcp_timeout(d, fails) ELSE d
    /\ fails => dhcp.rto = 1
    /\ Fault(fails)

\* dhcp_coarse_tmr with dhcp_t1_timeout and dhcp_t2_timeout.  A timer that is 0
\* is counted down, too, and wraps.
Renewable == {"REQUESTING", "BOUND", "RENEWING"}
Down(t) == (t - 1) % TimerMod
dhcp_coarse_tmr(fails) ==
    /\ dhcpPhase = Coarse
    /\ dhcpPhase' = 0
    /\ LET d2 == [dhcp EXCEPT !.t2 = Down(@)]
           d1 == [d2 EXCEPT !.t1 = Down(@)]
       IN dhcp' = CASE dhcp.t2 = 1 /\ dhcp.state \in Renewable -> dhcp_rebind(d2, fails)
                    [] dhcp.t2 = 1 /\ dhcp.state \notin Renewable -> d2
                    [] dhcp.t2 # 1 /\ dhcp.t1 = 1 /\ dhcp.state \in Renewable -> dhcp_renew(d1, fails)
                    [] OTHER -> d1
    /\ fails => (1 \in {dhcp.t1, dhcp.t2} /\ dhcp.state \in Renewable)
    /\ Fault(fails)
    /\ UNCHANGED server

\* dhcp_recv, a DHCPOFFER.
Offer(ip, fails) ==
    /\ dhcp.state = "SELECTING" /\ \E m \in dhcp.asked : m.kind = "discover"
    /\ server.left > 0 => ip = server.ip
    /\ server' = [server EXCEPT !.ip = ip]
    /\ dhcp' = dhcp_select([dhcp EXCEPT !.offered = ip, !.rto = 0], fails)
    /\ Fault(fails)
    /\ UNCHANGED dhcpPhase

\* dhcp_recv, a DHCPACK to request m; the lease counts from when that was sent.
Ack(m) ==
    IF dhcp.state = "REQUESTING"
    THEN dhcp_check([dhcp EXCEPT !.offered = m.ip, !.timed = TRUE])
    ELSE dhcp_bind(dhcp)
Acknowledge(m) ==
    /\ m \in dhcp.asked /\ m.kind = "request"
    /\ dhcp.state \in {"REQUESTING", "REBOOTING", "REBINDING", "RENEWING"}
    /\ m.ip # NoAddr /\ m.ip = server.ip
    /\ server' = [server EXCEPT !.left = Max({@, Lease - m.age})]
    /\ dhcp' = Ack(m)
    /\ UNCHANGED <<dhcpPhase, dhcpFaults>>

\* dhcp_recv, a DHCPNAK: the server does not keep the address.
Nak(fails) ==
    /\ \E m \in dhcp.asked : m.kind = "request"
    /\ dhcp.state \in {"REQUESTING", "REBOOTING", "REBINDING", "RENEWING"}
    /\ dhcp' = dhcp_handle_nak(dhcp, fails)
    /\ server' = [ip |-> NoAddr, left |-> 0]
    /\ dhcpFaults + (IF fails THEN 2 ELSE 1) <= MaxFaults
    /\ dhcpFaults' = dhcpFaults + (IF fails THEN 2 ELSE 1)
    /\ UNCHANGED dhcpPhase

\* dhcp_arp_reply: another host has the address.  The server hears of it.
ArpReply ==
    /\ dhcp.state = "CHECKING"
    /\ dhcp' = dhcp_decline(dhcp, FALSE)
    /\ server' = [ip |-> NoAddr, left |-> 0]
    /\ Fault(TRUE)
    /\ UNCHANGED dhcpPhase

\* dhcp_network_changed, called by netif_set_link_up.
dhcp_network_changed ==
    /\ LET d == [dhcp EXCEPT !.tries = 0]
       IN dhcp' = CASE dhcp.state \in {"REBINDING", "RENEWING", "BOUND", "REBOOTING"} ->
                            dhcp_reboot([d EXCEPT !.up = FALSE], FALSE)
                    [] dhcp.state = "OFF" -> dhcp
                    [] OTHER -> dhcp_discover(d, FALSE)
    /\ Fault(TRUE)
    /\ UNCHANGED <<dhcpPhase, server>>

DhcpNext ==
    \/ \E fails \in BOOLEAN :
        \/ dhcp_fine_tmr(fails) \/ dhcp_coarse_tmr(fails) \/ Nak(fails)
        \/ \E ip \in Leasable : Offer(ip, fails)
    \/ \E m \in dhcp.asked : Acknowledge(m)
    \/ ArpReply \/ dhcp_network_changed

\* The timers are called, and the server answers both kinds of request if it is
\* asked again and again.
DhcpFairness ==
    /\ WF_dhcpVars(dhcp_fine_tmr(FALSE)) /\ WF_dhcpVars(dhcp_coarse_tmr(FALSE))
    /\ SF_dhcpVars(\E ip \in Leasable : Offer(ip, FALSE))
    /\ SF_dhcpVars(\E m \in dhcp.asked : Acknowledge(m))

DhcpSpec == DhcpInit /\ [][DhcpNext]_dhcpVars /\ DhcpFairness

-----------------------------------------------------------------------------
DhcpTypeOK ==
    /\ dhcp.state \in {"OFF", "SELECTING", "REQUESTING", "CHECKING", "BOUND", "RENEWING",
                       "REBINDING", "REBOOTING", "BACKING_OFF"}
    /\ dhcp.tries \in 0 .. TriesMod - 1 /\ {dhcp.t1, dhcp.t2} \subseteq 0 .. TimerMod - 1
    /\ dhcp.rto \in Nat
    /\ {dhcp.ip, dhcp.offered, server.ip} \subseteq Leasable \cup {NoAddr}

\* The interface uses no address but the one the server keeps for it, and not
\* beyond the end of the lease: "Set the interface down since the address must no
\* longer be used" (dhcp.c:202).  Whatever is lost or late, the client has given
\* up by then.
LeaseHeld ==
    /\ DhcpTypeOK
    /\ (dhcp.up /\ dhcp.ip # NoAddr) => (server.left > 0 /\ dhcp.ip = server.ip)

\* The client has an address again and again, in whatever state a fault has met
\* it.
AddressFound == []<>(dhcp.state = "BOUND")
=============================================================================
