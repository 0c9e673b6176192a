------------------------------- MODULE Etharp -------------------------------
(***************************************************************************)
(* ARP (src/src/lwip/src/netif/etharp.c): the table of Ethernet addresses, *)
(* how it is filled from the frames that arrive, aged, and emptied to make *)
(* room, and where the packets of the IP layer are sent.                   *)
(*                                                                         *)
(* Built without ARP_QUEUEING (an entry holds one packet) and with         *)
(* ETHARP_TRUST_IP_MAC.  Broadcast and multicast packets, whose Ethernet   *)
(* address is computed, are left out.                                      *)
(***************************************************************************)
EXTENDS Integers, FiniteSets, FiniteSetsExt

CONSTANTS
    ArpTableSize,      \* ARP_TABLE_SIZE
    Hosts,          \* addresses of the local network
    Gateway,        \* netif->gw
    Remote,         \* addresses of other networks
    Macs,           \* Ethernet addresses of others
    NoHost,
    ArpMaxAge,         \* ARP_MAXAGE, in calls of etharp_tmr
    RerequestAge,   \* ARP_AGE_REREQUEST_USED
    MaxPending      \* ARP_MAXPENDING

ASSUME ArpAssumption ==
    /\ {ArpTableSize, ArpMaxAge, MaxPending} \subseteq Nat \ {0}
    /\ RerequestAge \in 0 .. ArpMaxAge /\ MaxPending <= ArpMaxAge
    /\ Gateway \in Hosts /\ Remote \cap Hosts = {} /\ NoHost \notin Hosts \cup Macs

VARIABLES
    arp_table,
    etharp_cached_entry,
    frames,     \* the IP frames sent by the last step: whom for, and where to (history)
    heard       \* what was last heard of a host that has a stable entry, and how
                \* many timer calls ago (history)

arpVars == <<arp_table, etharp_cached_entry, frames, heard>>

ArpIndex == 0 .. ArpTableSize - 1
EMPTY == [state |-> "EMPTY", ip |-> NoHost, mac |-> NoHost, ctime |-> 0, q |-> NoHost]
Unheard == [mac |-> NoHost, ago |-> 0]

ArpInit ==
    /\ arp_table = [i \in ArpIndex |-> EMPTY]
    /\ etharp_cached_entry = 0
    /\ frames = {}
    /\ heard = [h \in Hosts |-> Unheard]

-----------------------------------------------------------------------------
Stable(e)  == e.state \in {"STABLE", "REREQUESTING"}
Entries(t, S(_)) == {i \in ArpIndex : S(t[i])}

\* etharp_free_entry: with its queued packet.
Bug_etharp_free_entry(e) == [EMPTY EXCEPT !.q = e.q]
etharp_free_entry(e) == EMPTY

\* The later of the oldest.
OldestEntry(t, S) == Max({i \in S : \A j \in S : t[j].ctime <= t[i].ctime})

\* The entry to be used for a new address: an empty one, or the oldest stable
\* one, or the oldest pending one, if it can be one without a packet.
Slot(t) ==
    LET empty   == Entries(t, LAMBDA e : e.state = "EMPTY")
        stable  == Entries(t, Stable)
        pending == Entries(t, LAMBDA e : e.state = "PENDING" /\ e.q = NoHost)
    IN CASE empty # {}                                   -> Min(empty)
         [] empty = {} /\ stable # {}                    -> OldestEntry(t, stable)
         [] empty = {} /\ stable = {} /\ pending # {}    -> OldestEntry(t, pending)
         [] OTHER                                        -> OldestEntry(t, ArpIndex)

\* etharp_find_entry: the entry of an address, or, if one is to be made, the
\* slot for it.
Match(t, ip) == Entries(t, LAMBDA e : e.state # "EMPTY" /\ e.ip = ip)

Place(t, ip, hard) ==
    CASE Match(t, ip) # {}           -> {Min(Match(t, ip))}
      [] Match(t, ip) = {} /\ hard   -> {Slot(t)}
      [] OTHER                       -> {}

Recycled(t, i, ip) ==
    IF Match(t, ip) # {} THEN t[i] ELSE [etharp_free_entry(t[i]) EXCEPT !.ip = ip]

-----------------------------------------------------------------------------
\* What was heard stays of interest while there is an entry for it.
Remember(t, h) ==
    heard' = [a \in Hosts |-> IF Entries(t, LAMBDA e : Stable(e) /\ e.ip = a) = {} THEN Unheard ELSE h[a]]

\* etharp_update_arp_entry: the packet that waited is sent.
etharp_update_arp_entry(ip, mac, hard) ==
    LET place == Place(arp_table, ip, hard)
        e(i)  == Recycled(arp_table, i, ip)
    IN /\ arp_table' = [i \in ArpIndex |->
             IF i \in place
             THEN [e(i) EXCEPT !.state = "STABLE", !.mac = mac, !.ctime = 0, !.q = NoHost]
             ELSE arp_table[i]]
       /\ frames' = {[for |-> e(i).q, to |-> mac] : i \in {j \in place : e(j).q # NoHost}}
       /\ Remember(arp_table', [heard EXCEPT ![ip] = [mac |-> mac, ago |-> 0]])
       /\ UNCHANGED etharp_cached_entry

\* ethernet_input, to etharp_ip_input for a packet from the local network and to
\* etharp_arp_input; an ARP packet for us makes an entry.
ethernet_input == \E ip \in Hosts, mac \in Macs, for_us \in BOOLEAN :
                      etharp_update_arp_entry(ip, mac, for_us)

\* etharp_output_to_arp_index: an entry about to expire is asked for again, if
\* there is memory for the request.
Used(e, requested) ==
    IF e.state = "STABLE" /\ e.ctime >= RerequestAge /\ requested
    THEN [e EXCEPT !.state = "REREQUESTING"] ELSE e

etharp_output_to_arp_index(i, ip, requested) ==
    /\ arp_table' = [arp_table EXCEPT ![i] = Used(@, requested)]
    /\ frames' = {[for |-> ip, to |-> arp_table[i].mac]}
    /\ etharp_cached_entry' = i
    /\ UNCHANGED heard

\* etharp_query: the packet waits, instead of one that waited before, if it
\* could be copied.  The time of a pending entry runs on.
Bug_Queued(e, ip, copied) ==
    [e EXCEPT !.state = "PENDING", !.q = IF copied THEN ip ELSE @, !.ctime = 0]
Queued(e, ip, copied) ==
    [e EXCEPT !.state = "PENDING", !.q = IF copied THEN ip ELSE @]

etharp_query(ip, copied) ==
    /\ arp_table' = [i \in ArpIndex |->
          IF i \in Place(arp_table, ip, TRUE) THEN Queued(Recycled(arp_table, i, ip), ip, copied)
          ELSE arp_table[i]]
    /\ frames' = {}
    /\ Remember(arp_table', heard)
    /\ UNCHANGED etharp_cached_entry

\* etharp_output: through the cached entry or the first that fits.
Hop(dest) == IF dest \in Remote THEN Gateway ELSE dest

etharp_output(dest) ==
    LET ip   == Hop(dest)
        fits == Entries(arp_table, LAMBDA e : Stable(e) /\ e.ip = ip)
    IN \/ /\ fits # {}
          /\ \E requested \in BOOLEAN :
               etharp_output_to_arp_index(
                   IF etharp_cached_entry \in fits THEN etharp_cached_entry ELSE Min(fits), ip, requested)
       \/ /\ fits = {}
          /\ \E copied \in BOOLEAN : etharp_query(ip, copied)

-----------------------------------------------------------------------------
\* etharp_tmr
Aged(e) ==
    LET older   == [e EXCEPT !.ctime = @ + 1]
        expired == \/ older.ctime >= ArpMaxAge
                   \/ e.state = "PENDING" /\ older.ctime >= MaxPending
    IN CASE e.state = "EMPTY"                         -> e
         [] e.state # "EMPTY" /\ expired              -> etharp_free_entry(e)
         [] e.state = "REREQUESTING" /\ ~expired      -> [older EXCEPT !.state = "STABLE"]
         [] OTHER                                     -> older

etharp_tmr ==
    /\ arp_table' = [i \in ArpIndex |-> Aged(arp_table[i])]
    /\ frames' = {}
    /\ Remember(arp_table', [h \in Hosts |-> [heard[h] EXCEPT !.ago = Min({@ + 1, ArpMaxAge})]])
    /\ UNCHANGED etharp_cached_entry

\* etharp_cleanup_netif, when the interface goes down
etharp_cleanup_netif ==
    /\ arp_table' = [i \in ArpIndex |-> etharp_free_entry(arp_table[i])]
    /\ frames' = {}
    /\ Remember(arp_table', heard)
    /\ UNCHANGED etharp_cached_entry

ArpNext ==
    \/ ethernet_input
    \/ \E dest \in Hosts \cup Remote : etharp_output(dest)
    \/ etharp_tmr
    \/ etharp_cleanup_netif

\* The timer of timers.c
ArpFairness == WF_arpVars(etharp_tmr)
ArpSpec == ArpInit /\ [][ArpNext]_arpVars /\ ArpFairness

-----------------------------------------------------------------------------
ArpTypeOK ==
    /\ arp_table \in [ArpIndex -> [state : {"EMPTY", "PENDING", "STABLE", "REREQUESTING"},
                                ip : Hosts \cup {NoHost}, mac : Macs \cup {NoHost},
                                ctime : 0 .. ArpMaxAge - 1, q : Hosts \cup {NoHost}]]
    /\ etharp_cached_entry \in ArpIndex
    /\ frames \subseteq [for : Hosts, to : Macs]
    /\ heard \in [Hosts -> [mac : Macs \cup {NoHost}, ago : 0 .. ArpMaxAge]]

\* A packet, also one that waited, goes to the Ethernet address last heard of
\* the host it is for, and never to one heard ArpMaxAge timer calls ago, however
\* entries are recycled, updated and asked for again ("the time an ARP entry
\* stays valid after its last update").
SentToHeard ==
    /\ ArpTypeOK
    /\ \A f \in frames : f.to = heard[f.for].mac /\ heard[f.for].ago < ArpMaxAge

\* A packet never waits for ever: the request for its address is answered or
\* given up, also when more packets for the address keep coming.
Waiting(h) == \E i \in ArpIndex : arp_table[i].state = "PENDING" /\ arp_table[i].ip = h
PendingEnds == \A h \in Hosts : []<>~Waiting(h)
=============================================================================
