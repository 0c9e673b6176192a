------------------------------- MODULE MCStack -------------------------------
(***************************************************************************)
(* What the stack keeps between frames and gives up in time: the rings of  *)
(* the Ethernet driver, the list of timers, the ARP table, the fragments   *)
(* waiting for others and the names asked for.  The modules share no       *)
(* variable, so a behaviour runs one of them, its part, and leaves the     *)
(* others where they start; there rings and tables are empty, and their    *)
(* timers have nothing to do.  The TCP timer has a period of 2 units of    *)
(* time, that of reassembly 3, that of ARP 4.                              *)
(***************************************************************************)
EXTENDS EmacRx, EmacTx, SysTimeouts, Etharp, IpReass, Dns, TLC

CONSTANTS Arp, Reass

VARIABLE part

MCStartup == <<Reass, Arp>>
MCPeriod  == (Tcp :> 2) @@ (Reass :> 3) @@ (Arp :> 4)

MCInit ==
    /\ part \in {"rx", "tx", "timers", "arp", "reass", "dns"}
    /\ RxInit /\ TxInit /\ TimersInit /\ ArpInit /\ ReassInit /\ DnsInit
    /\ (part # "timers") => now = 0
    /\ (part # "rx") => rxb = CHOOSE f \in [RxDesc -> RxPbufs] : Setup(RxPbufs, f)

ringVars  == <<rxVars, txVars>>
tableVars == <<arpVars, reassVars, dnsVars>>

MCNext ==
    \/ part = "rx" /\ RxNext /\ UNCHANGED <<part, txVars, timersVars, tableVars>>
    \/ part = "tx" /\ TxNext /\ UNCHANGED <<part, rxVars, timersVars, tableVars>>
    \/ part = "timers" /\ TimersNext /\ UNCHANGED <<part, ringVars, tableVars>>
    \/ part = "arp" /\ ArpNext /\ UNCHANGED <<part, ringVars, timersVars, reassVars, dnsVars>>
    \/ part = "reass" /\ ReassNext /\ UNCHANGED <<part, ringVars, timersVars, arpVars, dnsVars>>
    \/ part = "dns" /\ DnsNext /\ UNCHANGED <<part, ringVars, timersVars, arpVars, reassVars>>

\* The fairness of the modules, that of the part that runs.
MCFairness ==
    /\ WF_rxVars(part = "rx" /\ lpc_low_level_input)
    /\ WF_txVars(part = "tx" /\ Sent)
    /\ WF_txVars(part = "tx" /\ lpc_low_level_output)
    /\ WF_txVars(part = "tx" /\ lpc_tx_reclaim)
    /\ WF_timersVars(part = "timers" /\ Tick)
    /\ WF_timersVars(part = "timers" /\ Check)
    /\ WF_arpVars(part = "arp" /\ etharp_tmr)
    /\ WF_reassVars(part = "reass" /\ ~hung /\ ip_reass_tmr)
    /\ WF_dnsVars(part = "dns" /\ dns_tmr)

MCSpec ==
    MCInit /\ [][MCNext]_<<part, ringVars, timersVars, tableVars>> /\ MCFairness

\* Nothing is waited for without an end: every timer fires again and again
\* (SysTimeouts); a frame that was received is taken out (EmacRx), and the driver
\* lets go of every chain it was given (EmacTx); an address that nobody has
\* (Etharp), the missing fragments of a datagram (IpReass) and a name that no
\* server knows (Dns) are given up.
WaitsEnd ==
    /\ (part = "timers") => TimersFire
    /\ FramesLeave /\ DriverLetsGo
    /\ PendingEnds /\ ReassemblyEnds /\ QueriesEnd
=============================================================================
