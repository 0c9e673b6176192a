------------------------------- MODULE MCNode -------------------------------
(***************************************************************************)
(* The device around the voice: the radio is set up, its messages follow   *)
(* the calls, the configuration is changed over the web form, and the      *)
(* address may be leased; and what lwIP has for devices with threads, with *)
(* no address or with multicast groups: the sequential interface, AutoIP   *)
(* and IGMP.  These seven share no variable, so a behaviour runs           *)
(* one of them, its part, and leaves the others where they start.  The     *)
(* fairness is that of the modules, as far as it concerns the part that    *)
(* runs.  Passwords are one, a longer one that begins with it and one that *)
(* differs.                                                                *)
(***************************************************************************)
EXTENDS RadioInit, RadioCalls, FlashConfig, Dhcp, Netconn, Autoip, Igmp

VARIABLE part

MCPasswords == {<<1>>, <<1, 2>>, <<2>>}

\* Two hosts that try the same addresses.
MCSeed == [h \in Hosts |-> 65020]

MCInit ==
    /\ part \in {"setup", "calls", "config", "lease", "netconn", "autoip", "groups"}
    /\ SetupInit /\ CallsInit /\ ConfigInit /\ DhcpInit
    /\ NetconnInit /\ AutoipInit /\ IgmpInit
    /\ (part # "config") => (flash = Blank /\ now = 0)

deviceVars == <<setupVars, callsVars, configVars, dhcpVars>>
stackVars == <<netconnVars, autoipVars, igmpVars>>

MCNext ==
    \/ part = "setup" /\ SetupNext /\ UNCHANGED <<part, callsVars, configVars, dhcpVars, stackVars>>
    \/ part = "calls" /\ CallsNext /\ UNCHANGED <<part, setupVars, configVars, dhcpVars, stackVars>>
    \/ part = "config" /\ ConfigNext /\ UNCHANGED <<part, setupVars, callsVars, dhcpVars, stackVars>>
    \/ part = "lease" /\ DhcpNext /\ UNCHANGED <<part, setupVars, callsVars, configVars, stackVars>>
    \/ part = "netconn" /\ NetconnNext /\ UNCHANGED <<part, deviceVars, autoipVars, igmpVars>>
    \/ part = "autoip" /\ AutoipNext /\ UNCHANGED <<part, deviceVars, netconnVars, igmpVars>>
    \/ part = "groups" /\ IgmpNext /\ UNCHANGED <<part, deviceVars, netconnVars, autoipVars>>

MCFairness ==
    /\ WF_setupVars(part = "setup" /\ Start) /\ WF_setupVars(part = "setup" /\ Arrive)
    /\ WF_setupVars(part = "setup" /\ Poll) /\ WF_setupVars(part = "setup" /\ (Accept \/ Refuse))
    /\ WF_callsVars(part = "calls" /\ Receive) /\ WF_callsVars(part = "calls" /\ UART1_IRQHandler)
    /\ WF_callsVars(part = "calls" /\ radio_comm)
    /\ WF_configVars(part = "config" /\ Tick) /\ WF_configVars(part = "config" /\ WriteFlash)
    /\ WF_configVars(part = "config" /\ (Pass \/ SystemReset))
    /\ WF_dhcpVars(part = "lease" /\ dhcp_fine_tmr(FALSE))
    /\ WF_dhcpVars(part = "lease" /\ dhcp_coarse_tmr(FALSE))
    /\ SF_dhcpVars(part = "lease" /\ \E ip \in Leasable : Offer(ip, FALSE))
    /\ SF_dhcpVars(part = "lease" /\ \E m \in dhcp.asked : Acknowledge(m))
    /\ WF_netconnVars(part = "netconn" /\ tcpip_thread)
    /\ \A t \in Threads : WF_netconnVars(part = "netconn" /\ ThreadGoesOn(t))
    /\ \A c \in Conns : /\ WF_netconnVars(part = "netconn" /\ ConnectEnds(c))
                        /\ WF_netconnVars(part = "netconn" /\ (sent_tcp(c) \/ Reset(c)))
                        /\ WF_netconnVars(part = "netconn" /\ poll_tcp(c))
    /\ \A h \in Hosts : WF_autoipVars(part = "autoip" /\ autoip_tmr(h))
    /\ WF_autoipVars(part = "autoip" /\ \E f \in frames : FrameArrives(f, FALSE))

MCSpec == MCInit /\ [][MCNext]_<<part, deviceVars, stackVars>> /\ MCFairness

\* What is begun comes to its end: radio_comm_init (RadioInit), a message from the
\* radio (RadioCalls), a stored change (FlashConfig), the search for an address
\* (Dhcp), a call of the application (Netconn), the choice of an address (Autoip).
WorkEnds ==
    /\ (part = "setup") => ComesToAnEnd
    /\ (part = "calls") => AllForwarded
    /\ (part = "config") => ChangeTakesEffect
    /\ (part = "lease") => AddressFound
    /\ (part = "netconn") => CallsReturn
    /\ (part = "autoip") => Settles
=============================================================================
