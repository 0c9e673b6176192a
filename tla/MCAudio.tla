------------------------------ MODULE MCAudio ------------------------------
(***************************************************************************)
(* The way of the voice: AdcCapture takes the samples, SpeexUdp keeps the  *)
(* server they are sent to, IpUdp carries the datagrams.  They share no    *)
(* variable, so a behaviour runs one of them, its part, and leaves the     *)
(* others where they start.                                                *)
(***************************************************************************)
EXTENDS SpeexUdp, AdcCapture, IpUdp

VARIABLE part

MCInit ==
    /\ part \in {"link", "capture", "udp"}
    /\ LinkInit /\ AdcInit /\ UdpInit
    /\ (part # "link") => (now = 0 /\ tmSent = 0 /\ linkUp)
    /\ (part # "udp") => ip_addr = CHOOSE ip \in Own : TRUE

MCNext ==
    \/ part = "link" /\ LinkNext /\ UNCHANGED <<part, adcVars, udpVars>>
    \/ part = "capture" /\ AdcNext /\ UNCHANGED <<part, linkVars, udpVars>>
    \/ part = "udp" /\ UdpNext /\ UNCHANGED <<part, linkVars, adcVars>>

\* The fairness of the modules, that of the part that runs.
MCFairness ==
    /\ WF_linkVars(part = "link" /\ Tick)
    /\ WF_linkVars(part = "link" /\ Pass)
    /\ \A s \in {1, 2} : SF_linkVars(part = "link" /\ SyncTo(s))
    /\ \A h \in LiveServers : SF_linkVars(part = "link" /\ Answer(h))
    /\ SF_adcVars(part = "capture" /\ CheckFinished)
    /\ WF_adcVars(part = "capture" /\ (Consume \/ ADC_start_NVIC \/ ADC_stop_channel))

MCSpec ==
    /\ MCInit /\ [][MCNext]_<<part, linkVars, adcVars, udpVars>>
    /\ MCFairness

\* The server that answers is found again and again (SpeexUdp).
LinkReconnects == (part = "link") => Reconnects
=============================================================================
