-------------------------------- MODULE MCTcp --------------------------------
(***************************************************************************)
(* A TCP connection and the memory under it: what arrives is put in order, *)
(* what is written is sent until it is acknowledged, and both are in pbufs *)
(* that come from pools and the heap.  Each module has its own view of the *)
(* rest, so a behaviour runs one of them, its part, and leaves the others  *)
(* where they start.                                                       *)
(***************************************************************************)
EXTENDS TcpReceive, TcpSend, Pbuf, MemHeap

VARIABLE part

MCInit ==
    /\ part \in {"receive", "send", "pbuf", "heap"}
    /\ ReceiveInit /\ SendInit /\ PbufInit /\ HeapInit
    /\ (part # "send") => snd.mss = Max(MssValues)

tcpVars == <<receiveVars, sendVars>>
memVars == <<pbufVars, heapVars>>

MCNext ==
    \/ part = "receive" /\ ReceiveNext /\ UNCHANGED <<part, sendVars, memVars>>
    \/ part = "send" /\ SendNext /\ UNCHANGED <<part, receiveVars, memVars>>
    \/ part = "pbuf" /\ PbufNext /\ UNCHANGED <<part, tcpVars, heapVars>>
    \/ part = "heap" /\ HeapNext /\ UNCHANGED <<part, tcpVars, pbufVars>>

\* The fairness of TcpSend, if it is the part that runs.
MCFairness ==
    /\ WF_sendVars(part = "send" /\ PeerReceives(FALSE))
    /\ WF_sendVars(part = "send" /\ PeerReads)
    /\ WF_sendVars(part = "send" /\ ProbeWindow)
    /\ []<>(part # "send" \/ net.acks = <<>>) \/ []<><<part = "send" /\ tcp_input_ack(FALSE)>>_sendVars
    /\ []<>(part # "send" \/ ~CanRexmit) \/ []<><<part = "send" /\ Rexmit>>_sendVars
    /\ []<>(part # "send" \/ ~CanPoll) \/ []<><<part = "send" /\ Poll>>_sendVars

MCSpec == MCInit /\ [][MCNext]_<<part, tcpVars, memVars>> /\ MCFairness
=============================================================================
