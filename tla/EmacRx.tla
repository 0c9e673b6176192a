-------------------------------- MODULE EmacRx --------------------------------
(***************************************************************************)
(* The receive ring of the Ethernet driver (lwip/src/arch/                 *)
(* lpc17xx_40xx_emac.c): descriptors that the hardware fills by DMA and    *)
(* the main loop empties, each with a pbuf behind it.  A received pbuf     *)
(* goes to the network stack without a copy and a new one takes its place; *)
(* if there is none, the frame is dropped and its pbuf queued again.       *)
(*                                                                         *)
(* rx_free_descs is 1 between taking a pbuf out of a descriptor and        *)
(* queueing the next, and 0 otherwise: the setup fills every descriptor,   *)
(* as there are pbufs for all of them.  It has no variable of its own, and *)
(* the loop of lpc_rx_queue turns once.                                    *)
(***************************************************************************)
EXTENDS Integers

CONSTANTS
    RxN,            \* LPC_NUM_BUFF_RXDESCS
    RxPbufs         \* pbufs of maximal size there is memory for

ASSUME RingAssumption == RxN \in Nat /\ RxN >= 3

RxDesc == 0 .. RxN - 1
RxAfter(d) == IF d + 1 >= RxN THEN 0 ELSE d + 1

VARIABLES
    rprod,        \* produce index of the hardware
    rcons,        \* consume index
    status,       \* what the hardware says of each descriptor's frame
    rxpacket,       \* the pbuf each descriptor makes the hardware write to
    room,         \* and the size the descriptor gives it
    overrun,      \* ENET_INT_RXOVERRUN
    fill,         \* rx_fill_desc_index
    rxb,          \* rxb: the pbuf of each descriptor
    heap,         \* pbufs that can be allocated
    stack         \* pbufs the network stack holds

rxHardware == <<rprod, status, overrun>>
queue == <<rxpacket, room, fill, rxb>>
rxVars == <<rxHardware, rcons, queue, heap, stack>>

Sizes == {"short", "max"}
NoFrame == <<"none", "short">>
Fits(size, space) == size = "short" \/ space = "max"

\* lpc_rx_setup queues a pbuf of maximal size at each descriptor.
Setup(from, bufs) ==
    /\ \A d, e \in RxDesc : d # e => bufs[d] # bufs[e]
    /\ bufs \in [RxDesc -> from]

RxInit ==
    /\ rprod = 0 /\ rcons = 0 /\ fill = 0
    /\ status = [d \in RxDesc |-> NoFrame]
    /\ overrun = FALSE
    /\ rxb \in [RxDesc -> RxPbufs]
    /\ Setup(RxPbufs, rxb)
    /\ rxpacket = rxb
    /\ room = [d \in RxDesc |-> "max"]
    /\ heap = RxPbufs \ {rxb[d] : d \in RxDesc}
    /\ stack = {}

-----------------------------------------------------------------------------
\* The hardware writes a frame, or as much of it as the descriptor takes,
\* and goes on; one descriptor always stays empty.
Receive(size, quality) ==
    /\ RxAfter(rprod) # rcons
    /\ Fits(size, room[rprod])
    /\ status' = [status EXCEPT ![rprod] = <<quality, size>>]
    /\ rprod' = RxAfter(rprod)
    /\ UNCHANGED <<overrun, rcons, queue, heap, stack>>

Overrun ==
    /\ ~overrun
    /\ overrun' = TRUE
    /\ UNCHANGED <<rprod, status, rcons, queue, heap, stack>>

\* lpc_low_level_input after an overrun: everything is freed and set up anew.
RxReset ==
    /\ overrun
    /\ overrun' = FALSE
    /\ rprod' = 0 /\ rcons' = 0 /\ fill' = 0
    /\ status' = [d \in RxDesc |-> NoFrame]
    /\ LET free == heap \cup {rxb[d] : d \in RxDesc}
       IN  /\ rxb' \in [RxDesc -> free]
           /\ Setup(free, rxb')
           /\ heap' = free \ {rxb'[d] : d \in RxDesc}
    /\ rxpacket' = rxb'
    /\ room' = [d \in RxDesc |-> "max"]
    /\ UNCHANGED stack

\* lpc_rxqueue_pbuf
Enqueue(p, len) ==
    /\ rxb' = [rxb EXCEPT ![fill] = p]
    /\ rxpacket' = [rxpacket EXCEPT ![fill] = p]
    /\ room' = [room EXCEPT ![fill] = len]
    /\ fill' = RxAfter(fill)

Frame == ~overrun /\ rcons # rprod
Consumed ==
    /\ rcons' = RxAfter(rcons)
    /\ status' = [status EXCEPT ![rcons] = NoFrame]
    /\ UNCHANGED <<rprod, overrun>>

\* A frame with errors: its pbuf is queued again as it is.
Bug_DropBad ==
    /\ Frame
    /\ status[rcons][1] = "bad"
    /\ Enqueue(rxb[rcons], room[rcons])
    /\ UNCHANGED <<rxHardware, rcons, heap, stack>>
DropBad ==
    /\ Frame
    /\ status[rcons][1] = "bad"
    /\ Enqueue(rxb[rcons], room[rcons])
    /\ Consumed
    /\ UNCHANGED <<heap, stack>>

\* No new pbuf: the frame is dropped.  Its pbuf, whose len is by now the
\* length of that frame, is queued again.
DropForMemory ==
    /\ Frame
    /\ status[rcons][1] = "good"
    /\ heap = {}
    /\ Enqueue(rxb[rcons], status[rcons][2])
    /\ Consumed
    /\ UNCHANGED <<heap, stack>>

\* A good frame goes to netif->input, which frees the pbuf or keeps it.
Bug_Deliver ==
    /\ Frame
    /\ status[rcons][1] = "good"
    /\ \E p \in heap \cup {rxb[rcons]} :
          /\ Enqueue(p, "max")
          /\ \/ heap' = (heap \ {p}) \cup {rxb[rcons]} /\ UNCHANGED stack
             \/ heap' = heap \ {p} /\ stack' = stack \cup {rxb[rcons]}
    /\ Consumed
Deliver ==
    /\ Frame
    /\ status[rcons][1] = "good"
    /\ \E p \in heap :
          /\ Enqueue(p, "max")
          /\ \/ heap' = (heap \ {p}) \cup {rxb[rcons]} /\ UNCHANGED stack
             \/ heap' = heap \ {p} /\ stack' = stack \cup {rxb[rcons]}
    /\ Consumed

\* The stack frees a pbuf it held.
Release(p) ==
    /\ stack' = stack \ {p}
    /\ heap' = heap \cup {p}
    /\ UNCHANGED <<rxHardware, rcons, queue>>

lpc_low_level_input == RxReset \/ DropBad \/ DropForMemory \/ Deliver

RxNext ==
    \/ \E size \in Sizes, quality \in {"good", "bad"} : Receive(size, quality)
    \/ Overrun
    \/ lpc_low_level_input
    \/ \E p \in stack : Release(p)

RxSpec == RxInit /\ [][RxNext]_rxVars

\* The main loop calls lpc_enetif_input in every pass.
RxFairness == WF_rxVars(lpc_low_level_input)
RxLiveSpec == RxSpec /\ RxFairness

-----------------------------------------------------------------------------
RxTypeOK ==
    /\ rprod \in RxDesc /\ rcons \in RxDesc /\ fill \in RxDesc
    /\ status \in [RxDesc -> {NoFrame} \cup ({"good", "bad"} \X Sizes)]
    /\ rxpacket \in [RxDesc -> RxPbufs] /\ rxb \in [RxDesc -> RxPbufs]
    /\ room \in [RxDesc -> Sizes]
    /\ overrun \in BOOLEAN
    /\ heap \subseteq RxPbufs /\ stack \subseteq RxPbufs

\* Every pbuf has one owner: one descriptor, the stack or the allocator.
OneOwner ==
    /\ \A d, e \in RxDesc : d # e => rxb[d] # rxb[e]
    /\ \A d \in RxDesc : rxb[d] \notin heap \cup stack
    /\ heap \cap stack = {}

\* The hardware writes only to pbufs of the driver: neither to one the stack
\* is reading nor to memory that is given to somebody else.
DmaIsOurs == \A d \in RxDesc : rxpacket[d] \notin heap \cup stack

\* The driver fills where the hardware was last emptied, so that each frame
\* is found with the pbuf it was written to.
FrameInItsPbuf == fill = rcons /\ rxpacket = rxb

\* "We need to allocate at the maximum size as we don't know the size of the
\* yet to be received packet." (lpc17xx_40xx_emac.c:676-678)
RoomForAnyFrame == \A d \in RxDesc : room[d] = "max"

\* A frame that was received is passed on or dropped in the end: the driver
\* does not stop short of the hardware (the ring is served in its order).
FramesLeave == []<>(rcons = rprod) \/ []<><<rcons' # rcons>>_rxVars
=============================================================================
