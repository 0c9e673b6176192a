-------------------------------- MODULE EmacTx --------------------------------
(***************************************************************************)
(* The transmit ring of the Ethernet driver (lwip/src/arch/                *)
(* lpc17xx_40xx_emac.c).  lpc_low_level_output takes a reference to the    *)
(* pbuf and one descriptor for each pbuf of its chain, waiting until there *)
(* are enough; the hardware sends them; lpc_tx_reclaim, once in each pass  *)
(* of the main loop, gives the references of sent frames back.             *)
(*                                                                         *)
(* The hardware counts descriptors with its own two indices and the driver *)
(* reclaims with a third, which lpc_low_level_output does not look at.     *)
(***************************************************************************)
EXTENDS Integers, FiniteSets

CONSTANTS
    TxN,             \* LPC_NUM_BUFF_TXDESCS
    TxPbufs,         \* chains of pbufs
    None,
    MaxChain,      \* longest chain
    MaxUnreclaimed \* descriptors used and not yet reclaimed

ASSUME TxAssumption ==
    /\ TxN \in Nat /\ TxN >= 2
    /\ {MaxChain, MaxUnreclaimed} \subseteq Nat
    /\ None \notin TxPbufs

TxDesc == 0 .. TxN - 1
TxAfter(d) == IF d + 1 >= TxN THEN 0 ELSE d + 1

VARIABLES
    pidx,          \* produce index of the hardware
    cidx,          \* consume index
    lastIdx,          \* lpc_last_tx_idx
    txpacket,        \* the chain each descriptor points into
    txb,           \* txb: the chain to free with each descriptor
    refs,          \* references the driver holds to each chain
    waiting,       \* the output that waits for descriptors
    unreclaimed    \* descriptors used since they were lastIdx reclaimed

txVars == <<pidx, cidx, lastIdx, txpacket, txb, refs, waiting, unreclaimed>>

Nobody == <<None, 0>>

TxInit ==
    /\ pidx = 0 /\ cidx = 0 /\ lastIdx = 0
    /\ txpacket = [d \in TxDesc |-> None]
    /\ txb = [d \in TxDesc |-> None]
    /\ refs = [p \in TxPbufs |-> 0]
    /\ waiting = Nobody
    /\ unreclaimed = 0

\* Steps from one index of the ring to another.
Distance(from, to) == IF to >= from THEN to - from ELSE to - from + TxN

\* lpc_tx_ready; one descriptor always stays empty.
lpc_tx_ready == TxN - 1 - Distance(cidx, pidx)

-----------------------------------------------------------------------------
\* netif->linkoutput is called with a chain of n pbufs.
Output(p, n) ==
    /\ waiting = Nobody
    /\ unreclaimed + n <= MaxUnreclaimed
    /\ waiting' = <<p, n>>
    /\ UNCHANGED <<pidx, cidx, lastIdx, txpacket, txb, refs, unreclaimed>>

\* The n descriptors from the produce index on.
Taken(n) == {d \in TxDesc : Distance(pidx, d) < n}

\* lpc_low_level_output after its wait: the chain goes to free with the lastIdx
\* of its descriptors.
Bug_lpc_low_level_output ==
    /\ waiting # Nobody
    /\ LET p == waiting[1]
           n == waiting[2]
       IN  /\ n <= lpc_tx_ready
           /\ refs' = [refs EXCEPT ![p] = @ + 1]
           /\ txpacket' = [d \in TxDesc |-> IF d \in Taken(n) THEN p ELSE txpacket[d]]
           /\ txb' = [d \in TxDesc |->
                        IF d \notin Taken(n) THEN txb[d]
                        ELSE IF Distance(pidx, d) = 0 THEN p ELSE None]
           /\ \E d \in TxDesc : Distance(pidx, d) = n /\ pidx' = d
           /\ unreclaimed' = unreclaimed + n
    /\ waiting' = Nobody
    /\ UNCHANGED <<cidx, lastIdx>>
lpc_low_level_output ==
    /\ waiting # Nobody
    /\ LET p == waiting[1]
           n == waiting[2]
       IN  /\ n <= lpc_tx_ready
           /\ refs' = [refs EXCEPT ![p] = @ + 1]
           /\ txpacket' = [d \in TxDesc |-> IF d \in Taken(n) THEN p ELSE txpacket[d]]
           /\ txb' = [d \in TxDesc |->
                        IF d \notin Taken(n) THEN txb[d]
                        ELSE IF Distance(pidx, d) = n - 1 THEN p ELSE None]
           /\ \E d \in TxDesc : Distance(pidx, d) = n /\ pidx' = d
           /\ unreclaimed' = unreclaimed + n
    /\ waiting' = Nobody
    /\ UNCHANGED <<cidx, lastIdx>>

\* The hardware has sent what a descriptor holds.
Sent ==
    /\ cidx # pidx
    /\ cidx' = TxAfter(cidx)
    /\ UNCHANGED <<pidx, lastIdx, txpacket, txb, refs, waiting, unreclaimed>>

\* lpc_tx_reclaim_st: from the driver's index to the consume index.
Bug_Reclaimed == {d \in TxDesc : Distance(lastIdx, d) + 1 < Distance(lastIdx, cidx)}
Reclaimed == {d \in TxDesc : Distance(lastIdx, d) < Distance(lastIdx, cidx)}

lpc_tx_reclaim ==
    /\ waiting = Nobody
    /\ refs' = [p \in TxPbufs |-> refs[p] - Cardinality({d \in Reclaimed : txb[d] = p})]
    /\ txb' = [d \in TxDesc |-> IF d \in Reclaimed THEN None ELSE txb[d]]
    /\ lastIdx' = cidx
    /\ unreclaimed' = Distance(cidx, pidx)
    /\ UNCHANGED <<pidx, cidx, txpacket, waiting>>

TxNext ==
    \/ \E p \in TxPbufs, n \in 1 .. MaxChain : Output(p, n)
    \/ lpc_low_level_output
    \/ Sent
    \/ lpc_tx_reclaim

TxSpec == TxInit /\ [][TxNext]_txVars

\* With a link the hardware sends, and the main loop goes on.
TxFairness == WF_txVars(Sent) /\ WF_txVars(lpc_low_level_output) /\ WF_txVars(lpc_tx_reclaim)
TxLiveSpec == TxSpec /\ TxFairness

-----------------------------------------------------------------------------
InFlight == {d \in TxDesc : Distance(cidx, d) < Distance(cidx, pidx)}

TxTypeOK ==
    /\ pidx \in TxDesc /\ cidx \in TxDesc /\ lastIdx \in TxDesc
    /\ txpacket \in [TxDesc -> TxPbufs \cup {None}]
    /\ txb \in [TxDesc -> TxPbufs \cup {None}]
    /\ refs \in [TxPbufs -> Nat]
    /\ waiting \in {Nobody} \cup (TxPbufs \X (1 .. MaxChain))
    /\ unreclaimed \in 0 .. MaxUnreclaimed

\* "The driver will free it once it's been transmitted"
\* (lpc17xx_40xx_emac.c:486): not before every descriptor of it is sent,
HeldWhileInFlight == \A d \in InFlight : refs[txpacket[d]] > 0

\* and not never: every reference is with one descriptor, from which it will
\* be given back.
FreedLater == \A p \in TxPbufs : refs[p] = Cardinality({d \in TxDesc : txb[d] = p})

\* The driver holds a chain exactly as long as it must.
RefsSane == TxTypeOK /\ HeldWhileInFlight /\ FreedLater

\* The driver lets go of each chain: it does not keep references for ever.
DriverLetsGo == \A p \in TxPbufs : []<>(refs[p] = 0) \/ []<><<refs'[p] < refs[p]>>_txVars
=============================================================================
