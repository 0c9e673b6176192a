---------------------------- MODULE Stack_proofs ----------------------------
(***************************************************************************)
(* Proofs about what the stack runs on: the two rings of the Ethernet      *)
(* driver, for any number of descriptors and pbufs; the list of timers,    *)
(* for any number of timers and any periods; and the heap, whatever is     *)
(* allocated, trimmed and freed: the blocks follow one another, used ones  *)
(* are those given out, free ones are not next to each other, and the      *)
(* lowest is known.                                                        *)
(***************************************************************************)
EXTENDS EmacRx, EmacTx, SysTimeouts, MemHeap, Lemmas, FiniteSetTheorems

(***************************************************************************)
(* The receive ring                                                        *)
(***************************************************************************)
IInv == RxTypeOK /\ OneOwner /\ FrameInItsPbuf

LEMMA AfterDesc == ASSUME NEW d \in RxDesc PROVE RxAfter(d) \in RxDesc
  BY RingAssumption DEF RxDesc, RxAfter

LEMMA ZeroDesc == 0 \in RxDesc
  BY RingAssumption DEF RxDesc

\* Taking the pbuf of the descriptor to consume and queueing p in its place.
LEMMA Replace ==
  ASSUME IInv, NEW p \in RxPbufs, NEW len \in Sizes, Enqueue(p, len), Consumed
  PROVE  /\ rprod' \in RxDesc /\ rcons' \in RxDesc /\ fill' \in RxDesc
         /\ status' \in [RxDesc -> {NoFrame} \cup ({"good", "bad"} \X Sizes)]
         /\ rxpacket' \in [RxDesc -> RxPbufs] /\ rxb' \in [RxDesc -> RxPbufs] /\ room' \in [RxDesc -> Sizes]
         /\ overrun' \in BOOLEAN
         /\ FrameInItsPbuf'
         /\ rxb' = [rxb EXCEPT ![rcons] = p]
  <1>1. fill = rcons /\ rxpacket = rxb
    BY DEF IInv, FrameInItsPbuf
  <1>2. fill' = RxAfter(rcons) /\ rcons' = RxAfter(rcons) /\ rxpacket' = rxb'
    BY <1>1 DEF Enqueue, Consumed
  <1>3. RxAfter(rcons) \in RxDesc
    BY AfterDesc DEF IInv, RxTypeOK
  <1> QED
    BY <1>1, <1>2, <1>3 DEF Enqueue, Consumed, IInv, RxTypeOK, FrameInItsPbuf, NoFrame

LEMMA InitIInv == RxInit => IInv
  <1> SUFFICES ASSUME RxInit PROVE IInv
    OBVIOUS
  <1>1. RxTypeOK
    BY ZeroDesc DEF RxInit, RxTypeOK, Sizes, NoFrame
  <1>2. OneOwner
    BY DEF RxInit, Setup, OneOwner
  <1> QED
    BY <1>1, <1>2 DEF IInv, RxInit, FrameInItsPbuf

LEMMA StepIInv == IInv /\ [RxNext]_rxVars => IInv'
  <1> SUFFICES ASSUME IInv, [RxNext]_rxVars PROVE IInv'
    OBVIOUS
  <1> USE DEF IInv
  <1>1. ASSUME NEW size \in Sizes, NEW quality \in {"good", "bad"}, Receive(size, quality) PROVE IInv'
    <2>1. rprod' \in RxDesc
      BY <1>1, AfterDesc DEF Receive, RxTypeOK
    <2>2. status' \in [RxDesc -> {NoFrame} \cup ({"good", "bad"} \X Sizes)]
      BY <1>1 DEF Receive, RxTypeOK
    <2> QED
      BY <1>1, <2>1, <2>2 DEF Receive, RxTypeOK, OneOwner, FrameInItsPbuf, queue
  <1>2. CASE Overrun
    BY <1>2 DEF Overrun, RxTypeOK, OneOwner, FrameInItsPbuf, queue
  <1>3. CASE RxReset
    <2> DEFINE free == heap \cup {rxb[d] : d \in RxDesc}
    <2>1. rxb' \in [RxDesc -> free] /\ Setup(free, rxb') /\ heap' = free \ {rxb'[d] : d \in RxDesc}
      BY <1>3 DEF RxReset
    <2>2. free \subseteq RxPbufs /\ free \cap stack = {}
      BY DEF RxTypeOK, OneOwner
    <2> HIDE DEF free
    <2>3. \A d \in RxDesc : rxb'[d] \in free /\ rxb'[d] \notin heap'
      BY <2>1
    <2>4. OneOwner'
      BY <1>3, <2>1, <2>2, <2>3 DEF OneOwner, Setup, RxReset
    <2>5. RxTypeOK'
      <3>1. rxb' \in [RxDesc -> RxPbufs] /\ heap' \subseteq RxPbufs
        BY <2>1, <2>2
      <3> QED
        BY <1>3, <3>1, ZeroDesc DEF RxReset, RxTypeOK, Sizes, NoFrame
    <2> QED
      BY <1>3, <2>4, <2>5 DEF RxReset, FrameInItsPbuf
  <1>4. CASE DropBad
    <2>1. rxb[rcons] \in RxPbufs /\ room[rcons] \in Sizes
      BY DEF RxTypeOK
    <2>2. rxb' = rxb /\ FrameInItsPbuf' /\ RxTypeOK'
      BY <1>4, <2>1, Replace DEF DropBad, RxTypeOK
    <2> QED
      BY <1>4, <2>2 DEF DropBad, OneOwner
  <1>5. CASE DropForMemory
    <2>1. rxb[rcons] \in RxPbufs /\ status[rcons][2] \in Sizes
      BY <1>5 DEF RxTypeOK, DropForMemory, NoFrame, Sizes
    <2>2. rxb' = rxb /\ FrameInItsPbuf' /\ RxTypeOK'
      BY <1>5, <2>1, Replace DEF DropForMemory, RxTypeOK
    <2> QED
      BY <1>5, <2>2 DEF DropForMemory, OneOwner
  <1>6. CASE Deliver
    <2>1. PICK p \in heap :
            /\ Enqueue(p, "max")
            /\ \/ heap' = (heap \ {p}) \cup {rxb[rcons]} /\ UNCHANGED stack
               \/ heap' = heap \ {p} /\ stack' = stack \cup {rxb[rcons]}
      BY <1>6 DEF Deliver
    <2>2. p \in RxPbufs /\ "max" \in Sizes /\ rcons \in RxDesc /\ rxb[rcons] \in RxPbufs
      BY DEF RxTypeOK, Sizes
    <2>3. rxb' = [rxb EXCEPT ![rcons] = p] /\ FrameInItsPbuf' /\ RxTypeOK'
      BY <1>6, <2>1, <2>2, Replace DEF Deliver, RxTypeOK
    <2>4. OneOwner'
      BY <2>1, <2>2, <2>3 DEF OneOwner, RxTypeOK
    <2> QED
      BY <2>3, <2>4
  <1>7. ASSUME NEW p \in stack, Release(p) PROVE IInv'
    BY <1>7 DEF Release, RxTypeOK, OneOwner, FrameInItsPbuf, rxHardware, queue
  <1>8. CASE UNCHANGED rxVars
    BY <1>8 DEF rxVars, RxTypeOK, OneOwner, FrameInItsPbuf, rxHardware, queue
  <1> QED
    BY <1>1, <1>2, <1>3, <1>4, <1>5, <1>6, <1>7, <1>8 DEF RxNext, lpc_low_level_input

LEMMA Invariance == RxSpec => []IInv
  BY InitIInv, StepIInv, PTL DEF RxSpec

\* Type correctness of the receive ring.
THEOREM TypeCorrect == RxSpec => []RxTypeOK
  BY Invariance, PTL DEF IInv

\* Across errors, overruns and a lack of memory every pbuf keeps one owner:
\* a descriptor, the stack or the allocator (lpc_low_level_input).
THEOREM Owners == RxSpec => []OneOwner
  BY Invariance, PTL DEF IInv

\* The driver finds each frame with the pbuf it was written to: the index it
\* fills at never leaves the one it consumes at.
THEOREM InStep == RxSpec => []FrameInItsPbuf
  BY Invariance, PTL DEF IInv

\* The hardware never writes to a pbuf the stack holds or the allocator has.
THEOREM DmaSafe == RxSpec => []DmaIsOurs
  <1>1. IInv => DmaIsOurs
    BY DEF IInv, OneOwner, FrameInItsPbuf, DmaIsOurs
  <1> QED
    BY Invariance, <1>1, PTL

(***************************************************************************)
(* The transmit ring.  The hardware's indices stay between the driver's    *)
(* index and where it put the last descriptor, as long as fewer            *)
(* descriptors than the ring has are used between two calls of             *)
(* lpc_tx_reclaim.  A chain in flight is found again at the descriptor it  *)
(* will be freed with, which is sent no earlier.                           *)
(***************************************************************************)
RoomInRing == waiting # Nobody => unreclaimed + waiting[2] <= MaxUnreclaimed

RingOrder ==
    /\ Distance(lastIdx, pidx) = unreclaimed
    /\ Distance(lastIdx, cidx) + Distance(cidx, pidx) = unreclaimed

NothingBeyond == \A d \in TxDesc : Distance(lastIdx, d) >= unreclaimed => txb[d] = None

FreedBehind == \A d \in InFlight :
    /\ txpacket[d] \in TxPbufs
    /\ \E e \in TxDesc : /\ Distance(lastIdx, d) <= Distance(lastIdx, e)
                         /\ txb[e] = txpacket[d]

TxInv == TxTypeOK /\ FreedLater /\ RoomInRing /\ RingOrder /\ NothingBeyond /\ FreedBehind

\* Distances on the ring.
LEMMA Numbers == TxN \in Nat /\ TxN >= 2 /\ MaxChain \in Nat /\ MaxUnreclaimed \in Nat
  BY TxAssumption

LEMMA Distances ==
  /\ \A a, b \in TxDesc : /\ Distance(a, b) \in 0 .. TxN - 1
                          /\ Distance(a, a) = 0
                          /\ Distance(a, b) = 0 => a = b
  /\ \A a, b, c \in TxDesc : Distance(a, b) = Distance(a, c) => b = c
  BY Numbers DEF TxDesc, Distance

LEMMA ByWayOf ==
  ASSUME NEW a \in TxDesc, NEW b \in TxDesc, NEW c \in TxDesc
  PROVE  Distance(a, c) = IF Distance(a, b) + Distance(b, c) < TxN
                          THEN Distance(a, b) + Distance(b, c)
                          ELSE Distance(a, b) + Distance(b, c) - TxN
  BY Numbers DEF TxDesc, Distance

LEMMA Onward ==
  ASSUME NEW a \in TxDesc
  PROVE  /\ TxAfter(a) \in TxDesc /\ Distance(a, TxAfter(a)) = 1
         /\ \A n \in 0 .. TxN - 1 : \E d \in TxDesc : Distance(a, d) = n
  <1>1. TxAfter(a) \in TxDesc /\ Distance(a, TxAfter(a)) = 1
    BY Numbers DEF TxDesc, Distance, TxAfter
  <1>2. ASSUME NEW n \in 0 .. TxN - 1 PROVE \E d \in TxDesc : Distance(a, d) = n
    <2> DEFINE d == IF a + n < TxN THEN a + n ELSE a + n - TxN
    <2>1. d \in TxDesc /\ Distance(a, d) = n
      BY Numbers DEF TxDesc, Distance
    <2> HIDE DEF d
    <2> QED
      BY <2>1
  <1> QED
    BY <1>1, <1>2

LEMMA FiniteRing == IsFiniteSet(TxDesc) /\ \A S \in SUBSET TxDesc : IsFiniteSet(S) /\ Cardinality(S) \in Nat
  <1>1. IsFiniteSet(TxDesc)
    BY Numbers, FS_Interval DEF TxDesc
  <1> QED
    BY <1>1, FS_Subset, FS_CardinalityType

FreedWith(p) == {d \in TxDesc : txb[d] = p}

LEMMA InitTxInv == TxInit => TxInv
  <1> SUFFICES ASSUME TxInit PROVE TxInv
    OBVIOUS
  <1>1. 0 \in TxDesc
    BY Numbers DEF TxDesc
  <1>2. TxTypeOK /\ RoomInRing /\ RingOrder /\ NothingBeyond
    BY <1>1, Numbers, Distances DEF TxInit, TxTypeOK, RoomInRing, RingOrder, NothingBeyond
  <1>3. InFlight = {}
    BY <1>1, Distances DEF TxInit, InFlight
  <1>4. ASSUME NEW p \in TxPbufs PROVE refs[p] = Cardinality({d \in TxDesc : txb[d] = p})
    <2>1. {d \in TxDesc : txb[d] = p} = {}
      BY TxAssumption DEF TxInit
    <2> QED
      BY <2>1, FS_EmptySet DEF TxInit
  <1> QED
    BY <1>2, <1>3, <1>4 DEF TxInv, FreedLater, FreedBehind

LEMMA Outputs ==
  ASSUME TxInv, MaxUnreclaimed < TxN, lpc_low_level_output
  PROVE  TxInv'
  <1> DEFINE p == waiting[1]
             n == waiting[2]
  <1>1. /\ pidx \in TxDesc /\ cidx \in TxDesc /\ lastIdx \in TxDesc
        /\ txpacket \in [TxDesc -> TxPbufs \cup {None}] /\ txb \in [TxDesc -> TxPbufs \cup {None}]
        /\ refs \in [TxPbufs -> Nat] /\ p \in TxPbufs /\ n \in 1 .. MaxChain
        /\ unreclaimed \in Nat /\ unreclaimed + n <= MaxUnreclaimed
    BY Numbers DEF TxInv, TxTypeOK, RoomInRing, lpc_low_level_output, Nobody
  <1>2. /\ refs' = [refs EXCEPT ![p] = @ + 1]
        /\ txpacket' = [d \in TxDesc |-> IF d \in Taken(n) THEN p ELSE txpacket[d]]
        /\ txb' = [d \in TxDesc |->
                     IF d \notin Taken(n) THEN txb[d]
                     ELSE IF Distance(pidx, d) = n - 1 THEN p ELSE None]
        /\ pidx' \in TxDesc /\ Distance(pidx, pidx') = n
        /\ unreclaimed' = unreclaimed + n
        /\ waiting' = Nobody /\ cidx' = cidx /\ lastIdx' = lastIdx
    BY DEF lpc_low_level_output
  <1> HIDE DEF p, n
  <1>3. n \in Nat /\ n >= 1 /\ unreclaimed + n < TxN
    BY <1>1, Numbers
  <1>4. \A d \in TxDesc : d \in Taken(n) <=> Distance(pidx, d) < n
    BY DEF Taken
  \* The new descriptors lie beyond all that are to be reclaimed.
  <1>5. \A d \in TxDesc : Distance(pidx, d) < n => Distance(lastIdx, d) = unreclaimed + Distance(pidx, d)
    <2> TAKE d \in TxDesc
    <2>1. Distance(lastIdx, pidx) = unreclaimed
      BY DEF TxInv, RingOrder
    <2> QED
      BY <1>1, <1>3, <2>1, Numbers, Distances, ByWayOf
  <1>6. PICK e \in TxDesc : Distance(pidx, e) = n - 1
    <2>1. n - 1 \in 0 .. TxN - 1
      BY <1>1, <1>3, Numbers
    <2> QED
      BY <1>1, <2>1, Onward
  <1>7. \A d \in TxDesc : Distance(pidx, d) = n - 1 <=> d = e
    BY <1>1, <1>6, Distances
  <1>8. txb' \in [TxDesc -> TxPbufs \cup {None}] /\ \A d \in TxDesc :
            txb'[d] = IF Distance(pidx, d) >= n THEN txb[d] ELSE IF d = e THEN p ELSE None
    BY <1>1, <1>2, <1>3, <1>4, <1>7, Numbers, Distances
  <1>9. TxTypeOK'
    BY <1>1, <1>2, <1>3, <1>8, Numbers DEF TxTypeOK, Nobody
  <1>10. RoomInRing'
    BY <1>2 DEF RoomInRing
  <1>11. RingOrder'
    <2>1. Distance(lastIdx, pidx) = unreclaimed /\ Distance(lastIdx, cidx) + Distance(cidx, pidx) = unreclaimed
      BY DEF TxInv, RingOrder
    <2>2. Distance(lastIdx, pidx') = unreclaimed + n
      BY <1>1, <1>2, <1>3, <2>1, Numbers, Distances, ByWayOf
    <2>3. Distance(cidx, pidx') = Distance(cidx, pidx) + n
      BY <1>1, <1>2, <1>3, <2>1, Numbers, Distances, ByWayOf
    <2> QED
      BY <1>1, <1>2, <1>3, <2>1, <2>2, <2>3, Distances DEF RingOrder
  <1>12. NothingBeyond'
    <2> SUFFICES ASSUME NEW d \in TxDesc, Distance(lastIdx, d) >= unreclaimed + n PROVE txb'[d] = None
      BY <1>2 DEF NothingBeyond
    <2>1. Distance(pidx, d) >= n
      BY <1>1, <1>3, <1>5, Numbers, Distances
    <2>2. Distance(lastIdx, d) >= unreclaimed
      BY <1>1, <1>3, Numbers, Distances
    <2> QED
      BY <1>8, <2>1, <2>2 DEF TxInv, NothingBeyond
  <1>13. ASSUME NEW d \in TxDesc, txb[d] # None PROVE Distance(pidx, d) >= n /\ txb'[d] = txb[d]
    <2>1. ~(Distance(lastIdx, d) >= unreclaimed)
      BY <1>13 DEF TxInv, NothingBeyond
    <2>2. Distance(pidx, d) >= n
      BY <1>1, <1>3, <1>5, <2>1, Numbers, Distances
    <2> QED
      BY <1>8, <2>2
  <1>14. txb'[e] = p /\ txb[e] = None
    <2>1. ~(Distance(pidx, e) >= n)
      BY <1>1, <1>3, <1>6
    <2> QED
      BY <1>8, <1>13, <2>1
  <1>15. FreedLater'
    <2> SUFFICES ASSUME NEW q \in TxPbufs
                 PROVE  refs'[q] = Cardinality({d \in TxDesc : txb'[d] = q})
      BY DEF FreedLater
    <2>1. refs[q] = Cardinality(FreedWith(q)) /\ IsFiniteSet(FreedWith(q))
      BY FiniteRing DEF TxInv, FreedLater, FreedWith
    <2>2. q # None
      BY TxAssumption
    <2>3. CASE q = p
      <3>1. {d \in TxDesc : txb'[d] = q} = FreedWith(q) \cup {e}
        BY <1>8, <1>13, <1>14, <2>2, <2>3 DEF FreedWith
      <3>2. e \notin FreedWith(q)
        BY <1>14, <2>2 DEF FreedWith
      <3>3. Cardinality(FreedWith(q) \cup {e}) = Cardinality(FreedWith(q)) + 1
        BY <2>1, <3>2, FS_AddElement
      <3>4. refs'[q] = refs[q] + 1
        BY <1>1, <1>2, <2>3
      <3> QED
        BY <2>1, <3>1, <3>3, <3>4
    <2>4. CASE q # p
      <3>1. {d \in TxDesc : txb'[d] = q} = FreedWith(q)
        BY <1>8, <1>13, <2>2, <2>4 DEF FreedWith
      <3> QED
        BY <1>1, <1>2, <2>1, <2>4, <3>1
    <2> QED
      BY <2>3, <2>4
  <1>16. FreedBehind'
    <2> SUFFICES ASSUME NEW d \in TxDesc, Distance(cidx, d) < Distance(cidx, pidx')
                 PROVE  /\ txpacket'[d] \in TxPbufs
                        /\ \E f \in TxDesc : Distance(lastIdx, d) <= Distance(lastIdx, f) /\ txb'[f] = txpacket'[d]
      BY <1>2 DEF FreedBehind, InFlight
    <2>1. CASE Distance(pidx, d) < n
      <3>1. txpacket'[d] = p
        BY <1>2, <1>4, <2>1
      <3>2. Distance(lastIdx, d) = unreclaimed + Distance(pidx, d) /\ Distance(lastIdx, e) = unreclaimed + (n - 1)
        BY <1>3, <1>5, <1>6, <2>1
      <3>3. Distance(lastIdx, d) <= Distance(lastIdx, e)
        BY <1>1, <1>3, <2>1, <3>2, Numbers, Distances
      <3> QED
        BY <1>1, <1>14, <3>1, <3>3
    <2>2. CASE ~(Distance(pidx, d) < n)
      <3>1. txpacket'[d] = txpacket[d]
        BY <1>2, <1>4, <2>2
      <3>2. Distance(lastIdx, cidx) + Distance(cidx, pidx) = unreclaimed
        BY DEF TxInv, RingOrder
      <3>3. Distance(cidx, pidx') = Distance(cidx, pidx) + n
        BY <1>1, <1>2, <1>3, <3>2, Numbers, Distances, ByWayOf
      <3>4. Distance(cidx, d) < Distance(cidx, pidx)
        <4>1. Distance(cidx, d) = IF Distance(cidx, pidx) + Distance(pidx, d) < TxN
                                  THEN Distance(cidx, pidx) + Distance(pidx, d)
                                  ELSE Distance(cidx, pidx) + Distance(pidx, d) - TxN
          <5>1. cidx \in TxDesc /\ pidx \in TxDesc
            BY <1>1
          <5> QED
            BY <5>1, ByWayOf
        <4>2. Distance(cidx, pidx) \in 0 .. TxN - 1 /\ Distance(pidx, d) \in 0 .. TxN - 1
          BY <1>1, Distances
        <4>3. Distance(cidx, d) < Distance(cidx, pidx) + n
          BY <3>3
        <4> QED
          BY <1>3, <2>2, <4>1, <4>2, <4>3, Numbers
      <3>5. /\ txpacket[d] \in TxPbufs
            /\ \E f \in TxDesc : Distance(lastIdx, d) <= Distance(lastIdx, f) /\ txb[f] = txpacket[d]
        BY <3>4 DEF TxInv, FreedBehind, InFlight
      <3> QED
        BY <1>13, <3>1, <3>5, TxAssumption
    <2> QED
      BY <2>1, <2>2
  <1> QED
    BY <1>9, <1>10, <1>11, <1>12, <1>15, <1>16 DEF TxInv

LEMMA Sends == ASSUME TxInv, MaxUnreclaimed < TxN, Sent PROVE TxInv'
  <1>1. /\ pidx \in TxDesc /\ cidx \in TxDesc /\ lastIdx \in TxDesc
        /\ cidx # pidx /\ cidx' = TxAfter(cidx) /\ cidx' \in TxDesc
        /\ UNCHANGED <<pidx, lastIdx, txpacket, txb, refs, waiting, unreclaimed>>
        /\ unreclaimed \in Nat /\ unreclaimed < TxN
    BY Numbers, Onward DEF TxInv, TxTypeOK, Sent
  <1>2. Distance(lastIdx, pidx) = unreclaimed /\ Distance(lastIdx, cidx) + Distance(cidx, pidx) = unreclaimed
    BY DEF TxInv, RingOrder
  <1>3. Distance(cidx, cidx') = 1 /\ Distance(cidx, pidx) >= 1
    BY <1>1, Numbers, Distances, Onward
  <1>4. Distance(cidx, pidx) = 1 + Distance(cidx', pidx)
    BY <1>1, <1>3, Numbers, Distances, ByWayOf
  <1>5. Distance(lastIdx, cidx') = Distance(lastIdx, cidx) + 1
    BY <1>1, <1>2, <1>3, Numbers, Distances, ByWayOf
  <1>6. RingOrder'
    BY <1>1, <1>2, <1>4, <1>5, Distances DEF RingOrder
  <1>7. InFlight' \subseteq InFlight
    <2> SUFFICES ASSUME NEW d \in TxDesc, Distance(cidx', d) < Distance(cidx', pidx)
                 PROVE  Distance(cidx, d) < Distance(cidx, pidx)
      BY <1>1 DEF InFlight
    <2> QED
      BY <1>1, <1>3, <1>4, Numbers, Distances, ByWayOf
  <1>8. TxTypeOK' /\ FreedLater' /\ RoomInRing' /\ NothingBeyond'
    BY <1>1 DEF TxInv, TxTypeOK, FreedLater, RoomInRing, NothingBeyond
  <1>9. FreedBehind'
    BY <1>1, <1>7 DEF TxInv, FreedBehind
  <1> QED
    BY <1>6, <1>8, <1>9 DEF TxInv

LEMMA Reclaims == ASSUME TxInv, MaxUnreclaimed < TxN, lpc_tx_reclaim PROVE TxInv'
  <1>1. /\ pidx \in TxDesc /\ cidx \in TxDesc /\ lastIdx \in TxDesc
        /\ txpacket \in [TxDesc -> TxPbufs \cup {None}] /\ txb \in [TxDesc -> TxPbufs \cup {None}]
        /\ refs \in [TxPbufs -> Nat] /\ unreclaimed \in Nat /\ unreclaimed < TxN /\ unreclaimed <= MaxUnreclaimed
    BY Numbers DEF TxInv, TxTypeOK
  <1>2. /\ waiting = Nobody
        /\ refs' = [p \in TxPbufs |-> refs[p] - Cardinality({d \in Reclaimed : txb[d] = p})]
        /\ txb' = [d \in TxDesc |-> IF d \in Reclaimed THEN None ELSE txb[d]]
        /\ lastIdx' = cidx /\ unreclaimed' = Distance(cidx, pidx)
        /\ UNCHANGED <<pidx, cidx, txpacket, waiting>>
    BY DEF lpc_tx_reclaim
  <1>3. Distance(lastIdx, pidx) = unreclaimed /\ Distance(lastIdx, cidx) + Distance(cidx, pidx) = unreclaimed
    BY DEF TxInv, RingOrder
  <1>4. \A d \in TxDesc : d \in Reclaimed <=> Distance(lastIdx, d) < Distance(lastIdx, cidx)
    BY DEF Reclaimed
  <1>5. FreedLater' /\ refs' \in [TxPbufs -> Nat]
    <2>1. ASSUME NEW p \in TxPbufs
          PROVE  refs'[p] = Cardinality({d \in TxDesc : txb'[d] = p}) /\ refs'[p] \in Nat
      <3> DEFINE freed == {d \in Reclaimed : txb[d] = p}
      <3>1. p # None
        BY TxAssumption
      <3>2. {d \in TxDesc : txb'[d] = p} = FreedWith(p) \ freed /\ FreedWith(p) \cap freed = freed
        BY <1>2, <3>1 DEF FreedWith, Reclaimed
      <3>3. refs[p] = Cardinality(FreedWith(p)) /\ IsFiniteSet(FreedWith(p))
        BY FiniteRing DEF TxInv, FreedLater, FreedWith
      <3> HIDE DEF freed
      <3>4. Cardinality(FreedWith(p) \ freed) = Cardinality(FreedWith(p)) - Cardinality(FreedWith(p) \cap freed)
        BY <3>3, FS_Difference
      <3>5. Cardinality(FreedWith(p) \ freed) \in Nat
        BY <3>3, FS_Difference, FS_CardinalityType
      <3>6. refs'[p] = refs[p] - Cardinality(freed)
        BY <1>2 DEF freed
      <3> QED
        BY <3>2, <3>3, <3>4, <3>5, <3>6
    <2> QED
      BY <1>2, <2>1 DEF FreedLater
  <1>6. TxTypeOK' /\ RoomInRing'
    <2>1. Distance(cidx, pidx) \in 0 .. MaxUnreclaimed
      BY <1>1, <1>3, Numbers, Distances
    <2> QED
      BY <1>1, <1>2, <1>5, <2>1 DEF TxTypeOK, RoomInRing
  <1>7. RingOrder'
    BY <1>1, <1>2, Numbers, Distances DEF RingOrder
  <1>8. NothingBeyond'
    <2> SUFFICES ASSUME NEW d \in TxDesc, Distance(cidx, d) >= Distance(cidx, pidx), d \notin Reclaimed
                 PROVE  txb[d] = None
      BY <1>1, <1>2 DEF NothingBeyond
    <2>1. Distance(lastIdx, d) >= unreclaimed
      <3>1. Distance(lastIdx, d) = IF Distance(lastIdx, cidx) + Distance(cidx, d) < TxN
                                   THEN Distance(lastIdx, cidx) + Distance(cidx, d)
                                   ELSE Distance(lastIdx, cidx) + Distance(cidx, d) - TxN
        <4>1. lastIdx \in TxDesc /\ cidx \in TxDesc
          BY <1>1
        <4> QED
          BY <4>1, ByWayOf
      <3>2. /\ Distance(lastIdx, cidx) \in 0 .. TxN - 1 /\ Distance(cidx, d) \in 0 .. TxN - 1
            /\ Distance(cidx, pidx) \in 0 .. TxN - 1
        BY <1>1, Distances
      <3>3. ~(Distance(lastIdx, d) < Distance(lastIdx, cidx))
        BY <1>4
      <3> QED
        BY <1>3, <3>1, <3>2, <3>3, Numbers
    <2> QED
      BY <2>1 DEF TxInv, NothingBeyond
  <1>9. FreedBehind'
    <2> SUFFICES ASSUME NEW d \in TxDesc, Distance(cidx, d) < Distance(cidx, pidx)
                 PROVE  /\ txpacket[d] \in TxPbufs
                        /\ \E f \in TxDesc : Distance(cidx, d) <= Distance(cidx, f) /\ txb'[f] = txpacket[d]
      BY <1>2 DEF FreedBehind, InFlight
    <2>1. PICK f \in TxDesc : Distance(lastIdx, d) <= Distance(lastIdx, f) /\ txb[f] = txpacket[d]
      BY DEF TxInv, FreedBehind, InFlight
    <2>2. txpacket[d] \in TxPbufs
      BY DEF TxInv, FreedBehind, InFlight
    <2>3. Distance(lastIdx, d) = Distance(lastIdx, cidx) + Distance(cidx, d)
      BY <1>1, <1>3, Numbers, Distances, ByWayOf
    <2>4. f \notin Reclaimed /\ Distance(cidx, d) <= Distance(cidx, f)
      <3>1. ~(Distance(lastIdx, f) < Distance(lastIdx, cidx))
        BY <1>1, <2>1, <2>3, Distances
      <3>2. Distance(lastIdx, f) = Distance(lastIdx, cidx) + Distance(cidx, f)
        BY <1>1, <3>1, Numbers, Distances, ByWayOf
      <3> QED
        BY <1>1, <1>4, <2>1, <2>3, <3>1, <3>2, Distances
    <2> QED
      BY <1>2, <2>1, <2>2, <2>4
  <1> QED
    BY <1>5, <1>6, <1>7, <1>8, <1>9 DEF TxInv

LEMMA StepTxInv == ASSUME MaxUnreclaimed < TxN, TxInv, [TxNext]_txVars PROVE TxInv'
  <1>1. ASSUME NEW p \in TxPbufs, NEW n \in 1 .. MaxChain, Output(p, n) PROVE TxInv'
    <2>1. /\ unreclaimed + n <= MaxUnreclaimed /\ waiting' = <<p, n>>
          /\ UNCHANGED <<pidx, cidx, lastIdx, txpacket, txb, refs, unreclaimed>>
      BY <1>1 DEF Output
    <2>2. waiting'[2] = n /\ waiting' \in TxPbufs \X (1 .. MaxChain)
      BY <2>1
    <2> QED
      BY <2>1, <2>2 DEF TxInv, TxTypeOK, FreedLater, RoomInRing, RingOrder, NothingBeyond, FreedBehind, InFlight
  <1>2. CASE UNCHANGED txVars
    BY <1>2 DEF txVars, TxInv, TxTypeOK, FreedLater, RoomInRing, RingOrder, NothingBeyond, FreedBehind, InFlight
  <1> QED
    BY <1>1, <1>2, Outputs, Sends, Reclaims DEF TxNext

LEMMA TxInvHolds == TxInv => RefsSane
  <1> SUFFICES ASSUME TxInv, NEW d \in InFlight PROVE refs[txpacket[d]] > 0
    BY DEF TxInv, RefsSane, HeldWhileInFlight
  <1>1. PICK e \in TxDesc : txpacket[d] \in TxPbufs /\ txb[e] = txpacket[d]
    BY DEF TxInv, FreedBehind
  <1>2. e \in FreedWith(txpacket[d]) /\ IsFiniteSet(FreedWith(txpacket[d]))
    BY <1>1, FiniteRing DEF FreedWith
  <1>3. Cardinality(FreedWith(txpacket[d])) # 0 /\ Cardinality(FreedWith(txpacket[d])) \in Nat
    BY <1>2, FS_EmptySet, FS_CardinalityType
  <1> QED
    BY <1>1, <1>3 DEF TxInv, FreedLater, FreedWith

\* The driver holds a reference to each chain of which a descriptor is not sent
\* yet, and to no other but one that lpc_tx_reclaim will free, if fewer
\* descriptors than the ring has are used from one pass of the main loop to the
\* next.  (With more it does not: lpc_low_level_output does not look whether
\* what it reuses was reclaimed.)
THEOREM References == MaxUnreclaimed < TxN => (TxSpec => []RefsSane)
  <1> SUFFICES ASSUME MaxUnreclaimed < TxN PROVE TxSpec => []RefsSane
    OBVIOUS
  <1>1. TxInit => TxInv
    BY InitTxInv
  <1>2. TxInv /\ [TxNext]_txVars => TxInv'
    BY StepTxInv
  <1>3. TxInv => RefsSane
    BY TxInvHolds
  <1> QED
    BY <1>1, <1>2, <1>3, PTL DEF TxSpec

(***************************************************************************)
(* The list of timers                                                      *)
(***************************************************************************)
\* The lists of timers.
TimerRec == [h : Handlers, time : Nat]

\* f sums up the times of list l.
Adds(f, l) == f[0] = 0 /\ \A i \in 1 .. Len(l) : f[i] = f[i - 1] + l[i].time
Sums(f, l) == f \in [0 .. Len(l) -> Nat] /\ Adds(f, l)

\* Sums of the same differences agree.
LEMMA SumsAgree ==
  ASSUME NEW l \in Seq(TimerRec), NEW f, NEW g, Adds(f, l), Adds(g, l)
  PROVE  \A i \in 0 .. Len(l) : f[i] = g[i]
  <1> DEFINE S == {i \in Nat : i <= Len(l) => f[i] = g[i]}
             n == Len(l)
  <1>1. n \in Nat
    OBVIOUS
  <1>2. \A i \in 1 .. n : f[i] = f[i - 1] + l[i].time /\ g[i] = g[i - 1] + l[i].time
    BY DEF Adds
  <1> HIDE DEF n
  <1>3. 0 \in S
    BY DEF Adds
  <1>4. ASSUME NEW i \in Nat, i \in S PROVE i + 1 \in S
    <2> SUFFICES ASSUME i + 1 <= n PROVE f[i + 1] = g[i + 1]
      BY DEF n
    <2>1. i + 1 \in 1 .. n /\ (i + 1) - 1 = i
      BY <1>1
    <2>2. f[i] = g[i]
      BY <1>1, <1>4, <2>1 DEF n
    <2> QED  BY <1>2, <2>1, <2>2
  <1> HIDE DEF S
  <1>5. Nat \subseteq S
    BY <1>3, <1>4, Induct
  <1> QED  BY <1>1, <1>5 DEF S, n

\* WaitsIn sums them up.
LEMMA WaitsInSums == ASSUME NEW l \in Seq(TimerRec) PROVE Sums(WaitsIn(l), l)
  <1> DEFINE n == Len(l)
             d == [i \in 1 .. n |-> l[i].time]
             step == [i \in 1 .. n |-> [x \in Nat |-> x + d[i]]]
             R(f) == f = [i \in 0 .. Len(l) |-> IF i = 0 THEN 0 ELSE f[i - 1] + l[i].time]
             sum == CHOOSE f : f = [i \in 0 .. Len(l) |-> IF i = 0 THEN 0 ELSE f[i - 1] + l[i].time]
  <1>1. n \in Nat /\ \A i \in 1 .. n : l[i] \in TimerRec
    OBVIOUS
  <1>2. n \in Nat /\ d \in [1 .. n -> Nat]
    <2>1. \A i \in 1 .. n : l[i].time \in Nat
      BY <1>1 DEF TimerRec
    <2> QED  BY <1>1, <2>1
  <1>d. \A i \in 1 .. n : d[i] = l[i].time
    OBVIOUS
  <1>3. step \in [1 .. n -> [Nat -> Nat]] /\ \A i \in 1 .. n : \A x \in Nat : step[i][x] = x + d[i]
    <2> HIDE DEF d
    <2>1. ASSUME NEW i \in 1 .. n PROVE [x \in Nat |-> x + d[i]] \in [Nat -> Nat]
      BY <1>2
    <2> QED  BY <2>1
  <1>4. PICK f \in [0 .. n -> Nat] : f[0] = 0 /\ \A i \in 1 .. n : f[i] = step[i][f[i - 1]]
    <2>0. 0 \in Nat
      OBVIOUS
    <2>1. n \in Nat
      OBVIOUS
    <2>2. StepsOn(step, Nat, n)
      BY <1>3 DEF StepsOn
    <2> HIDE DEF step, n
    <2>3. \E f : Makes(f, Nat, 0, n, step)
      BY <2>0, <2>1, <2>2, Recursion
    <2> QED  BY <2>3 DEF Makes
  <1>5. \A i \in 1 .. n : f[i] = f[i - 1] + l[i].time
    <2> SUFFICES ASSUME NEW i \in 1 .. n PROVE f[i] = f[i - 1] + l[i].time
      OBVIOUS
    <2>1. i - 1 \in 0 .. n
      BY <1>2
    <2>2. f[i - 1] \in Nat
      BY <2>1
    <2> HIDE DEF step, n, d
    <2> QED  BY <1>3, <1>4, <1>d, <2>2
  <1>6. R(f)
    BY <1>2, <1>4, <1>5
  <1>7. R(sum)
    <2>1. \E e : R(e)
      BY <1>6
    <2> QED  BY <2>1
  <1> HIDE DEF step, d
  <1>8. sum = WaitsIn(l)
    BY DEF WaitsIn
  <1> HIDE DEF sum
  <1>9. sum[0] = 0 /\ \A i \in 1 .. Len(l) : sum[i] = sum[i - 1] + l[i].time
    BY <1>2, <1>7
  <1>10. f[0] = 0 /\ \A i \in 1 .. Len(l) : f[i] = f[i - 1] + l[i].time
    BY <1>4, <1>5
  <1>a. Adds(sum, l) /\ Adds(f, l)
    BY <1>9, <1>10 DEF Adds
  <1>11. \A i \in 0 .. Len(l) : sum[i] = f[i]
    BY <1>a, SumsAgree
  <1>12. sum \in [0 .. Len(l) -> Nat]
    <2>1. DOMAIN sum = 0 .. Len(l) /\ sum = [i \in 0 .. Len(l) |-> sum[i]]
      BY <1>7
    <2> QED  BY <1>4, <1>11, <2>1
  <1> QED  BY <1>8, <1>9, <1>12 DEF Sums, Adds

\* The place sys_timeout finds: behind what waits no longer than msecs.
LEMMA BeforeIs ==
  ASSUME NEW l \in Seq(TimerRec), NEW msecs \in Nat
  PROVE  LET p == Before(l, Left(l, msecs)) w == WaitsIn(l)
         IN p \in 0 .. Len(l) /\ w[p] <= msecs /\ (p < Len(l) => w[p + 1] > msecs)
  <1> DEFINE n == Len(l)
             w == WaitsIn(l)
             left == Left(l, msecs)
             p == Before(l, left)
             Stops(i) == i = n \/ l[i + 1].time > left[i]
             Q == {i \in 0 .. n : Stops(i)}
  <1>1. n \in Nat /\ \A i \in 1 .. n : l[i].time \in Nat
    <2>1. \A i \in 1 .. n : l[i] \in TimerRec
      OBVIOUS
    <2> QED  BY <2>1 DEF TimerRec
  <1>2. w \in [0 .. n -> Nat] /\ w[0] = 0 /\ \A i \in 1 .. n : w[i] = w[i - 1] + l[i].time
    BY WaitsInSums DEF Sums, Adds
  <1>3. \A i \in 0 .. n : left[i] = msecs - w[i]
    BY DEF Left
  <1>p. p = CHOOSE i \in 0 .. n : Stops(i) /\ \A j \in 0 .. i - 1 : l[j + 1].time <= left[j]
    BY DEF Before
  <1> HIDE DEF n, w, left, p
  <1>4. \E i \in 0 .. n : Stops(i) /\ \A j \in 0 .. i - 1 : l[j + 1].time <= left[j]
    <2>1. n \in Q /\ Q \subseteq Nat
      BY <1>1
    <2>2. Min(Q) \in Q /\ \A i \in Q : Min(Q) <= i
      <3> HIDE DEF Q
      <3> QED  BY <2>1, MinOfNats
    <2>3. PICK i \in 0 .. n : Stops(i) /\ \A j \in Q : i <= j
      BY <2>2
    <2>4. ASSUME NEW j \in 0 .. i - 1 PROVE l[j + 1].time <= left[j]
      <3>1. j \in 0 .. n /\ j + 1 \in 1 .. n /\ ~(i <= j)
        BY <1>1
      <3>2. ~Stops(j)
        BY <2>3, <3>1
      <3>3. l[j + 1].time \in Nat /\ left[j] \in Int
        <4>1. l[j + 1].time \in Nat
          BY <1>1, <3>1
        <4>2. w[j] \in Nat /\ left[j] = msecs - w[j]
          BY <1>2, <1>3, <3>1
        <4> QED  BY <4>1, <4>2
      <3> QED  BY <3>2, <3>3
    <2> QED  BY <2>3, <2>4
  <1>5. p \in 0 .. n /\ Stops(p) /\ \A j \in 0 .. p - 1 : l[j + 1].time <= left[j]
    BY <1>4, <1>p
  <1>6. w[p] <= msecs
    <2>1. CASE p = 0
      BY <1>2, <2>1
    <2>2. CASE p # 0
      <3>1. p - 1 \in 0 .. p - 1 /\ p - 1 \in 0 .. n /\ p \in 1 .. n /\ (p - 1) + 1 = p
        BY <1>1, <1>5, <2>2
      <3>2. l[p].time <= left[p - 1] /\ left[p - 1] = msecs - w[p - 1] /\ w[p] = w[p - 1] + l[p].time
        BY <1>2, <1>3, <1>5, <3>1
      <3>3. w[p - 1] \in Nat /\ l[p].time \in Nat
        BY <1>1, <1>2, <3>1
      <3> QED  BY <3>2, <3>3
    <2> QED  BY <2>1, <2>2
  <1>7. p < n => w[p + 1] > msecs
    <2> SUFFICES ASSUME p < n PROVE w[p + 1] > msecs
      OBVIOUS
    <2>1. p + 1 \in 1 .. n /\ (p + 1) - 1 = p
      BY <1>1, <1>5
    <2>2. l[p + 1].time > left[p] /\ left[p] = msecs - w[p] /\ w[p + 1] = w[p] + l[p + 1].time
      BY <1>2, <1>3, <1>5, <2>1
    <2>3. w[p] \in Nat /\ l[p + 1].time \in Nat
      BY <1>1, <1>2, <1>5, <2>1
    <2> QED  BY <2>2, <2>3
  <1> QED  BY <1>5, <1>6, <1>7 DEF n, w, left, p

\* m is list l with a timer for h put in at place p + 1: the others keep their
\* order and their waits.
Inserted(l, m, h, msecs, p) ==
    /\ m \in Seq(TimerRec) /\ Len(m) = Len(l) + 1
    /\ \A i \in 1 .. Len(l) + 1 :
          /\ m[i].h = IF i <= p THEN l[i].h ELSE IF i = p + 1 THEN h ELSE l[i - 1].h
          /\ WaitsIn(m)[i] = IF i <= p THEN WaitsIn(l)[i]
                             ELSE IF i = p + 1 THEN msecs ELSE WaitsIn(l)[i - 1]

LEMMA InsertIs ==
  ASSUME NEW l \in Seq(TimerRec), NEW h \in Handlers, NEW msecs \in Nat
  PROVE  \E p \in 0 .. Len(l) : Inserted(l, Insert(l, h, msecs), h, msecs, p)
  <1> DEFINE n == Len(l)
             w == WaitsIn(l)
             left == Left(l, msecs)
             p == Before(l, left)
             m == Insert(l, h, msecs)
             v == [i \in 0 .. n + 1 |-> IF i <= p THEN w[i] ELSE IF i = p + 1 THEN msecs ELSE w[i - 1]]
  <1>1. n \in Nat /\ \A i \in 1 .. n : l[i].time \in Nat /\ l[i].h \in Handlers
    <2>1. \A i \in 1 .. n : l[i] \in TimerRec
      OBVIOUS
    <2> QED  BY <2>1 DEF TimerRec
  <1>2. w \in [0 .. n -> Nat] /\ w[0] = 0 /\ \A i \in 1 .. n : w[i] = w[i - 1] + l[i].time
    BY WaitsInSums DEF Sums, Adds
  <1>3. \A i \in 0 .. n : left[i] = msecs - w[i]
    BY DEF Left
  <1>4. p \in 0 .. n /\ w[p] <= msecs /\ (p < n => w[p + 1] > msecs)
    BY BeforeIs
  <1>5. m = [i \in 1 .. n + 1 |->
               CASE i <= p    -> l[i]
                 [] i = p + 1 -> Entry(h, left[p])
                 [] i = p + 2 -> Entry(l[p + 1].h, l[p + 1].time - left[p])
                 [] OTHER     -> l[i - 1]]
    BY DEF Insert
  <1>l. \A i \in 1 .. n : l[i] \in TimerRec
    OBVIOUS
  <1> HIDE DEF n, w, left, p, m
  <1>6. ASSUME NEW i \in 1 .. n + 1
        PROVE  /\ m[i] \in TimerRec
               /\ m[i].h = IF i <= p THEN l[i].h ELSE IF i = p + 1 THEN h ELSE l[i - 1].h
               /\ v[i] = v[i - 1] + m[i].time
    <2>0. i \in Nat /\ p \in Nat /\ i \in 0 .. n + 1 /\ i - 1 \in 0 .. n + 1
      BY <1>1, <1>4
    <2>1. CASE i <= p
      <3>1. i \in 1 .. n /\ i - 1 <= p
        BY <1>1, <1>4, <2>1
      <3>2. m[i] = l[i] /\ v[i] = w[i] /\ v[i - 1] = w[i - 1]
        BY <1>5, <2>0, <2>1, <3>1
      <3> QED  BY <1>2, <1>l, <2>1, <3>1, <3>2
    <2>2. CASE i = p + 1
      <3>1. ~(i <= p) /\ i - 1 <= p /\ i - 1 = p
        BY <2>0, <2>2
      <3>2. m[i] = Entry(h, left[p]) /\ v[i] = msecs /\ v[i - 1] = w[p]
        BY <1>5, <2>0, <2>2, <3>1
      <3>3. left[p] = msecs - w[p] /\ w[p] \in Nat
        BY <1>2, <1>3, <1>4
      <3>4. left[p] \in Nat /\ msecs = w[p] + left[p]
        BY <1>4, <3>3
      <3> QED  BY <2>2, <3>1, <3>2, <3>4 DEF Entry, TimerRec
    <2>3. CASE i = p + 2
      <3>1. ~(i <= p) /\ ~(i = p + 1) /\ ~(i - 1 <= p) /\ i - 1 = p + 1 /\ p < n /\ p + 1 \in 1 .. n /\ (p + 1) - 1 = p
        BY <1>1, <1>4, <2>0, <2>3
      <3>2. m[i] = Entry(l[p + 1].h, l[p + 1].time - left[p]) /\ v[i] = w[p + 1] /\ v[i - 1] = msecs
        BY <1>5, <2>0, <2>3, <3>1
      <3>3. left[p] = msecs - w[p] /\ w[p] \in Nat /\ w[p + 1] = w[p] + l[p + 1].time /\ w[p + 1] > msecs
        BY <1>2, <1>3, <1>4, <3>1
      <3>4. l[p + 1].time \in Nat /\ l[p + 1].h \in Handlers
        BY <1>1, <3>1
      <3>5. l[p + 1].time - left[p] \in Nat /\ w[p + 1] = msecs + (l[p + 1].time - left[p])
        BY <3>3, <3>4
      <3>6. m[i].h = l[p + 1].h /\ m[i].time = l[p + 1].time - left[p] /\ m[i] \in TimerRec
        BY <3>2, <3>4, <3>5 DEF Entry, TimerRec
      <3> QED  BY <3>1, <3>2, <3>5, <3>6
    <2>4. CASE i > p + 2
      <3>1. /\ ~(i <= p) /\ ~(i = p + 1) /\ ~(i = p + 2) /\ ~(i - 1 <= p) /\ ~(i - 1 = p + 1)
            /\ i - 1 \in 1 .. n
        BY <1>1, <1>4, <2>0, <2>4
      <3>2. m[i] = l[i - 1] /\ v[i] = w[i - 1] /\ v[i - 1] = w[(i - 1) - 1]
        BY <1>5, <2>0, <3>1
      <3> QED  BY <1>2, <1>l, <3>1, <3>2
    <2> QED  BY <2>0, <2>1, <2>2, <2>3, <2>4
  <1>7. m \in Seq(TimerRec) /\ Len(m) = n + 1
    <2>1. DOMAIN m = 1 .. n + 1
      BY <1>5
    <2>2. m \in [1 .. n + 1 -> TimerRec]
      <3>1. m = [i \in 1 .. n + 1 |-> m[i]]
        BY <1>5
      <3> QED  BY <1>6, <3>1
    <2> QED  BY <1>1, <2>1, <2>2
  <1>8. \A i \in 0 .. n + 1 : WaitsIn(m)[i] = v[i]
    <2>0. v[0] = 0
      <3>1. 0 \in 0 .. n + 1 /\ 0 <= p
        BY <1>1, <1>4
      <3> QED  BY <1>2, <3>1
    <2>1. \A i \in 1 .. Len(m) : v[i] = v[i - 1] + m[i].time
      <3> HIDE DEF v
      <3> QED  BY <1>6, <1>7
    <2> HIDE DEF v
    <2> DEFINE u == WaitsIn(m)
    <2>2. Adds(u, m)
      BY <1>7, WaitsInSums DEF Sums
    <2>3. Adds(v, m)
      BY <2>0, <2>1 DEF Adds
    <2>m. m \in Seq(TimerRec)
      BY <1>7
    <2> HIDE DEF u
    <2>4. \A i \in 0 .. Len(m) : u[i] = v[i]
      BY <2>m, <2>2, <2>3, SumsAgree
    <2> QED  BY <1>7, <2>4 DEF u
  <1>9. \A i \in 1 .. n + 1 : WaitsIn(m)[i] = IF i <= p THEN w[i] ELSE IF i = p + 1 THEN msecs ELSE w[i - 1]
    BY <1>8
  <1>10. Inserted(l, m, h, msecs, p)
    BY <1>6, <1>7, <1>9 DEF Inserted, n, w
  <1> QED  BY <1>4, <1>10 DEF m, n

-----------------------------------------------------------------------------
\* Nobody is on list l twice.
Once(l) == \A i, j \in 1 .. Len(l) : l[i].h = l[j].h => i = j

LEMMA WaitAt ==
  ASSUME NEW l, Once(l), NEW i \in 1 .. Len(l)
  PROVE  WaitOf(l, l[i].h) = WaitsIn(l)[i]
  <1> DEFINE k == CHOOSE j \in 1 .. Len(l) : l[j].h = l[i].h
  <1>1. k \in 1 .. Len(l) /\ l[k].h = l[i].h
    OBVIOUS
  <1>2. k = i
    BY <1>1 DEF Once
  <1> QED  BY <1>2 DEF WaitOf

\* What is on a list, and waits.
LEMMA OnList ==
  ASSUME NEW l \in Seq(TimerRec), Once(l), NEW g \in HandlersOn(l)
  PROVE  g \in Handlers /\ WaitOf(l, g) \in Nat
  <1>1. PICK i \in 1 .. Len(l) : g = l[i].h
    BY DEF HandlersOn
  <1>2. l[i] \in TimerRec /\ i \in 0 .. Len(l)
    BY <1>1
  <1>3. WaitsIn(l) \in [0 .. Len(l) -> Nat]
    BY WaitsInSums DEF Sums
  <1>4. WaitOf(l, g) = WaitsIn(l)[i]
    BY <1>1, WaitAt
  <1> QED  BY <1>1, <1>2, <1>3, <1>4 DEF TimerRec

\* A timer is armed: m is l and h, which waits msecs.
ArmedOn(l, m, h, msecs) ==
    /\ m \in Seq(TimerRec) /\ Once(m)
    /\ HandlersOn(m) = HandlersOn(l) \cup {h}
    /\ WaitOf(m, h) = msecs
    /\ \A g \in HandlersOn(l) : WaitOf(m, g) = WaitOf(l, g)

LEMMA ArmingIs ==
  ASSUME NEW l \in Seq(TimerRec), Once(l), NEW h \in Handlers, h \notin HandlersOn(l), NEW msecs \in Nat
  PROVE  ArmedOn(l, Insert(l, h, msecs), h, msecs)
  <1> DEFINE m == Insert(l, h, msecs)
             n == Len(l)
  <1>1. PICK p \in 0 .. n : Inserted(l, m, h, msecs, p)
    BY InsertIs
  <1> HIDE DEF m
  <1>2. /\ n \in Nat /\ p \in Nat /\ p <= n /\ m \in Seq(TimerRec) /\ Len(m) = n + 1
        /\ \A i \in 1 .. n + 1 : m[i].h = IF i <= p THEN l[i].h ELSE IF i = p + 1 THEN h ELSE l[i - 1].h
    BY <1>1 DEF Inserted
  <1>3. \A i \in 1 .. n + 1 : WaitsIn(m)[i] = IF i <= p THEN WaitsIn(l)[i]
                                             ELSE IF i = p + 1 THEN msecs ELSE WaitsIn(l)[i - 1]
    BY <1>1 DEF Inserted
  <1>4. \A i \in 1 .. n : l[i].h # h
    BY DEF HandlersOn
  <1>o. \A i, j \in 1 .. n : l[i].h = l[j].h => i = j
    BY DEF Once
  <1> HIDE DEF n
  <1> DEFINE From(i) == IF i <= p THEN i ELSE i - 1
             To(i) == IF i <= p THEN i ELSE i + 1
  <1>5. \A i \in 1 .. n + 1 : i # p + 1 => /\ From(i) \in 1 .. n /\ m[i].h = l[From(i)].h
    BY <1>2
  <1>6. \A i, j \in 1 .. n + 1 : i # p + 1 /\ j # p + 1 /\ From(i) = From(j) => i = j
    BY <1>2
  <1>7. \A i \in 1 .. n : /\ To(i) \in 1 .. n + 1 /\ To(i) # p + 1 /\ From(To(i)) = i
                          /\ m[To(i)].h = l[i].h /\ WaitsIn(m)[To(i)] = WaitsIn(l)[i]
    <2> SUFFICES ASSUME NEW i \in 1 .. n
                 PROVE  /\ To(i) \in 1 .. n + 1 /\ To(i) # p + 1 /\ From(To(i)) = i
                        /\ m[To(i)].h = l[i].h /\ WaitsIn(m)[To(i)] = WaitsIn(l)[i]
      OBVIOUS
    <2>1. CASE i <= p
      BY <1>2, <1>3, <2>1
    <2>2. CASE ~(i <= p)
      <3>1. i + 1 \in 1 .. n + 1 /\ ~(i + 1 <= p) /\ i + 1 # p + 1 /\ (i + 1) - 1 = i
        BY <1>2, <2>2
      <3> QED  BY <1>2, <1>3, <2>2, <3>1
    <2> QED  BY <2>1, <2>2
  <1>8. p + 1 \in 1 .. n + 1 /\ m[p + 1].h = h /\ WaitsIn(m)[p + 1] = msecs
    <2>1. p + 1 \in 1 .. n + 1 /\ ~(p + 1 <= p)
      BY <1>2
    <2> QED  BY <1>2, <1>3, <2>1
  <1> HIDE DEF From, To
  <1>9. Once(m)
    <2> SUFFICES ASSUME NEW i \in 1 .. n + 1, NEW j \in 1 .. n + 1, m[i].h = m[j].h PROVE i = j
      BY <1>2 DEF Once
    <2>1. i = p + 1 <=> m[i].h = h
      BY <1>4, <1>5, <1>8
    <2>2. j = p + 1 <=> m[j].h = h
      BY <1>4, <1>5, <1>8
    <2>3. CASE i # p + 1
      <3>1. j # p + 1
        BY <2>1, <2>2, <2>3
      <3>2. From(i) = From(j)
        BY <1>5, <1>o, <2>3, <3>1
      <3> QED  BY <1>6, <2>3, <3>1, <3>2
    <2>4. CASE i = p + 1
      BY <2>1, <2>2, <2>4
    <2> QED  BY <2>3, <2>4
  <1>10. HandlersOn(m) = HandlersOn(l) \cup {h}
    <2>1. \A g \in HandlersOn(m) : g \in HandlersOn(l) \cup {h}
      BY <1>2, <1>5, <1>8 DEF HandlersOn, n
    <2>2. \A g \in HandlersOn(l) : g \in HandlersOn(m)
      BY <1>2, <1>7 DEF HandlersOn, n
    <2>3. h \in HandlersOn(m)
      BY <1>2, <1>8 DEF HandlersOn
    <2> QED  BY <2>1, <2>2, <2>3
  <1>11. WaitOf(m, h) = msecs
    BY <1>2, <1>8, <1>9, WaitAt
  <1>12. ASSUME NEW g \in HandlersOn(l) PROVE WaitOf(m, g) = WaitOf(l, g)
    <2>1. PICK i \in 1 .. n : g = l[i].h
      BY DEF HandlersOn, n
    <2>2. WaitOf(l, g) = WaitsIn(l)[i]
      BY <2>1, WaitAt DEF n
    <2>3. To(i) \in 1 .. Len(m) /\ m[To(i)].h = g
      BY <1>2, <1>7, <2>1
    <2>4. WaitOf(m, g) = WaitsIn(m)[To(i)]
      BY <1>9, <2>3, WaitAt
    <2> QED  BY <1>7, <2>1, <2>2, <2>4
  <1> QED  BY <1>2, <1>9, <1>10, <1>11, <1>12 DEF ArmedOn, m

\* The first entry is taken off: it waits least, and the others wait less by
\* what it waited.
TakenOff(l, m, h, msecs) ==
    /\ m \in Seq(TimerRec) /\ Once(m)
    /\ h \in HandlersOn(l) /\ HandlersOn(m) = HandlersOn(l) \ {h}
    /\ WaitOf(l, h) = msecs
    /\ \A g \in HandlersOn(l) : msecs <= WaitOf(l, g)
    /\ \A g \in HandlersOn(m) : WaitOf(m, g) = WaitOf(l, g) - msecs

LEMMA ExpiryIs ==
  ASSUME NEW l \in Seq(TimerRec), Once(l), l # <<>>
  PROVE  TakenOff(l, Tail(l), Head(l).h, Head(l).time)
  <1> DEFINE m == Tail(l)
             n == Len(l)
             w == WaitsIn(l)
             v == [i \in 0 .. Len(l) - 1 |-> w[i + 1] - w[1]]
             u == WaitsIn(m)
  <1>1. /\ n \in Nat /\ n # 0 /\ m \in Seq(TimerRec) /\ Len(m) = n - 1 /\ Head(l) = l[1]
        /\ \A i \in 1 .. n - 1 : m[i] = l[i + 1]
    OBVIOUS
  <1>2. w \in [0 .. n -> Nat] /\ w[0] = 0 /\ \A i \in 1 .. n : w[i] = w[i - 1] + l[i].time
    BY WaitsInSums DEF Sums, Adds
  <1>3. \A i \in 1 .. n : l[i].time \in Nat
    <2>1. \A i \in 1 .. n : l[i] \in TimerRec
      OBVIOUS
    <2> QED  BY <2>1 DEF TimerRec
  <1>o. \A i, j \in 1 .. n : l[i].h = l[j].h => i = j
    BY DEF Once
  <1>v. v = [i \in 0 .. n - 1 |-> w[i + 1] - w[1]]
    OBVIOUS
  <1> HIDE DEF m, n, w, v, u
  <1>4. w[1] = Head(l).time
    <2>1. 1 \in 1 .. n /\ 1 - 1 = 0
      BY <1>1
    <2> QED  BY <1>1, <1>2, <1>3, <2>1
  <1>5. \A i \in 1 .. n : w[1] <= w[i]
    <2> DEFINE S == {i \in Nat : i + 1 <= n => w[1] <= w[i + 1]}
    <2>1. 0 \in S
      BY <1>1, <1>2
    <2>2. ASSUME NEW i \in Nat, i \in S PROVE i + 1 \in S
      <3> SUFFICES ASSUME (i + 1) + 1 <= n PROVE w[1] <= w[(i + 1) + 1]
        OBVIOUS
      <3>1. (i + 1) + 1 \in 1 .. n /\ i + 1 \in 0 .. n /\ 1 \in 0 .. n /\ ((i + 1) + 1) - 1 = i + 1
        BY <1>1
      <3>2. w[(i + 1) + 1] = w[i + 1] + l[(i + 1) + 1].time /\ l[(i + 1) + 1].time \in Nat
        BY <1>2, <1>3, <3>1
      <3>3. w[1] <= w[i + 1] /\ w[1] \in Nat /\ w[i + 1] \in Nat
        BY <1>1, <1>2, <2>2, <3>1
      <3> QED  BY <3>2, <3>3
    <2>3. Nat \subseteq S
      <3> HIDE DEF S
      <3> QED  BY <2>1, <2>2, Induct
    <2>4. ASSUME NEW i \in 1 .. n PROVE w[1] <= w[i]
      <3>1. i - 1 \in Nat /\ (i - 1) + 1 = i /\ i <= n
        BY <1>1
      <3>2. i - 1 \in S
        BY <2>3, <3>1
      <3> QED  BY <3>1, <3>2
    <2> QED  BY <2>4
  <1>6. \A i \in 0 .. n - 1 : u[i] = w[i + 1] - w[1]
    <2>1. Adds(u, m)
      BY <1>1, WaitsInSums DEF Sums, u
    <2>2. v[0] = 0
      <3>1. 0 \in 0 .. n - 1 /\ 1 \in 0 .. n
        BY <1>1
      <3>2. w[1] \in Nat
        BY <1>2, <3>1
      <3> QED  BY <1>v, <3>1, <3>2
    <2>3. ASSUME NEW i \in 1 .. n - 1 PROVE v[i] = v[i - 1] + m[i].time
      <3>1. /\ i \in 0 .. n - 1 /\ i - 1 \in 0 .. n - 1 /\ i + 1 \in 1 .. n /\ i \in 0 .. n /\ 1 \in 0 .. n
            /\ (i + 1) - 1 = i /\ (i - 1) + 1 = i
        BY <1>1
      <3>2. v[i] = w[i + 1] - w[1] /\ v[i - 1] = w[i] - w[1]
        BY <1>v, <3>1
      <3>3. w[i + 1] = w[i] + m[i].time /\ m[i].time \in Nat
        BY <1>1, <1>2, <1>3, <3>1
      <3>4. w[1] \in Nat /\ w[i] \in Nat
        BY <1>2, <3>1
      <3> QED  BY <3>2, <3>3, <3>4
    <2>4. Adds(v, m)
      BY <1>1, <2>2, <2>3 DEF Adds
    <2>m. m \in Seq(TimerRec)
      BY <1>1
    <2>5. \A i \in 0 .. Len(m) : u[i] = v[i]
      BY <2>1, <2>4, <2>m, SumsAgree
    <2> QED  BY <1>1, <1>v, <2>5
  <1>7. Once(m)
    <2> SUFFICES ASSUME NEW i \in 1 .. n - 1, NEW j \in 1 .. n - 1, m[i].h = m[j].h PROVE i = j
      BY <1>1 DEF Once
    <2>1. i + 1 \in 1 .. n /\ j + 1 \in 1 .. n
      BY <1>1
    <2>2. i + 1 = j + 1
      BY <1>1, <1>o, <2>1
    <2> QED  BY <2>2
  <1>8. \A i \in 1 .. n - 1 : i + 1 \in 1 .. n /\ i + 1 # 1 /\ m[i].h = l[i + 1].h
    BY <1>1
  <1>9. \A i \in 2 .. n : i - 1 \in 1 .. n - 1 /\ (i - 1) + 1 = i /\ m[i - 1].h = l[i].h
    <2>1. \A i \in 2 .. n : i - 1 \in 1 .. n - 1 /\ (i - 1) + 1 = i
      BY <1>1
    <2> QED  BY <1>8, <2>1
  <1>10. 1 \in 1 .. n /\ \A i \in 1 .. n : i = 1 \/ i \in 2 .. n
    BY <1>1
  <1>11. Head(l).h \in HandlersOn(l)
    BY <1>1, <1>10 DEF HandlersOn, n
  <1>12. HandlersOn(m) = HandlersOn(l) \ {Head(l).h}
    <2>1. \A g \in HandlersOn(m) : g \in HandlersOn(l) /\ g # Head(l).h
      <3> SUFFICES ASSUME NEW i \in 1 .. n - 1 PROVE m[i].h \in HandlersOn(l) /\ m[i].h # l[1].h
        BY <1>1 DEF HandlersOn
      <3>1. m[i].h = l[i + 1].h /\ i + 1 \in 1 .. n /\ i + 1 # 1
        BY <1>8
      <3> QED  BY <1>10, <1>o, <3>1 DEF HandlersOn, n
    <2>2. \A g \in HandlersOn(l) : g # Head(l).h => g \in HandlersOn(m)
      <3> SUFFICES ASSUME NEW i \in 1 .. n, l[i].h # l[1].h PROVE l[i].h \in HandlersOn(m)
        BY <1>1 DEF HandlersOn, n
      <3>1. i \in 2 .. n
        BY <1>10
      <3>2. i - 1 \in 1 .. Len(m) /\ m[i - 1].h = l[i].h
        BY <1>1, <1>9, <3>1
      <3> QED  BY <3>2 DEF HandlersOn
    <2> QED  BY <2>1, <2>2
  <1>13. WaitOf(l, Head(l).h) = Head(l).time
    <2>1. WaitOf(l, l[1].h) = w[1]
      BY <1>10, WaitAt DEF n, w
    <2> QED  BY <1>1, <1>4, <2>1
  <1>14. ASSUME NEW g \in HandlersOn(l) PROVE Head(l).time <= WaitOf(l, g)
    <2>1. PICK i \in 1 .. n : g = l[i].h
      BY DEF HandlersOn, n
    <2>2. WaitOf(l, g) = w[i]
      BY <2>1, WaitAt DEF n, w
    <2> QED  BY <1>4, <1>5, <2>1, <2>2
  <1>15. ASSUME NEW g \in HandlersOn(m) PROVE WaitOf(m, g) = WaitOf(l, g) - Head(l).time
    <2>1. PICK i \in 1 .. Len(m) : g = m[i].h
      BY DEF HandlersOn
    <2>2. WaitOf(m, g) = u[i]
      BY <1>7, <2>1, WaitAt DEF u
    <2>3. i \in 1 .. n - 1 /\ i \in 0 .. n - 1 /\ i + 1 \in 1 .. n /\ g = l[i + 1].h
      BY <1>1, <1>8, <2>1
    <2>4. WaitOf(l, g) = w[i + 1]
      BY <2>3, WaitAt DEF n, w
    <2> QED  BY <1>4, <1>6, <2>2, <2>3, <2>4
  <1>16. m \in Seq(TimerRec)
    BY <1>1
  <1> QED  BY <1>7, <1>11, <1>12, <1>13, <1>14, <1>15, <1>16 DEF TakenOff, m

-----------------------------------------------------------------------------
\* The longest period.
LEMMA LongestIs == Longest \in Nat /\ \A h \in Handlers : Period[h] \in Nat /\ Period[h] > 0 /\ Period[h] <= Longest
  <1> DEFINE n == Len(Startup)
             P == {Period[h] : h \in Handlers}
             Most(i) == \E p \in P : Period[Tcp] <= p /\ \A j \in 1 .. n : j <= i => Period[Startup[j]] <= p
             S == {i \in Nat : Most(i)}
  <1>1. n \in Nat /\ \A j \in 1 .. n : Startup[j] \in Handlers
    <2>1. Startup \in Seq(Periodic)
      BY TimerAssumption
    <2> HIDE DEF Periodic
    <2> QED  BY <2>1 DEF Handlers
  <1>2. Period \in [Handlers -> Nat \ {0}] /\ Tcp \in Handlers
    BY TimerAssumption DEF Handlers
  <1>3. \A h \in Handlers : h = Tcp \/ \E j \in 1 .. n : h = Startup[j]
    BY DEF Handlers, Periodic
  <1> HIDE DEF n
  <1>4. P \subseteq Nat
    BY <1>2
  <1>5. 0 \in S
    <2>1. Period[Tcp] \in P /\ Period[Tcp] <= Period[Tcp]
      BY <1>2
    <2>2. \A j \in 1 .. n : ~(j <= 0)
      BY <1>1
    <2>3. Most(0)
      BY <2>1, <2>2
    <2> QED  BY <2>3
  <1>6. ASSUME NEW i \in Nat, i \in S PROVE i + 1 \in S
    <2>1. PICK p \in P : Period[Tcp] <= p /\ \A j \in 1 .. n : j <= i => Period[Startup[j]] <= p
      BY <1>6
    <2>2. \A j \in 1 .. n : j <= i + 1 => j <= i \/ j = i + 1
      BY <1>1
    <2>3. CASE i + 1 \in 1 .. n /\ Period[Startup[i + 1]] > p
      <3> DEFINE q == Period[Startup[i + 1]]
      <3>1. q \in P
        BY <1>1, <2>3
      <3>2. p \in Nat /\ q \in Nat /\ Period[Tcp] \in Nat /\ \A j \in 1 .. n : Period[Startup[j]] \in Nat
        BY <1>1, <1>2, <1>4, <3>1
      <3>3. Period[Tcp] <= q /\ \A j \in 1 .. n : j <= i + 1 => Period[Startup[j]] <= q
        BY <2>1, <2>2, <2>3, <3>2
      <3> QED  BY <3>1, <3>3
    <2>4. CASE ~(i + 1 \in 1 .. n /\ Period[Startup[i + 1]] > p)
      <3>2. p \in Nat /\ \A j \in 1 .. n : Period[Startup[j]] \in Nat
        BY <1>1, <1>2, <1>4
      <3>3. \A j \in 1 .. n : j <= i + 1 => Period[Startup[j]] <= p
        BY <2>1, <2>2, <2>4, <3>2
      <3> QED  BY <2>1, <3>3
    <2> QED  BY <2>3, <2>4
  <1>7. Most(n)
    <2> HIDE DEF S
    <2>1. n \in S
      BY <1>1, <1>5, <1>6, Induct
    <2> QED  BY <2>1 DEF S
  <1>8. PICK p \in P : Period[Tcp] <= p /\ \A j \in 1 .. n : Period[Startup[j]] <= p
    BY <1>1, <1>7
  <1>9. \A h \in Handlers : Period[h] <= p
    BY <1>3, <1>8
  <1>10. Longest \in P /\ \A h \in Handlers : Period[h] <= Longest
    BY <1>9 DEF Longest
  <1> QED  BY <1>2, <1>4, <1>10

\* The invariant of the list: its types, and who is on it.
TimersTyped ==
    /\ now \in 0 .. ClockMod - 1 /\ last \in 0 .. ClockMod - 1
    /\ list \in Seq(TimerRec)
    /\ active \in BOOLEAN /\ pcbs \in BOOLEAN /\ checking \in BOOLEAN
    /\ diff \in 0 .. ClockMod - 1
    /\ running \in Handlers \cup {NoTimer}
    /\ late \in 0 .. MaxPass
    /\ age \in [Handlers -> 0 .. AgeMax]
    /\ fired \in Handlers \cup {NoTimer}
    /\ firedAge \in 0 .. AgeMax

TimersArmed ==
    /\ Once(list)
    /\ running \notin Pending
    /\ Periodic \subseteq Pending \cup {running}
    /\ TcpTimerRuns
    /\ running # NoTimer => checking
    /\ \A h \in Pending : WaitOf(list, h) <= Period[h]

TimersBase == TimersTyped /\ TimersArmed

\* The constants; times on the clock.
LEMMA TimerConstants ==
  /\ ClockMod \in Nat /\ ClockMod > 0 /\ MaxPass \in Nat /\ MaxPass < ClockMod /\ AgeMax \in Nat
  /\ Tcp \in Handlers /\ Tcp \notin Periodic /\ Periodic \subseteq Handlers
  /\ NoTimer \notin Handlers /\ NoTimer \notin Nat
  <1>1. Longest \in Nat
    BY LongestIs
  <1> QED  BY <1>1, TimerAssumption DEF Handlers, AgeMax

LEMMA ElapsedIs ==
  ASSUME now \in 0 .. ClockMod - 1, NEW t \in 0 .. ClockMod - 1
  PROVE  Elapsed(t) \in 0 .. ClockMod - 1
  BY TimerConstants DEF Elapsed

\* sys_timeout, for a timer that is not on the list.
LEMMA TimeoutIs ==
  ASSUME TimersBase, NEW h \in Handlers, h \notin Pending, Timeout(h)
  PROVE  ArmedOn(list, list', h, Period[h]) /\ age' \in [Handlers -> 0 .. AgeMax]
  <1>1. list \in Seq(TimerRec) /\ Once(list) /\ Period[h] \in Nat /\ h \notin HandlersOn(list)
    BY LongestIs DEF TimersBase, TimersTyped, TimersArmed, Pending
  <1>2. ArmedOn(list, Insert(list, h, Period[h]), h, Period[h])
    BY <1>1, ArmingIs
  <1>3. age' \in [Handlers -> 0 .. AgeMax]
    BY TimerConstants DEF TimersBase, TimersTyped, Timeout
  <1> QED  BY <1>2, <1>3 DEF Timeout

\* The list that sys_timeouts_init leaves.
LEMMA StartupIs ==
  ASSUME TimersInit
  PROVE  /\ list \in Seq(TimerRec) /\ Once(list) /\ Pending = Periodic
         /\ \A h \in Pending : WaitOf(list, h) = Period[h]
  <1> DEFINE n == Len(Startup)
             L == Seq(TimerRec)
             step == [i \in 1 .. n |-> [l \in L |-> Insert(l, Startup[i], Period[Startup[i]])]]
             R(f) == f = [i \in 0 .. Len(Startup) |->
                            IF i = 0 THEN <<>> ELSE Insert(f[i - 1], Startup[i], Period[Startup[i]])]
             armed == CHOOSE f : f = [i \in 0 .. Len(Startup) |->
                            IF i = 0 THEN <<>> ELSE Insert(f[i - 1], Startup[i], Period[Startup[i]])]
             Upto(i) == {Startup[j] : j \in {k \in 1 .. n : k <= i}}
             Good(l, H) == l \in Seq(TimerRec) /\ Once(l) /\ HandlersOn(l) = H /\ \A h \in H : WaitOf(l, h) = Period[h]
             S == {i \in Nat : i <= n => Good(armed[i], Upto(i))}
  <1>1. n \in Nat /\ \A j \in 1 .. n : Startup[j] \in Handlers
    <2>1. Startup \in Seq(Periodic)
      BY TimerAssumption
    <2> HIDE DEF Periodic
    <2> QED  BY <2>1 DEF Handlers
  <1>2. list = armed[Len(Startup)]
    BY DEF TimersInit
  <1>3. \A i \in 1 .. n : Period[Startup[i]] \in Nat
    BY <1>1, LongestIs
  <1>4. StepsOn(step, L, n)
    <2>1. ASSUME NEW i \in 1 .. n, NEW l \in L PROVE Insert(l, Startup[i], Period[Startup[i]]) \in L
      <3>1. \E p \in 0 .. Len(l) : Inserted(l, Insert(l, Startup[i], Period[Startup[i]]), Startup[i], Period[Startup[i]], p)
        BY <1>1, <1>3, InsertIs
      <3> QED  BY <3>1 DEF Inserted
    <2> HIDE DEF L
    <2> QED  BY <2>1 DEF StepsOn
  <1>5. PICK f : Makes(f, L, <<>>, n, step)
    <2>1. <<>> \in L
      OBVIOUS
    <2> HIDE DEF L, step, n
    <2> QED  BY <1>1, <1>4, <2>1, Recursion
  <1>6. R(f)
    <2>1. f \in [0 .. n -> L] /\ f[0] = <<>> /\ \A i \in 1 .. n : f[i] = step[i][f[i - 1]]
      BY <1>5 DEF Makes
    <2>2. ASSUME NEW i \in 1 .. n PROVE f[i] = Insert(f[i - 1], Startup[i], Period[Startup[i]])
      <3>1. i - 1 \in 0 .. n
        BY <1>1
      <3> HIDE DEF L
      <3>2. f[i - 1] \in L
        BY <2>1, <3>1
      <3> QED  BY <2>1, <3>2
    <2> HIDE DEF step, L
    <2> QED  BY <1>1, <2>1, <2>2
  <1>7. R(armed)
    <2>1. \E e : R(e)
      BY <1>6
    <2> QED  BY <2>1
  <1> HIDE DEF armed, step
  <1>8. armed[0] = <<>> /\ \A i \in 1 .. n : armed[i] = Insert(armed[i - 1], Startup[i], Period[Startup[i]])
    BY <1>1, <1>7
  <1>9. 0 \in S
    <2>1. Good(<<>>, {})
      BY DEF Once, HandlersOn
    <2>2. Upto(0) = {}
      BY <1>1
    <2> QED  BY <1>8, <2>1, <2>2
  <1>10. ASSUME NEW i \in Nat, i \in S PROVE i + 1 \in S
    <2> SUFFICES ASSUME i + 1 <= n PROVE Good(armed[i + 1], Upto(i + 1))
      OBVIOUS
    <2> DEFINE l == armed[i]
               h == Startup[i + 1]
               m == armed[i + 1]
    <2>1. i + 1 \in 1 .. n /\ (i + 1) - 1 = i /\ i <= n
      BY <1>1
    <2>2. Good(l, Upto(i)) /\ m = Insert(l, h, Period[h]) /\ h \in Handlers /\ Period[h] \in Nat
      BY <1>1, <1>3, <1>8, <1>10, <2>1
    <2>3. h \notin Upto(i)
      <3>1. \A j, k \in 1 .. n : j # k => Startup[j] # Startup[k]
        BY TimerAssumption
      <3>2. \A j \in 1 .. n : j <= i => j # i + 1
        BY <1>1
      <3> QED  BY <2>1, <3>1, <3>2
    <2>4. Upto(i + 1) = Upto(i) \cup {h}
      <3>1. \A j \in 1 .. n : j <= i + 1 <=> j <= i \/ j = i + 1
        BY <1>1
      <3> QED  BY <2>1, <3>1
    <2> HIDE DEF l, h, m, Upto
    <2>5. ArmedOn(l, m, h, Period[h])
      BY <2>2, <2>3, ArmingIs
    <2>6. Good(m, Upto(i) \cup {h})
      BY <2>2, <2>5 DEF ArmedOn
    <2> QED  BY <2>4, <2>6 DEF m
  <1>11. Good(armed[n], Upto(n))
    <2> HIDE DEF S
    <2>1. n \in S
      BY <1>1, <1>9, <1>10, Induct
    <2> QED  BY <1>1, <2>1 DEF S
  <1>12. Upto(n) = Periodic
    BY <1>1 DEF Periodic
  <1> QED  BY <1>2, <1>11, <1>12 DEF Pending

LEMMA BaseInit == TimersInit => TimersBase
  <1> SUFFICES ASSUME TimersInit PROVE TimersBase
    OBVIOUS
  <1>1. /\ list \in Seq(TimerRec) /\ Once(list) /\ Pending = Periodic
        /\ \A h \in Pending : WaitOf(list, h) = Period[h]
    BY StartupIs
  <1>2. TimersTyped
    <2>1. 0 \in 0 .. AgeMax /\ 0 \in 0 .. ClockMod - 1 /\ 0 \in 0 .. MaxPass
      BY TimerConstants
    <2>2. active \in BOOLEAN /\ pcbs \in BOOLEAN /\ checking \in BOOLEAN
      BY DEF TimersInit
    <2>3. /\ now \in 0 .. ClockMod - 1 /\ last \in 0 .. ClockMod - 1 /\ diff \in 0 .. ClockMod - 1
          /\ late \in 0 .. MaxPass /\ age \in [Handlers -> 0 .. AgeMax]
          /\ running \in Handlers \cup {NoTimer} /\ fired \in Handlers \cup {NoTimer} /\ firedAge \in 0 .. AgeMax
      BY <2>1 DEF TimersInit
    <2> QED  BY <1>1, <2>2, <2>3 DEF TimersTyped
  <1>3. \A h \in Pending : WaitOf(list, h) <= Period[h]
    BY <1>1, TimerConstants, LongestIs
  <1>4. TcpTimerRuns
    BY <1>1, TimerConstants DEF TimersInit, TcpTimerRuns
  <1>5. running = NoTimer /\ running \notin Pending
    BY <1>1, TimerConstants DEF TimersInit
  <1> QED  BY <1>1, <1>2, <1>3, <1>4, <1>5 DEF TimersBase, TimersArmed

\* What a step that leaves the list and its users alone keeps.
LEMMA SameList ==
  ASSUME TimersBase, TimersTyped', UNCHANGED <<list, active, running>>, pcbs' => active', running # NoTimer => checking'
  PROVE  TimersBase'
  <1>1. Pending' = Pending /\ \A h \in Pending : WaitOf(list, h)' = WaitOf(list, h)
    BY DEF Pending, HandlersOn, WaitOf, WaitsIn
  <1>2. Once(list)'
    BY DEF TimersBase, TimersArmed, Once
  <1>3. TcpTimerRuns'
    BY <1>1 DEF TimersBase, TimersArmed, TcpTimerRuns
  <1>4. TimersArmed'
    BY <1>1, <1>2, <1>3 DEF TimersBase, TimersArmed, WaitOf, WaitsIn
  <1> QED  BY <1>4 DEF TimersBase

\* A handler, or TCP_REG, arms timer h.
LEMMA ArmsTimer ==
  ASSUME TimersBase, TimersTyped', NEW h \in Handlers, h \notin Pending, ArmedOn(list, list', h, Period[h]),
         running' = running \/ (running' = NoTimer /\ running = h), h # running',
         active' = (active \/ h = Tcp), pcbs' => active', checking' = checking
  PROVE  TimersBase'
  <1> DEFINE m == list'
  <1>1. /\ Once(m) /\ HandlersOn(m) = HandlersOn(list) \cup {h}
        /\ \A g \in HandlersOn(m) : WaitOf(m, g) <= Period[g]
    <2>1. \A g \in HandlersOn(list) : WaitOf(list, g) <= Period[g]
      BY DEF TimersBase, TimersArmed, Pending
    <2>2. Period[h] <= Period[h]
      BY LongestIs
    <2> QED  BY <2>1, <2>2 DEF ArmedOn
  <1>2. Pending' = Pending \cup {h}
    BY <1>1 DEF Pending
  <1>3. running \notin Pending /\ Periodic \subseteq Pending \cup {running} /\ (running # NoTimer => checking)
    BY DEF TimersBase, TimersArmed
  <1>4. running' \notin Pending' /\ Periodic \subseteq Pending' \cup {running'} /\ (running' # NoTimer => checking')
    <2>1. NoTimer \notin Pending
      <3>1. \A g \in HandlersOn(list) : g \in Handlers
        BY OnList DEF TimersBase, TimersTyped, TimersArmed
      <3> QED  BY <3>1, TimerConstants DEF Pending
    <2> QED  BY <1>2, <1>3, <2>1
  <1>5. TcpTimerRuns'
    <2>1. active <=> (Tcp \in Pending \/ running = Tcp)
      BY DEF TimersBase, TimersArmed, TcpTimerRuns
    <2>2. running' # Tcp => (running = Tcp => h = Tcp)
      OBVIOUS
    <2>3. running' = Tcp => running = Tcp
      BY TimerConstants
    <2>4. active' <=> (Tcp \in Pending' \/ running' = Tcp)
      BY <1>2, <2>1, <2>2, <2>3
    <2> QED  BY <2>4 DEF TcpTimerRuns
  <1>6. \A g \in Pending' : WaitOf(list, g)' <= Period[g]
    BY <1>1 DEF Pending, HandlersOn, WaitOf, WaitsIn
  <1>7. Once(list)'
    BY <1>1 DEF Once
  <1>8. TimersArmed'
    BY <1>4, <1>5, <1>6, <1>7 DEF TimersArmed
  <1> QED  BY <1>8 DEF TimersBase

\* The next entry is taken off.
LEMMA ExpireIs ==
  ASSUME TimersBase, Expire
  PROVE  TakenOff(list, list', running', Head(list).time) /\ running' \in Handlers
  <1>1. list \in Seq(TimerRec) /\ Once(list) /\ list # <<>>
    BY DEF TimersBase, TimersTyped, TimersArmed, Expire, Due
  <1>2. TakenOff(list, Tail(list), Head(list).h, Head(list).time)
    BY <1>1, ExpiryIs
  <1>3. Head(list).h \in Handlers
    BY <1>1, <1>2, OnList DEF TakenOff
  <1> QED  BY <1>2, <1>3 DEF Expire

LEMMA BaseStep == TimersBase /\ [TimersNext]_timersVars => TimersBase'
  <1> SUFFICES ASSUME TimersBase, [TimersNext]_timersVars PROVE TimersBase'
    OBVIOUS
  <1> USE TimerConstants
  <1>t. TimersTyped
    BY DEF TimersBase
  <1>0. /\ running \notin Pending /\ (pcbs => active) /\ (active <=> (Tcp \in Pending \/ running = Tcp))
        /\ (running # NoTimer => checking)
    BY DEF TimersBase, TimersArmed, TcpTimerRuns
  <1>1. CASE Tick
    <2>1. age' \in [Handlers -> 0 .. AgeMax]
      BY <1>t, <1>1 DEF Tick, TimersTyped
    <2>2. now' \in 0 .. ClockMod - 1 /\ late' \in 0 .. MaxPass
      BY <1>t, <1>1 DEF Tick, TimersTyped
    <2>3. TimersTyped'
      BY <1>t, <1>1, <2>1, <2>2 DEF Tick, TimersTyped
    <2> QED  BY <1>0, <1>1, <2>3, SameList DEF Tick
  <1>2. CASE Register
    <2>1. CASE active
      <3>1. TimersTyped'
        BY <1>t, <1>2, <2>1 DEF Register, TimerNeeded, TimersTyped
      <3> QED  BY <1>0, <1>2, <2>1, <3>1, SameList DEF Register, TimerNeeded
    <2>2. CASE ~active
      <3>1. Tcp \notin Pending /\ running # Tcp
        BY <1>0, <2>2
      <3>2. Timeout(Tcp) /\ active' = TRUE
        BY <1>2, <2>2 DEF Register, TimerNeeded
      <3>3. ArmedOn(list, list', Tcp, Period[Tcp]) /\ age' \in [Handlers -> 0 .. AgeMax]
        BY <3>1, <3>2, TimeoutIs
      <3>4. list' \in Seq(TimerRec)
        BY <3>3 DEF ArmedOn
      <3>5. TimersTyped'
        BY <1>t, <1>2, <3>2, <3>3, <3>4 DEF Register, TimersTyped
      <3>6. running' = running /\ checking' = checking /\ active' = (active \/ Tcp = Tcp) /\ (pcbs' => active')
        BY <1>2, <3>2 DEF Register
      <3> QED  BY <3>1, <3>3, <3>5, <3>6, ArmsTimer
    <2> QED  BY <2>1, <2>2
  <1>3. CASE Unregister
    <2>0. pcbs' \in BOOLEAN /\ firedAge' \in 0 .. AgeMax /\ fired' \in Handlers \cup {NoTimer}
      <3>1. pcbs' = FALSE
        BY <1>3 DEF Unregister
      <3>2. pcbs' \in BOOLEAN
        BY <3>1, Zenon
      <3>3. firedAge' = 0 /\ fired' = NoTimer
        BY <1>3 DEF Unregister
      <3> QED  BY <3>2, <3>3
    <2>1. TimersTyped'
      <3>1. UNCHANGED <<now, last, list, active, checking, diff, running, late, age>>
        BY <1>3 DEF Unregister
      <3> QED  BY <1>t, <2>0, <3>1 DEF TimersTyped
    <2> QED  BY <1>0, <1>3, <2>1, SameList DEF Unregister
  <1>4. CASE CheckTimeouts
    <2>1. diff' \in 0 .. ClockMod - 1
      BY <1>t, <1>4, ElapsedIs DEF CheckTimeouts, TimersTyped
    <2>2. TimersTyped'
      BY <1>t, <1>4, <2>1 DEF CheckTimeouts, TimersTyped
    <2> QED  BY <1>0, <1>4, <2>2, SameList DEF CheckTimeouts
  <1>5. CASE Expire
    <2>1. TakenOff(list, list', running', Head(list).time) /\ running' \in Handlers
      BY <1>5, ExpireIs
    <2>2. /\ list' \in Seq(TimerRec) /\ Once(list') /\ HandlersOn(list') = HandlersOn(list) \ {running'}
          /\ running' \in HandlersOn(list) /\ WaitOf(list, running') = Head(list).time
          /\ \A g \in HandlersOn(list') : WaitOf(list', g) = WaitOf(list, g) - Head(list).time
      BY <2>1 DEF TakenOff
    <2>3. \A g \in HandlersOn(list) : g \in Handlers /\ WaitOf(list, g) \in Nat
      BY OnList DEF TimersBase, TimersTyped, TimersArmed
    <2>4. Head(list).time \in Nat /\ Head(list).time <= diff /\ diff' = diff - Head(list).time
      BY <1>5, <2>2, <2>3 DEF Expire, Due
    <2>5. last' \in 0 .. ClockMod - 1
      <3>1. late \in Nat /\ late < ClockMod
        BY <1>t DEF TimersTyped
      <3> QED  BY <1>t, <1>5, <3>1 DEF Expire, CheckTime, TimersTyped
    <2>6. diff' \in 0 .. ClockMod - 1
      BY <1>t, <2>4 DEF TimersTyped
    <2>7. fired' = running' /\ firedAge' = age[running'] /\ UNCHANGED <<now, late, age, active, pcbs, checking>>
          /\ checking /\ running = NoTimer
      BY <1>5 DEF Expire
    <2>8. TimersTyped'
      BY <1>t, <2>1, <2>2, <2>5, <2>6, <2>7 DEF TimersTyped
    <2>9. Pending' = Pending \ {running'} /\ running' \in Pending
      BY <2>2 DEF Pending
    <2>10. running' \notin Pending' /\ Periodic \subseteq Pending' \cup {running'}
      <3>1. Periodic \subseteq Pending
        BY <2>7 DEF TimersBase, TimersArmed
      <3> QED  BY <2>9, <3>1
    <2>11. TcpTimerRuns'
      BY <1>0, <2>7, <2>9 DEF TcpTimerRuns
    <2>12. \A g \in Pending' : WaitOf(list, g)' <= Period[g]
      <3> SUFFICES ASSUME NEW g \in HandlersOn(list') PROVE WaitOf(list', g) <= Period[g]
        BY DEF Pending, HandlersOn, WaitOf, WaitsIn
      <3>1. g \in HandlersOn(list) /\ WaitOf(list', g) = WaitOf(list, g) - Head(list).time
        BY <2>2
      <3>2. WaitOf(list, g) <= Period[g] /\ WaitOf(list, g) \in Nat /\ Period[g] \in Nat
        BY <2>3, <3>1, LongestIs DEF TimersBase, TimersArmed, Pending
      <3> QED  BY <2>4, <3>1, <3>2
    <2>13. Once(list)'
      BY <2>2 DEF Once
    <2>14. TimersArmed'
      BY <2>7, <2>10, <2>11, <2>12, <2>13 DEF TimersArmed
    <2> QED  BY <2>8, <2>14 DEF TimersBase
  <1>6. CASE PeriodicTimer
    <2>1. running \in Handlers /\ running # Tcp /\ running # NoTimer /\ Timeout(running)
      BY <1>6 DEF PeriodicTimer
    <2>2. ArmedOn(list, list', running, Period[running]) /\ age' \in [Handlers -> 0 .. AgeMax]
      BY <1>0, <2>1, TimeoutIs
    <2>3. list' \in Seq(TimerRec)
      BY <2>2 DEF ArmedOn
    <2>4. TimersTyped'
      BY <1>t, <1>6, <2>2, <2>3 DEF PeriodicTimer, TimersTyped
    <2>5. running' = NoTimer /\ checking' = checking /\ active' = active /\ pcbs' = pcbs
      BY <1>6 DEF PeriodicTimer
    <2>6. active' = (active \/ running = Tcp)
      BY <1>t, <2>1, <2>5 DEF TimersTyped
    <2> QED  BY <1>0, <2>1, <2>2, <2>4, <2>5, <2>6, ArmsTimer
  <1>7. CASE TcpTimer
    <2>1. running = Tcp /\ RearmTcp /\ running' = NoTimer /\ checking' = checking /\ pcbs' = pcbs
      BY <1>7 DEF TcpTimer
    <2>2. Tcp \notin Pending /\ active
      BY <1>0, <2>1
    <2>3. CASE pcbs
      <3>1. Timeout(Tcp) /\ active' = active
        BY <2>1, <2>3 DEF RearmTcp
      <3>2. ArmedOn(list, list', Tcp, Period[Tcp]) /\ age' \in [Handlers -> 0 .. AgeMax]
        BY <2>2, <3>1, TimeoutIs
      <3>3. list' \in Seq(TimerRec)
        BY <3>2 DEF ArmedOn
      <3>4. TimersTyped'
        BY <1>t, <1>7, <3>1, <3>2, <3>3 DEF TcpTimer, TimersTyped
      <3>5. active' = (active \/ Tcp = Tcp)
        BY <1>t, <2>2, <3>1 DEF TimersTyped
      <3>6. running' # Tcp /\ (pcbs' => active')
        BY <2>1, <2>2, <3>1
      <3> QED  BY <2>1, <2>2, <3>2, <3>4, <3>5, <3>6, ArmsTimer
    <2>4. CASE ~pcbs
      <3>1. UNCHANGED <<list, age>> /\ active' = FALSE
        BY <2>1, <2>4 DEF RearmTcp
      <3>a. /\ active' \in BOOLEAN /\ firedAge' \in 0 .. AgeMax
            /\ fired' \in Handlers \cup {NoTimer} /\ running' \in Handlers \cup {NoTimer}
        <4>1. active' \in BOOLEAN
          BY <3>1, Zenon
        <4>2. firedAge' = 0 /\ fired' = NoTimer /\ running' = NoTimer
          BY <1>7 DEF TcpTimer
        <4> QED  BY <4>1, <4>2
      <3>2. TimersTyped'
        <4>1. UNCHANGED <<now, last, list, pcbs, checking, diff, late, age>>
          BY <1>7, <3>1 DEF TcpTimer
        <4> QED  BY <1>t, <3>a, <4>1 DEF TimersTyped
      <3>3. Pending' = Pending
        BY <3>1 DEF Pending, HandlersOn
      <3>4. NoTimer \notin Pending
        <4>1. \A g \in HandlersOn(list) : g \in Handlers
          BY OnList DEF TimersBase, TimersTyped, TimersArmed
        <4> QED  BY <4>1 DEF Pending
      <3>5. TcpTimerRuns'
        BY <2>1, <2>2, <2>4, <3>1, <3>3 DEF TcpTimerRuns
      <3>6. Periodic \subseteq Pending' \cup {running'}
        BY <2>1, <3>3 DEF TimersBase, TimersArmed
      <3>7. Once(list)' /\ \A g \in Pending' : WaitOf(list, g)' <= Period[g]
        BY <3>1, <3>3, ZenonT(40) DEF TimersBase, TimersArmed, Once, WaitOf, WaitsIn
      <3>8. TimersArmed'
        BY <2>1, <3>3, <3>4, <3>5, <3>6, <3>7 DEF TimersArmed
      <3> QED  BY <3>2, <3>8 DEF TimersBase
    <2> QED  BY <2>3, <2>4
  <1>8. CASE CheckEnd
    <2>0. checking' \in BOOLEAN /\ firedAge' \in 0 .. AgeMax /\ fired' \in Handlers \cup {NoTimer}
      <3>1. checking' = FALSE
        BY <1>8 DEF CheckEnd
      <3>2. checking' \in BOOLEAN
        BY <3>1, Zenon
      <3>3. firedAge' = 0 /\ fired' = NoTimer
        BY <1>8 DEF CheckEnd
      <3> QED  BY <3>2, <3>3
    <2>1. TimersTyped'
      <3>1. UNCHANGED <<now, last, list, active, pcbs, diff, running, late, age>>
        BY <1>8 DEF CheckEnd
      <3> QED  BY <1>t, <2>0, <3>1 DEF TimersTyped
    <2> QED  BY <1>0, <1>8, <2>1, SameList DEF CheckEnd
  <1>9. CASE UNCHANGED timersVars
    <2>1. TimersTyped'
      BY <1>t, <1>9 DEF timersVars, TimersTyped
    <2> QED  BY <1>0, <1>9, <2>1, SameList DEF timersVars
  <1> QED  BY <1>1, <1>2, <1>3, <1>4, <1>5, <1>6, <1>7, <1>8, <1>9 DEF TimersNext, Check

LEMMA BaseInvariance == TimersSpec => []TimersBase
  BY BaseInit, BaseStep, PTL DEF TimersSpec

-----------------------------------------------------------------------------
\* The timers that wait are those on the list.
LEMMA PendingIs ==
  ASSUME TimersBase
  PROVE  /\ Pending \subseteq Handlers /\ Queue!Armed = Pending
         /\ \A h \in Pending : Waits[h] = WaitOf(list, h) /\ Waits[h] \in Nat /\ Waits[h] <= Period[h]
  <1>1. \A h \in HandlersOn(list) : h \in Handlers /\ WaitOf(list, h) \in Nat /\ WaitOf(list, h) <= Period[h]
    BY OnList DEF TimersBase, TimersTyped, TimersArmed, Pending
  <1>2. \A h \in Handlers : Waits[h] = IF h \in Pending THEN WaitOf(list, h) ELSE NoTimer
    BY DEF Waits
  <1>3. \A h \in Pending : h \in Handlers /\ Waits[h] = WaitOf(list, h) /\ Waits[h] \in Nat
    BY <1>1, <1>2 DEF Pending
  <1>4. \A h \in Handlers : Waits[h] # NoTimer <=> h \in Pending
    BY <1>2, <1>3, TimerConstants
  <1>5. Queue!Armed = {h \in Handlers : Waits[h] # NoTimer}
    BY DEF Queue!Armed
  <1>6. Queue!Armed = Pending
    BY <1>3, <1>4, <1>5
  <1>7. \A h \in Pending : Waits[h] <= Period[h]
    BY <1>1, <1>3 DEF Pending
  <1> QED  BY <1>3, <1>6, <1>7

\* What a timer that is armed, and the expiry of one, do to the waits.
LEMMA ArmedWaits ==
  ASSUME TimersBase, NEW h \in Handlers, h \notin Pending, Timeout(h)
  PROVE  Pending' = Pending \cup {h} /\ Waits' = [Waits EXCEPT ![h] = Period[h]]
  <1>1. /\ HandlersOn(list') = HandlersOn(list) \cup {h} /\ WaitOf(list', h) = Period[h]
        /\ \A g \in HandlersOn(list) : WaitOf(list', g) = WaitOf(list, g)
    BY TimeoutIs DEF ArmedOn
  <1>2. Pending' = Pending \cup {h}
    BY <1>1 DEF Pending
  <1>3. Waits' = [g \in Handlers |-> IF g \in Pending' THEN WaitOf(list', g) ELSE NoTimer]
    BY DEF Waits, WaitOf, WaitsIn, Pending, HandlersOn
  <1>4. Waits = [g \in Handlers |-> IF g \in Pending THEN WaitOf(list, g) ELSE NoTimer]
    BY DEF Waits
  <1>5. \A g \in Pending : WaitOf(list', g) = WaitOf(list, g)
    BY <1>1 DEF Pending
  <1> QED  BY <1>1, <1>2, <1>3, <1>4, <1>5

LEMMA ExpiredWaits ==
  ASSUME TimersBase, Expire
  PROVE  /\ running' \in Pending /\ Pending' = Pending \ {running'}
         /\ Waits[running'] = Head(list).time /\ \A g \in Pending : Waits[running'] <= Waits[g]
         /\ Waits' = [g \in Handlers |-> IF g \in Pending \ {running'} THEN Waits[g] - Waits[running'] ELSE NoTimer]
  <1> DEFINE h == running'
  <1>1. /\ h \in HandlersOn(list) /\ HandlersOn(list') = HandlersOn(list) \ {h} /\ WaitOf(list, h) = Head(list).time
        /\ \A g \in HandlersOn(list) : Head(list).time <= WaitOf(list, g)
        /\ \A g \in HandlersOn(list') : WaitOf(list', g) = WaitOf(list, g) - Head(list).time
    BY ExpireIs DEF TakenOff
  <1>2. h \in Pending /\ Pending' = Pending \ {h}
    BY <1>1 DEF Pending
  <1>3. Waits' = [g \in Handlers |-> IF g \in Pending' THEN WaitOf(list', g) ELSE NoTimer]
    BY DEF Waits, WaitOf, WaitsIn, Pending, HandlersOn
  <1>4. \A g \in Pending : Waits[g] = WaitOf(list, g)
    BY PendingIs
  <1>5. Waits[h] = Head(list).time /\ \A g \in Pending : Waits[h] <= Waits[g]
    BY <1>1, <1>2, <1>4 DEF Pending
  <1>6. \A g \in Pending \ {h} : WaitOf(list', g) = Waits[g] - Waits[h]
    BY <1>1, <1>2, <1>4, <1>5 DEF Pending
  <1>7. Waits' = [g \in Handlers |-> IF g \in Pending \ {h} THEN Waits[g] - Waits[h] ELSE NoTimer]
    BY <1>2, <1>3, <1>6
  <1> QED  BY <1>2, <1>5, <1>7

\* A step of the list is one of the queue of timers, or changes no wait.
LEMMA QueueStep == TimersBase /\ [TimersNext]_timersVars => Queue!Next \/ UNCHANGED Waits
  <1> SUFFICES ASSUME TimersBase, [TimersNext]_timersVars PROVE Queue!Next \/ UNCHANGED Waits
    OBVIOUS
  <1>0. /\ running \notin Pending /\ (active <=> (Tcp \in Pending \/ running = Tcp)) /\ Tcp \in Handlers
        /\ Periodic \subseteq Handlers /\ Queue!Armed = Pending /\ Pending \subseteq Handlers
    BY PendingIs, TimerConstants DEF TimersBase, TimersArmed, TcpTimerRuns
  <1>1. ASSUME list' = list PROVE UNCHANGED Waits
    BY <1>1 DEF Waits, Pending, HandlersOn, WaitOf, WaitsIn
  <1>2. ASSUME NEW h \in Handlers, h \notin Pending, Timeout(h) PROVE Queue!Next
    <2>1. Waits' = [Waits EXCEPT ![h] = Period[h]]
      BY <1>2, ArmedWaits
    <2>2. Period[h] \in 0 .. Longest
      BY LongestIs
    <2>3. Queue!Arm(h)
      BY <1>0, <1>2, <2>1, <2>2 DEF Queue!Arm
    <2> QED  BY <2>3 DEF Queue!Next
  <1>3. CASE Expire
    <2>1. /\ running' \in Pending /\ \A g \in Pending : Waits[running'] <= Waits[g]
          /\ Waits' = [g \in Handlers |-> IF g \in Pending \ {running'} THEN Waits[g] - Waits[running'] ELSE NoTimer]
      BY <1>3, ExpiredWaits
    <2>2. Queue!Expire(running')
      BY <1>0, <2>1 DEF Queue!Expire
    <2> QED  BY <1>0, <2>1, <2>2 DEF Queue!Next
  <1>4. CASE Register
    <2>1. CASE active
      BY <1>1, <1>4, <2>1 DEF Register, TimerNeeded
    <2>2. CASE ~active
      BY <1>0, <1>2, <1>4, <2>2 DEF Register, TimerNeeded
    <2> QED  BY <2>1, <2>2
  <1>5. CASE PeriodicTimer
    BY <1>0, <1>2, <1>5 DEF PeriodicTimer
  <1>6. CASE TcpTimer
    <2>1. CASE pcbs
      BY <1>0, <1>2, <1>6, <2>1 DEF TcpTimer, RearmTcp
    <2>2. CASE ~pcbs
      BY <1>1, <1>6, <2>2 DEF TcpTimer, RearmTcp
    <2> QED  BY <2>1, <2>2
  <1>7. CASE Tick \/ Unregister \/ CheckTimeouts \/ CheckEnd \/ UNCHANGED timersVars
    <2>1. list' = list
      BY <1>7 DEF Tick, Unregister, CheckTimeouts, CheckEnd, timersVars
    <2> QED  BY <1>1, <2>1
  <1> QED  BY <1>3, <1>4, <1>5, <1>6, <1>7 DEF TimersNext, Check

\* The list of differences implements the queue of timers: sys_timeout and the
\* expiry in sys_check_timeouts keep the order and the distances of all the
\* other timers, whatever the periods.
THEOREM TimerOrder == TimersSpec => QueueOrder
  <1>1. TimersBase /\ [TimersNext]_timersVars => [Queue!Next]_Waits
    BY QueueStep
  <1> QED  BY BaseInvariance, <1>1, PTL DEF TimersSpec, QueueOrder

\* A list on which nobody is twice has as many entries as timers.
LEMMA OnceCounts ==
  ASSUME NEW l \in Seq(TimerRec), Once(l)
  PROVE  Cardinality(HandlersOn(l)) = Len(l)
  <1> DEFINE n == Len(l)
             f == [i \in 1 .. n |-> l[i].h]
  <1>1. n \in Nat
    OBVIOUS
  <1>2. f \in Bijection(1 .. n, HandlersOn(l))
    <2>1. \A i, j \in 1 .. n : f[i] = f[j] => i = j
      BY DEF Once
    <2>2. HandlersOn(l) = {f[i] : i \in 1 .. n}
      BY DEF HandlersOn
    <2> HIDE DEF n
    <2>3. f \in [1 .. n -> HandlersOn(l)] /\ \A h \in HandlersOn(l) : \E i \in 1 .. n : f[i] = h
      BY <2>2
    <2> QED  BY <2>1, <2>3 DEF Bijection, Injection, Surjection, IsInjective
  <1>3. Cardinality(HandlersOn(l)) = n
    <2> HIDE DEF f, n
    <2> QED  BY <1>1, <1>2, FS_CountingElements, Zenon DEF ExistsBijection
  <1> QED  BY <1>3

LEMMA BaseTypes == TimersBase => TimersTypeOK /\ OncePending /\ TcpTimerRuns
  <1> SUFFICES ASSUME TimersBase PROVE TimersTypeOK /\ OncePending /\ TcpTimerRuns
    OBVIOUS
  <1> DEFINE l == list
             n == Len(l)
             w == WaitsIn(l)
             Rec == [h : Handlers, time : 0 .. Longest]
  <1>1. l \in Seq(TimerRec) /\ Once(l) /\ n \in Nat /\ \A i \in 1 .. n : l[i] \in TimerRec
    BY DEF TimersBase, TimersTyped, TimersArmed
  <1>2. w \in [0 .. n -> Nat] /\ \A i \in 1 .. n : w[i] = w[i - 1] + l[i].time
    BY <1>1, WaitsInSums DEF Sums, Adds
  <1>3. \A i \in 1 .. n : w[i] <= Longest
    <2> SUFFICES ASSUME NEW i \in 1 .. n PROVE w[i] <= Longest
      OBVIOUS
    <2>1. l[i].h \in Pending /\ l[i].h \in Handlers
      BY <1>1 DEF Pending, HandlersOn, TimerRec
    <2>2. WaitOf(l, l[i].h) = w[i]
      BY <1>1, WaitAt
    <2>3. WaitOf(l, l[i].h) <= Period[l[i].h]
      BY <2>1 DEF TimersBase, TimersArmed
    <2>4. w[i] \in Nat
      BY <1>1, <1>2
    <2> QED  BY <2>1, <2>2, <2>3, <2>4, LongestIs
  <1> HIDE DEF l, n, w
  <1>4. \A i \in 1 .. n : l[i] \in Rec
    <2> SUFFICES ASSUME NEW i \in 1 .. n PROVE l[i] \in Rec
      OBVIOUS
    <2>1. i - 1 \in 0 .. n /\ i \in 0 .. n
      BY <1>1
    <2>2. w[i] = w[i - 1] + l[i].time /\ w[i] \in Nat /\ w[i - 1] \in Nat /\ w[i] <= Longest
      BY <1>2, <1>3, <2>1
    <2>3. l[i] \in TimerRec
      BY <1>1
    <2>4. l[i].time \in Nat /\ l[i].time <= w[i]
      BY <2>2, <2>3 DEF TimerRec
    <2> QED  BY <2>2, <2>3, <2>4, LongestIs DEF TimerRec
  <1>5. list \in Seq(Rec)
    <2> HIDE DEF Rec
    <2> QED  BY <1>1, <1>4 DEF l, n
  <1>6. TimersTypeOK
    <2>1. {now, last} \subseteq 0 .. ClockMod - 1 /\ {active, pcbs, checking} \subseteq BOOLEAN
      BY DEF TimersBase, TimersTyped
    <2> QED  BY <1>5, <2>1 DEF TimersBase, TimersTyped, TimersTypeOK
  <1>7. OncePending
    <2>1. Cardinality(Pending) = Len(list)
      BY <1>1, OnceCounts DEF Pending, l
    <2> QED  BY <2>1 DEF OncePending, TimersBase, TimersArmed
  <1> QED  BY <1>6, <1>7 DEF TimersBase, TimersArmed

-----------------------------------------------------------------------------
\* How late a timer can be.  An expiry sets timeouts_last_time to the time of the
\* call, while the timers behind it have waited for less by what is left in diff:
\* that much is forgotten.  An age is therefore not what was waited, but covered
\* by twice that and by what the pass has left or will leave.

\* The time that has passed at the call of sys_check_timeouts, or at the last one.
Behind == Elapsed(last) - late

\* h is the TCP timer, armed late in the wait.
Young(h, n) == h = Tcp /\ age[h] <= n /\ Waits[h] = Period[h]

\* A timer comes within a period of Tcp.
Short == \E h \in Pending : Waits[h] <= Period[Tcp]

\* What h waited, twice, and r cover its age at the expiry handled last.
Aged(r) == \A h \in Pending : age[h] <= 2 * (Period[h] - Waits[h]) + r + Elapsed(last)

\* The last pass of the loop ended with r left.
Rest(r) == (\A h \in Pending : r < Waits[h]) /\ (r <= MaxPass \/ Short) /\ Aged(r)

\* Between two passes; in one, before anything expired, and after that.
Outside ==
    /\ running = NoTimer /\ Behind >= 0
    /\ \A h \in Pending : Behind < Waits[h] \/ Young(h, late)
    /\ \E r \in Nat : Rest(r)

Entered ==
    /\ running = NoTimer /\ diff = Behind
    /\ \A h \in Pending : diff < Waits[h] + MaxPass \/ Young(h, MaxPass + late)
    /\ \E r \in Nat : Rest(r)

Expiring ==
    /\ Elapsed(last) = late
    /\ \/ diff <= MaxPass
       \/ running \notin Periodic /\ Short /\ \A h \in Pending : diff < Waits[h] + MaxPass
    /\ Aged(diff)

NotLate == IF checking THEN Entered \/ Expiring ELSE Outside

LateInv == NotLate /\ TwiceBound

\* The numbers in it.
LEMMA LateTypes ==
  ASSUME TimersBase
  PROVE  /\ Elapsed(last) \in Nat /\ late \in Nat /\ late <= MaxPass /\ diff \in Nat /\ MaxPass \in Nat
         /\ \A h \in Pending : /\ h \in Handlers /\ Waits[h] \in Nat /\ Waits[h] <= Period[h]
                               /\ age[h] \in Nat
         /\ \A h \in Handlers : Period[h] \in Nat /\ Period[h] <= Longest
         /\ Longest \in Nat
  <1>1. TimersTyped
    BY DEF TimersBase
  <1>2. Elapsed(last) \in Nat
    BY <1>1, ElapsedIs, TimerConstants DEF TimersTyped
  <1>3. late \in Nat /\ late <= MaxPass /\ diff \in Nat /\ MaxPass \in Nat
    BY <1>1, TimerConstants DEF TimersTyped
  <1>4. \A h \in Handlers : age[h] \in Nat
    BY <1>1, TimerConstants DEF TimersTyped
  <1> QED  BY <1>2, <1>3, <1>4, PendingIs, LongestIs

\* While no handler runs, there is a timer to wait for that is not the TCP timer.
LEMMA SomePeriodic ==
  ASSUME TimersBase, OneShort, running = NoTimer
  PROVE  \E h \in Pending : h # Tcp /\ Waits[h] <= Period[h] /\ Period[h] <= 2 * Period[Tcp]
  <1>1. PICK h \in Periodic : Period[h] <= 2 * Period[Tcp]
    BY DEF OneShort
  <1>2. h \in Pending /\ h # Tcp
    BY TimerConstants DEF TimersBase, TimersArmed
  <1> QED  BY <1>1, <1>2, PendingIs

\* What depends on the list and on the clock alone.
LEMMA ListUnchanged ==
  ASSUME list' = list
  PROVE  Pending' = Pending /\ Waits' = Waits
  BY DEF Waits, Pending, HandlersOn, WaitOf, WaitsIn

LEMMA ClockUnchanged ==
  ASSUME now' = now, last' = last
  PROVE  Elapsed(last)' = Elapsed(last)
  BY DEF Elapsed

LEMMA LateInit == ShortPass /\ OneShort /\ TimersInit => LateInv
  <1> SUFFICES ASSUME ShortPass, TimersInit PROVE LateInv
    OBVIOUS
  <1>1. TimersBase
    BY BaseInit
  <1>2. Elapsed(last) = 0 /\ late = 0 /\ Behind = 0
    BY <1>1, TimerConstants DEF TimersInit, Elapsed, Behind, TimersBase, TimersTyped
  <1>3. \A h \in Pending : h \in Handlers /\ Waits[h] = Period[h] /\ age[h] = 0
    <2>1. \A h \in Pending : WaitOf(list, h) = Period[h]
      BY StartupIs
    <2> QED  BY <1>1, <2>1, PendingIs DEF TimersInit
  <1>4. \A h \in Pending : Period[h] \in Nat /\ MaxPass < Period[h] /\ MaxPass \in Nat
    BY <1>3, LongestIs, TimerConstants DEF ShortPass
  <1>5. Rest(0)
    <2>1. \A h \in Pending : 0 < Waits[h]
      BY <1>3, <1>4
    <2>2. 0 <= MaxPass
      BY TimerConstants
    <2>3. ASSUME NEW h \in Pending PROVE age[h] <= 2 * (Period[h] - Waits[h]) + 0 + Elapsed(last)
      BY <1>2, <1>3, <1>4
    <2> QED  BY <2>1, <2>2, <2>3 DEF Rest, Aged
  <1>6. \A h \in Pending : Behind < Waits[h] \/ Young(h, late)
    BY <1>2, <1>3, <1>4
  <1>7. Outside
    BY <1>2, <1>5, <1>6 DEF Outside, TimersInit
  <1> QED  BY <1>7 DEF LateInv, NotLate, TwiceBound, TimersInit

\* A step that changes none of it.
LEMMA LateSame ==
  ASSUME LateInv, TwiceBound', UNCHANGED <<now, last, list, checking, diff, running, late, age>>
  PROVE  LateInv'
  <1>1. Pending' = Pending /\ Waits' = Waits /\ Elapsed(last)' = Elapsed(last)
    BY ListUnchanged, ClockUnchanged
  <1>2. Short' = Short
    BY <1>1 DEF Short
  <1>3. \A r \in Nat : Aged(r) => Aged(r)'
    BY <1>1 DEF Aged
  <1>4. ASSUME Outside PROVE Outside'
    BY <1>1, <1>2, <1>4 DEF Outside, Behind, Young, Rest, Aged
  <1>5. ASSUME Entered PROVE Entered'
    BY <1>1, <1>2, <1>5 DEF Entered, Behind, Young, Rest, Aged
  <1>6. ASSUME Expiring PROVE Expiring'
    BY <1>1, <1>2, <1>6 DEF Expiring, Aged
  <1> QED  BY <1>4, <1>5, <1>6 DEF LateInv, NotLate

\* The clock ticks.
LEMMA LateTick == ASSUME TimersBase, LateInv, ShortPass, OneShort, Tick PROVE LateInv'
  <1>1. Pending' = Pending /\ Waits' = Waits
    BY ListUnchanged DEF Tick
  <1>2. Short' = Short
    BY <1>1 DEF Short
  <1>3. \A h \in Pending : age'[h] <= age[h] + 1
    <2>1. \A h \in Handlers : age[h] \in 0 .. AgeMax
      BY DEF TimersBase, TimersTyped
    <2>2. \A h \in Handlers : age'[h] = IF age[h] < AgeMax THEN age[h] + 1 ELSE AgeMax
      BY DEF Tick
    <2>3. \A h \in Handlers : age'[h] <= age[h] + 1
      BY <2>1, <2>2, TimerConstants
    <2> QED  BY <2>3, LateTypes
  <1>4. late < MaxPass /\ late' = late + 1 /\ checking' = checking /\ diff' = diff /\ running' = running
    BY DEF Tick
  <1>5. Elapsed(last) + 1 < ClockMod
    <2>0. MaxPass < Longest /\ ClockMod > 2 * Longest + MaxPass /\ ClockMod \in Nat
      <3>1. MaxPass < Period[Tcp] /\ Period[Tcp] <= Longest /\ Period[Tcp] \in Nat
        BY LateTypes, TimerConstants DEF ShortPass
      <3> QED  BY <3>1, LateTypes, TimerAssumption
    <2>1. CASE Outside
      <3>1. PICK h \in Pending : h # Tcp /\ Waits[h] <= Period[h]
        BY <2>1, SomePeriodic DEF Outside
      <3>2. Behind < Waits[h]
        BY <2>1, <3>1 DEF Outside, Young
      <3> QED  BY <1>4, <2>0, <3>1, <3>2, LateTypes DEF Behind
    <2>2. CASE Entered
      <3>1. PICK h \in Pending : h # Tcp /\ Waits[h] <= Period[h]
        BY <2>2, SomePeriodic DEF Entered
      <3>2. diff < Waits[h] + MaxPass /\ diff = Behind
        BY <2>2, <3>1 DEF Entered, Young
      <3> QED  BY <1>4, <2>0, <3>1, <3>2, LateTypes DEF Behind
    <2>3. CASE Expiring
      BY <1>4, <2>0, <2>3, LateTypes DEF Expiring
    <2> QED  BY <2>1, <2>2, <2>3 DEF LateInv, NotLate
  <1>6. Elapsed(last)' = Elapsed(last) + 1
    <2>1. now \in 0 .. ClockMod - 1 /\ last \in 0 .. ClockMod - 1 /\ ClockMod \in Nat
      BY TimerConstants DEF TimersBase, TimersTyped
    <2>2. last' = last /\ now' = IF now = ClockMod - 1 THEN 0 ELSE now + 1
      BY DEF Tick
    <2> QED  BY <1>5, <2>1, <2>2 DEF Elapsed
  <1>7. ASSUME NEW r \in Nat, Aged(r) PROVE Aged(r)'
    <2> SUFFICES ASSUME NEW h \in Pending
                 PROVE  age'[h] <= 2 * (Period[h] - Waits[h]) + r + (Elapsed(last) + 1)
      BY <1>1, <1>6 DEF Aged
    <2>1. age[h] <= 2 * (Period[h] - Waits[h]) + r + Elapsed(last)
      BY <1>7 DEF Aged
    <2>2. age'[h] \in Int
      BY LateTypes, TimerConstants DEF Tick, TimersBase, TimersTyped
    <2> QED  BY <1>3, <2>1, <2>2, LateTypes
  <1>8. \A r \in Nat : Rest(r) => Rest(r)'
    BY <1>1, <1>2, <1>7 DEF Rest
  <1>9. Behind' = Behind
    BY <1>4, <1>6, LateTypes DEF Behind
  <1>10. ASSUME NEW h \in Pending, NEW n \in Nat, Young(h, n) PROVE Young(h, n + 1)'
    <2>1. age'[h] \in Int
      BY LateTypes, TimerConstants DEF Tick, TimersBase, TimersTyped
    <2> QED  BY <1>1, <1>3, <1>10, <2>1, LateTypes DEF Young
  <1>11. ASSUME Outside PROVE Outside'
    <2>1. \A h \in Pending' : Behind' < Waits'[h] \/ Young(h, late)'
      BY <1>1, <1>4, <1>9, <1>10, <1>11, LateTypes DEF Outside, Young
    <2> QED  BY <1>4, <1>8, <1>9, <1>11, <2>1 DEF Outside
  <1>12. ASSUME Entered PROVE Entered'
    <2>1. MaxPass + late' = (MaxPass + late) + 1 /\ MaxPass + late \in Nat
      BY <1>4, LateTypes
    <2>2. \A h \in Pending' : diff' < Waits'[h] + MaxPass \/ Young(h, MaxPass + late)'
      BY <1>1, <1>4, <1>10, <1>12, <2>1 DEF Entered, Young
    <2> QED  BY <1>4, <1>8, <1>9, <1>12, <2>2 DEF Entered
  <1>13. ASSUME Expiring PROVE Expiring'
    <2>1. Aged(diff)'
      BY <1>4, <1>7, <1>13, LateTypes DEF Expiring, Aged
    <2> QED  BY <1>1, <1>2, <1>4, <1>6, <1>13, <2>1 DEF Expiring
  <1>14. NotLate'
    BY <1>4, <1>11, <1>12, <1>13 DEF LateInv, NotLate
  <1>15. TwiceBound'
    BY DEF Tick, TwiceBound
  <1> QED  BY <1>14, <1>15 DEF LateInv

\* A connection comes while the TCP timer rests.
LEMMA LateRegister == ASSUME TimersBase, LateInv, ShortPass, Register, ~active PROVE LateInv'
  <1>1. Tcp \notin Pending /\ running # Tcp /\ Tcp \in Handlers
    BY TimerConstants DEF TimersBase, TimersArmed, TcpTimerRuns
  <1>2. Timeout(Tcp) /\ ~checking /\ checking' = checking /\ running' = running
    BY <1>1 DEF Register, TimerNeeded
  <1>3. Pending' = Pending \cup {Tcp} /\ Waits' = [Waits EXCEPT ![Tcp] = Period[Tcp]]
    BY <1>1, <1>2, ArmedWaits
  <1>4. age' = [age EXCEPT ![Tcp] = 0]
    BY <1>2 DEF Timeout
  <1>5. /\ Waits'[Tcp] = Period[Tcp] /\ age'[Tcp] = 0
        /\ \A h \in Pending : Waits'[h] = Waits[h] /\ age'[h] = age[h]
    <2>1. Waits \in [Handlers -> {Waits[h] : h \in Handlers}] /\ age \in [Handlers -> 0 .. AgeMax]
      BY DEF Waits, TimersBase, TimersTyped
    <2> QED  BY <1>1, <1>3, <1>4, <2>1, LateTypes
  <1>6. Elapsed(last)' = Elapsed(last) /\ Behind' = Behind /\ late' = late
    BY ClockUnchanged DEF Register, Behind
  <1>7. Outside
    BY <1>2 DEF LateInv, NotLate
  <1>8. PICK r \in Nat : Rest(r)
    BY <1>7 DEF Outside
  <1>9. Rest(r)'
    <2>1. MaxPass < Period[Tcp] /\ Period[Tcp] \in Nat
      BY <1>1, LateTypes DEF ShortPass
    <2>2. r <= MaxPass \/ Short'
      BY <1>3, <1>5, <1>8 DEF Rest, Short
    <2>3. r < Period[Tcp]
      <3>1. CASE r <= MaxPass
        BY <2>1, <3>1, LateTypes
      <3>2. CASE Short
        <4>1. PICK h \in Pending : Waits[h] <= Period[Tcp]
          BY <3>2 DEF Short
        <4>2. r < Waits[h]
          BY <1>8 DEF Rest
        <4> QED  BY <2>1, <4>1, <4>2, LateTypes
      <3> QED  BY <1>8, <3>1, <3>2 DEF Rest
    <2>4. \A h \in Pending' : r < Waits'[h]
      BY <1>3, <1>5, <1>8, <2>3 DEF Rest
    <2>5. age'[Tcp] <= 2 * (Period[Tcp] - Waits'[Tcp]) + r + Elapsed(last)
      BY <1>5, <2>1, LateTypes
    <2>6. \A h \in Pending : age'[h] <= 2 * (Period[h] - Waits'[h]) + r + Elapsed(last)
      BY <1>5, <1>8 DEF Rest, Aged
    <2>7. Aged(r)'
      BY <1>3, <1>6, <2>5, <2>6 DEF Aged
    <2> QED  BY <2>2, <2>4, <2>7 DEF Rest
  <1>10. \A h \in Pending' : Behind' < Waits'[h] \/ Young(h, late)'
    <2>1. \A h \in Pending : Behind < Waits[h]
      BY <1>1, <1>7 DEF Outside, Young
    <2>2. Young(Tcp, late)'
      BY <1>5, <1>6, LateTypes DEF Young
    <2> QED  BY <1>3, <1>5, <1>6, <2>1, <2>2
  <1>11. Outside'
    BY <1>2, <1>6, <1>7, <1>9, <1>10 DEF Outside
  <1>12. TwiceBound'
    BY DEF Register, TwiceBound
  <1> QED  BY <1>2, <1>11, <1>12 DEF LateInv, NotLate

\* The main loop comes to sys_check_timeouts.
LEMMA LateCheck == ASSUME TimersBase, LateInv, CheckTimeouts PROVE LateInv'
  <1>1. Pending' = Pending /\ Waits' = Waits /\ Elapsed(last)' = Elapsed(last)
    BY ListUnchanged, ClockUnchanged DEF CheckTimeouts
  <1>2. ~checking /\ checking' /\ diff' = Elapsed(last) /\ late' = 0 /\ running' = running /\ age' = age
    BY DEF CheckTimeouts
  <1>3. Outside
    BY <1>2 DEF LateInv, NotLate
  <1>4. Behind' = diff'
    BY <1>1, <1>2, LateTypes DEF Behind
  <1>5. PICK r \in Nat : Rest(r)
    BY <1>3 DEF Outside
  <1>6. Rest(r)'
    BY <1>1, <1>2, <1>5 DEF Rest, Short, Aged
  <1>7. ASSUME NEW h \in Pending PROVE diff' < Waits'[h] + MaxPass \/ Young(h, MaxPass + late)'
    <2>1. CASE Behind < Waits[h]
      BY <1>1, <1>2, <2>1, LateTypes DEF Behind
    <2>2. CASE Young(h, late)
      BY <1>1, <1>2, <2>2, LateTypes DEF Young
    <2> QED  BY <1>3, <2>1, <2>2 DEF Outside
  <1>8. Entered'
    BY <1>1, <1>2, <1>3, <1>4, <1>6, <1>7 DEF Outside, Entered
  <1>9. TwiceBound'
    BY DEF CheckTimeouts, TwiceBound
  <1> QED  BY <1>2, <1>8, <1>9 DEF LateInv, NotLate

\* An entry expires; the last time counts from the call of sys_check_timeouts.
LEMMA LateExpire == ASSUME TimersBase, LateInv, ShortPass, OneShort, Expire PROVE LateInv'
  <1> DEFINE h == running'
             d == diff
  <1>1. /\ h \in Pending /\ Pending' = Pending \ {h}
        /\ Waits[h] = Head(list).time /\ \A g \in Pending : Waits[h] <= Waits[g]
        /\ Waits' = [g \in Handlers |-> IF g \in Pending \ {h} THEN Waits[g] - Waits[h] ELSE NoTimer]
    BY ExpiredWaits
  <1>2. /\ checking /\ checking' = checking /\ running = NoTimer /\ Waits[h] <= d /\ diff' = d - Waits[h]
        /\ fired' = h /\ firedAge' = age[h] /\ age' = age /\ late' = late
    BY <1>1 DEF Expire, Due
  <1>3. h \in Handlers /\ Waits[h] \in Nat /\ Waits[h] <= Period[h] /\ age[h] \in Nat /\ Period[h] \in Nat
    BY <1>1, LateTypes
  <1>4. \A g \in Pending' : /\ g \in Pending /\ g # h /\ Waits'[g] = Waits[g] - Waits[h]
                            /\ Waits[g] \in Nat /\ age[g] \in Nat /\ Period[g] \in Nat
    BY <1>1, LateTypes
  <1>5. Elapsed(last)' = late
    <2>1. now \in 0 .. ClockMod - 1 /\ late \in 0 .. MaxPass /\ MaxPass < ClockMod /\ ClockMod \in Nat /\ MaxPass \in Nat
      BY TimerConstants DEF TimersBase, TimersTyped
    <2>2. now' = now /\ last' = IF now >= late THEN now - late ELSE now - late + ClockMod
      BY DEF Expire, CheckTime
    <2> QED  BY <2>1, <2>2 DEF Elapsed
  <1>6. h # NoTimer
    BY <1>3, TimerConstants
  <1> HIDE DEF h, d
  <1>7. CASE Entered
    <2>1. PICK r \in Nat : Rest(r)
      BY <1>7 DEF Entered
    <2>2. d = Elapsed(last) - late /\ \A g \in Pending : d < Waits[g] + MaxPass \/ Young(g, MaxPass + late)
      BY <1>7 DEF Entered, Behind, d
    <2>3. r < Waits[h] /\ age[h] <= 2 * (Period[h] - Waits[h]) + r + Elapsed(last)
      BY <1>1, <2>1 DEF Rest, Aged
    <2>4. d \in Nat /\ Elapsed(last) \in Nat /\ late \in Nat /\ late <= MaxPass /\ MaxPass \in Nat
      BY LateTypes DEF d
    <2>5. age[h] <= 2 * (Period[h] + MaxPass)
      <3>1. CASE d < Waits[h] + MaxPass
        BY <1>3, <2>2, <2>3, <2>4, <3>1
      <3>2. CASE Young(h, MaxPass + late)
        BY <1>3, <2>4, <3>2 DEF Young
      <3> QED  BY <1>1, <2>2, <3>1, <3>2
    <2>6. ASSUME NEW g \in Pending' PROVE age[g] <= 2 * (Period[g] - Waits'[g]) + (d - Waits[h]) + late
      <3>1. age[g] <= 2 * (Period[g] - Waits[g]) + r + Elapsed(last) /\ r \in Nat
        BY <1>4, <2>1 DEF Rest, Aged
      <3> QED  BY <1>3, <1>4, <2>2, <2>3, <2>4, <3>1
    <2>7. Aged(diff)'
      BY <1>2, <1>5, <2>6 DEF Aged
    <2>8. \/ diff' <= MaxPass
          \/ h \notin Periodic /\ Short' /\ \A g \in Pending' : diff' < Waits'[g] + MaxPass
      <3>1. CASE d < Waits[h] + MaxPass
        BY <1>2, <1>3, <2>4, <3>1
      <3>2. CASE Young(h, MaxPass + late)
        <4>1. h = Tcp /\ Waits[h] = Period[Tcp]
          BY <3>2 DEF Young
        <4>2. PICK k \in Pending : k # Tcp /\ Waits[k] <= Period[k] /\ Period[k] <= 2 * Period[Tcp]
          BY <1>2, SomePeriodic
        <4>3. k \in Pending' /\ Waits'[k] <= Period[Tcp]
          <5>1. k \in Pending'
            BY <1>1, <4>1, <4>2
          <5> QED  BY <1>3, <1>4, <4>1, <4>2, <5>1
        <4>4. Short'
          BY <4>3 DEF Short
        <4>5. ASSUME NEW g \in Pending' PROVE diff' < Waits'[g] + MaxPass
          <5>1. d < Waits[g] + MaxPass
            BY <1>4, <2>2, <4>1 DEF Young
          <5> QED  BY <1>2, <1>3, <1>4, <2>4, <5>1
        <4>6. h \notin Periodic
          BY <4>1, TimerConstants
        <4> QED  BY <4>4, <4>5, <4>6
      <3> QED  BY <1>1, <2>2, <3>1, <3>2
    <2>9. Expiring'
      BY <1>2, <1>5, <2>7, <2>8 DEF Expiring, h
    <2>10. TwiceBound'
      BY <1>2, <2>5 DEF TwiceBound
    <2> QED  BY <1>2, <2>9, <2>10 DEF LateInv, NotLate
  <1>8. CASE Expiring
    <2>1. /\ Elapsed(last) = late
          /\ d <= MaxPass \/ \A g \in Pending : d < Waits[g] + MaxPass
      BY <1>8 DEF Expiring, d
    <2>2. age[h] <= 2 * (Period[h] - Waits[h]) + d + late
      BY <1>1, <1>8, <2>1 DEF Expiring, Aged, d
    <2>3. d \in Nat /\ late \in Nat /\ late <= MaxPass /\ MaxPass \in Nat
      BY LateTypes DEF d
    <2>4. d < Waits[h] + MaxPass \/ d <= MaxPass
      BY <1>1, <2>1
    <2>5. age[h] <= 2 * (Period[h] + MaxPass)
      BY <1>3, <2>2, <2>3, <2>4
    <2>6. diff' <= MaxPass
      BY <1>2, <1>3, <2>3, <2>4
    <2>7. ASSUME NEW g \in Pending' PROVE age[g] <= 2 * (Period[g] - Waits'[g]) + (d - Waits[h]) + late
      <3>1. age[g] <= 2 * (Period[g] - Waits[g]) + d + late
        BY <1>4, <1>8, <2>1 DEF Expiring, Aged, d
      <3> QED  BY <1>3, <1>4, <2>3, <3>1
    <2>8. Aged(diff)'
      BY <1>2, <1>5, <2>7 DEF Aged
    <2>9. Expiring'
      BY <1>2, <1>5, <2>6, <2>8 DEF Expiring
    <2>10. TwiceBound'
      BY <1>2, <2>5 DEF TwiceBound
    <2> QED  BY <1>2, <2>9, <2>10 DEF LateInv, NotLate
  <1> QED  BY <1>2, <1>7, <1>8 DEF LateInv, NotLate

\* A handler arms itself again.
LEMMA LateRearm ==
  ASSUME TimersBase, LateInv, ShortPass, NEW h \in Handlers, h = running, Timeout(h),
         running' = NoTimer, UNCHANGED <<now, last, checking, diff, late>>, TwiceBound'
  PROVE  LateInv'
  <1>1. h \notin Pending /\ h # NoTimer /\ checking
    BY TimerConstants DEF TimersBase, TimersArmed
  <1>2. Pending' = Pending \cup {h} /\ Waits' = [Waits EXCEPT ![h] = Period[h]]
    BY <1>1, ArmedWaits
  <1>3. /\ Waits'[h] = Period[h] /\ age'[h] = 0
        /\ \A g \in Pending : Waits'[g] = Waits[g] /\ age'[g] = age[g]
    <2>1. Waits \in [Handlers -> {Waits[g] : g \in Handlers}] /\ age \in [Handlers -> 0 .. AgeMax]
      BY DEF Waits, TimersBase, TimersTyped
    <2>2. age' = [age EXCEPT ![h] = 0]
      BY DEF Timeout
    <2> QED  BY <1>1, <1>2, <2>1, <2>2, LateTypes
  <1>4. Elapsed(last)' = Elapsed(last) /\ Elapsed(last) = late /\ Expiring
    <2>1. ~Entered
      BY <1>1 DEF Entered
    <2> QED  BY <1>1, <2>1, ClockUnchanged DEF LateInv, NotLate, Expiring
  <1>5. Aged(diff)'
    <2>1. age'[h] <= 2 * (Period[h] - Waits'[h]) + diff + Elapsed(last)
      BY <1>3, LateTypes
    <2>2. \A g \in Pending : age'[g] <= 2 * (Period[g] - Waits'[g]) + diff + Elapsed(last)
      BY <1>3, <1>4 DEF Expiring, Aged
    <2> QED  BY <1>2, <1>4, <2>1, <2>2 DEF Aged
  <1>6. \/ diff <= MaxPass
        \/ running' \notin Periodic /\ Short' /\ \A g \in Pending' : diff < Waits'[g] + MaxPass
    <2> SUFFICES ASSUME running \notin Periodic, Short, \A g \in Pending : diff < Waits[g] + MaxPass
                 PROVE  running' \notin Periodic /\ Short' /\ \A g \in Pending' : diff < Waits'[g] + MaxPass
      BY <1>4 DEF Expiring
    <2>1. h = Tcp
      BY DEF Handlers
    <2>2. PICK k \in Pending : Waits[k] <= Period[Tcp]
      BY DEF Short
    <2>3. Short'
      BY <1>2, <1>3, <2>2 DEF Short
    <2>4. diff < Period[Tcp] + MaxPass
      <3>1. diff < Waits[k] + MaxPass
        BY <2>2
      <3> QED  BY <2>2, <3>1, LateTypes, TimerConstants
    <2>5. NoTimer \notin Periodic
      BY TimerConstants
    <2> QED  BY <1>2, <1>3, <2>1, <2>3, <2>4, <2>5
  <1>7. Expiring'
    BY <1>4, <1>5, <1>6 DEF Expiring
  <1> QED  BY <1>1, <1>7 DEF LateInv, NotLate

\* tcpip_tcp_timer ends without connections.
LEMMA LateRests ==
  ASSUME TimersBase, LateInv, running = Tcp, UNCHANGED <<now, last, list, age, checking, diff, late>>,
         running' = NoTimer, TwiceBound'
  PROVE  LateInv'
  <1>1. checking /\ NoTimer # Tcp /\ NoTimer \notin Periodic
    BY TimerConstants DEF TimersBase, TimersArmed
  <1>2. Pending' = Pending /\ Waits' = Waits /\ Elapsed(last)' = Elapsed(last)
    BY ListUnchanged, ClockUnchanged
  <1>3. Expiring
    BY <1>1 DEF LateInv, NotLate, Entered
  <1>4. Expiring'
    BY <1>1, <1>2, <1>3 DEF Expiring, Aged, Short
  <1> QED  BY <1>1, <1>4 DEF LateInv, NotLate

\* The pass ends: nothing else is due.
LEMMA LateEnd == ASSUME TimersBase, LateInv, OneShort, CheckEnd PROVE LateInv'
  <1>1. Pending' = Pending /\ Waits' = Waits /\ Elapsed(last)' = Elapsed(last)
    BY ListUnchanged, ClockUnchanged DEF CheckEnd
  <1>2. checking /\ checking' = FALSE /\ running = NoTimer /\ running' = running /\ ~Due /\ late' = late /\ age' = age
    BY DEF CheckEnd
  <1>3. list \in Seq(TimerRec) /\ Once(list)
    BY DEF TimersBase, TimersTyped, TimersArmed
  <1>4. list # <<>>
    <2>1. \E h \in Pending : TRUE
      BY <1>2, SomePeriodic
    <2> QED  BY <1>3, <2>1 DEF Pending, HandlersOn
  <1>5. \A h \in Pending : diff < Waits[h]
    <2>1. TakenOff(list, Tail(list), Head(list).h, Head(list).time)
      BY <1>3, <1>4, ExpiryIs
    <2>2. Head(list).time \in Nat
      BY <1>3, <1>4, <2>1, OnList DEF TakenOff
    <2>3. \A h \in Pending : Head(list).time <= Waits[h]
      BY <2>1, PendingIs DEF TakenOff, Pending
    <2>4. diff < Head(list).time
      BY <1>2, <1>4, <2>2, LateTypes DEF Due
    <2> QED  BY <2>2, <2>3, <2>4, LateTypes
  <1>6. CASE Entered
    <2>1. PICK r \in Nat : Rest(r)
      BY <1>6 DEF Entered
    <2>2. Rest(r)'
      BY <1>1, <1>2, <2>1 DEF Rest, Short, Aged
    <2>3. Behind' = diff
      BY <1>1, <1>2, <1>6 DEF Entered, Behind
    <2>4. Outside'
      BY <1>1, <1>2, <1>5, <2>2, <2>3, LateTypes DEF Outside
    <2>5. TwiceBound'
      BY DEF CheckEnd, TwiceBound
    <2> QED  BY <1>2, <2>4, <2>5 DEF LateInv, NotLate
  <1>7. CASE Expiring
    <2>1. Aged(diff) /\ (diff <= MaxPass \/ Short) /\ Elapsed(last) = late
      BY <1>7 DEF Expiring
    <2>2. Rest(diff)
      BY <1>5, <2>1 DEF Rest
    <2>3. diff \in Nat /\ Rest(diff)'
      BY <1>1, <1>2, <2>2, LateTypes DEF Rest, Short, Aged, CheckEnd
    <2>4. Behind' = 0
      BY <1>1, <1>2, <2>1, LateTypes DEF Behind
    <2>5. \A h \in Pending' : Behind' < Waits'[h]
      BY <1>1, <1>5, <2>4, LateTypes
    <2>6. \E r \in Nat : Rest(r)'
      BY <2>3 DEF Rest, Aged, Short, CheckEnd
    <2>7. Outside'
      BY <1>2, <2>4, <2>5, <2>6 DEF Outside
    <2>8. TwiceBound'
      BY DEF CheckEnd, TwiceBound
    <2> QED  BY <1>2, <2>7, <2>8 DEF LateInv, NotLate
  <1> QED  BY <1>2, <1>6, <1>7 DEF LateInv, NotLate

LEMMA LateStep ==
  ShortPass /\ OneShort /\ TimersBase /\ LateInv /\ [TimersNext]_timersVars => LateInv'
  <1> SUFFICES ASSUME ShortPass, OneShort, TimersBase, LateInv, [TimersNext]_timersVars PROVE LateInv'
    OBVIOUS
  <1>1. CASE Tick
    BY <1>1, LateTick
  <1>2. CASE Register
    <2>1. CASE active
      <3>1. UNCHANGED <<now, last, list, checking, diff, running, late, age>> /\ TwiceBound'
        BY <1>2, <2>1 DEF Register, TimerNeeded, TwiceBound
      <3> QED  BY <3>1, LateSame
    <2>2. CASE ~active
      BY <1>2, <2>2, LateRegister
    <2> QED  BY <2>1, <2>2
  <1>3. CASE Unregister
    <2>1. UNCHANGED <<now, last, list, checking, diff, running, late, age>> /\ TwiceBound'
      BY <1>3 DEF Unregister, TwiceBound
    <2> QED  BY <2>1, LateSame
  <1>4. CASE CheckTimeouts
    BY <1>4, LateCheck
  <1>5. CASE Expire
    BY <1>5, LateExpire
  <1>6. CASE PeriodicTimer
    <2>1. running \in Handlers /\ Timeout(running) /\ running' = NoTimer /\ UNCHANGED <<now, last, checking, diff, late>>
      BY <1>6, TimerConstants DEF PeriodicTimer
    <2>2. TwiceBound'
      BY <1>6 DEF PeriodicTimer, TwiceBound
    <2> QED  BY <2>1, <2>2, LateRearm
  <1>7. CASE TcpTimer
    <2>1. running = Tcp /\ Tcp \in Handlers /\ running' = NoTimer /\ UNCHANGED <<now, last, checking, diff, late>>
      BY <1>7, TimerConstants DEF TcpTimer
    <2>2. TwiceBound'
      BY <1>7 DEF TcpTimer, TwiceBound
    <2>3. CASE pcbs
      <3>1. Timeout(Tcp)
        BY <1>7, <2>3 DEF TcpTimer, RearmTcp
      <3> QED  BY <2>1, <2>2, <3>1, LateRearm
    <2>4. CASE ~pcbs
      <3>1. UNCHANGED <<list, age>>
        BY <1>7, <2>4 DEF TcpTimer, RearmTcp
      <3> QED  BY <2>1, <2>2, <3>1, LateRests
    <2> QED  BY <2>3, <2>4
  <1>8. CASE CheckEnd
    BY <1>8, LateEnd
  <1>9. CASE UNCHANGED timersVars
    <2>1. UNCHANGED <<now, last, list, checking, diff, running, late, age>> /\ TwiceBound'
      BY <1>9 DEF timersVars, LateInv, TwiceBound
    <2> QED  BY <2>1, LateSame
  <1> QED  BY <1>1, <1>2, <1>3, <1>4, <1>5, <1>6, <1>7, <1>8, <1>9 DEF TimersNext, Check

\* No timer is armed twice or lost (no other than the TCP timer ever leaves the
\* list but to run), tcpip_tcp_timer_active says whether it is on its way, and no
\* timer takes more than twice its time and two passes of the main loop.
THEOREM TimersInvariance == ShortPass /\ OneShort => (TimersSpec => []TimersRun)
  <1> SUFFICES ASSUME ShortPass, OneShort PROVE TimersSpec => []TimersRun
    OBVIOUS
  <1>1. TimersInit => LateInv
    BY LateInit
  <1>2. TimersBase /\ LateInv /\ [TimersNext]_timersVars => LateInv'
    BY LateStep
  <1>3. TimersBase /\ LateInv => TimersRun
    BY BaseTypes DEF TimersRun, LateInv
  <1> QED  BY BaseInvariance, <1>1, <1>2, <1>3, PTL DEF TimersSpec

(***************************************************************************)
(* The heap                                                                *)
(***************************************************************************)

LEMMA HeapNumbers ==
    /\ HeapSize \in Nat /\ Header \in Nat /\ MinSize \in Nat /\ Header >= 1 /\ MinSize >= 1
    /\ ram_end = HeapSize /\ Header + MinSize <= HeapSize
  BY HeapAssumption DEF ram_end

\* The least of a set of numbers, known by its order.
LEMMA MinIs ==
  ASSUME NEW S, S \subseteq Nat, NEW n \in S, \A x \in S : n <= x
  PROVE  Min(S) = n
  <1>1. Min(S) \in S /\ \A x \in S : Min(S) <= x
    BY MinOfNats
  <1>2. Min(S) \in Nat /\ n \in Nat /\ Min(S) <= n /\ n <= Min(S)
    BY <1>1
  <1> QED  BY <1>2

-----------------------------------------------------------------------------
Hdr == [next : 0 .. HeapSize, prev : 0 .. HeapSize, used : BOOLEAN]

\* n is the header that comes after b.
Follows(r, b, n) == n \in DOMAIN r /\ b < n /\ \A c \in DOMAIN r : b < c => n <= c

\* The list of r in the order of addresses, forward and back.
Chain(r) ==
    /\ r \in [DOMAIN r -> Hdr] /\ DOMAIN r \subseteq 0 .. HeapSize
    /\ 0 \in DOMAIN r /\ HeapSize \in DOMAIN r
    /\ r[0].prev = 0 /\ r[HeapSize].used = TRUE
    /\ \A b \in DOMAIN r \ {HeapSize} :
          /\ Follows(r, b, r[b].next) /\ b + Header + MinSize <= r[b].next
          /\ r[b].next # HeapSize => r[r[b].next].prev = b
    /\ \A b \in DOMAIN r \ {0, HeapSize} :
          r[b].prev \in DOMAIN r \ {HeapSize} /\ r[r[b].prev].next = b

\* The block after a free one is used, but where it is one of those in S.
Tight(r, S) == \A b \in DOMAIN r : ~r[b].used /\ r[b].next \notin S => r[r[b].next].used

Lowest(r, low) ==
    /\ low \in DOMAIN r /\ (low = HeapSize \/ ~r[low].used)
    /\ \A b \in DOMAIN r : ~r[b].used => low <= b

Owns(r, o) ==
    /\ o \in [DOMAIN o -> Nat] /\ DOMAIN o = {b \in DOMAIN r \ {HeapSize} : r[b].used}
    /\ \A b \in DOMAIN o : b + Header + o[b] <= r[b].next

HeapInv == Chain(ram) /\ Tight(ram, {}) /\ Lowest(ram, lfree) /\ Owns(ram, owned)

\* The fields of header x.
Cell(r, x, next, prev, used) == r[x].next = next /\ r[x].prev = prev /\ r[x].used = used

LEMMA ChainCell ==
  ASSUME NEW r, Chain(r), NEW b \in DOMAIN r
  PROVE  /\ r[b].next \in 0 .. HeapSize /\ r[b].prev \in 0 .. HeapSize /\ r[b].used \in BOOLEAN
         /\ r[b] = [next |-> r[b].next, prev |-> r[b].prev, used |-> r[b].used]
         /\ b \in 0 .. HeapSize
  BY DEF Chain, Hdr

LEMMA PutIs ==
  ASSUME NEW r, Chain(r), NEW b \in DOMAIN r, NEW next \in 0 .. HeapSize, NEW prev \in 0 .. HeapSize,
         NEW used \in BOOLEAN
  PROVE  LET s == Put(r, b, [next |-> next, prev |-> prev, used |-> used])
         IN /\ DOMAIN s = DOMAIN r /\ s \in [DOMAIN s -> Hdr] /\ Cell(s, b, next, prev, used)
            /\ \A x \in DOMAIN r \ {b} : s[x] = r[x]
  <1>1. r \in [DOMAIN r -> Hdr] /\ DOMAIN r \cup {b} = DOMAIN r
    BY DEF Chain
  <1>2. [next |-> next, prev |-> prev, used |-> used] \in Hdr
    BY DEF Hdr
  <1> QED  BY <1>1, <1>2 DEF Put, Cell

-----------------------------------------------------------------------------
\* A header at m between a and the one after it.
Divided(s, r, a, m, used) ==
    LET n == r[a].next
    IN /\ DOMAIN s = DOMAIN r \cup {m} /\ s \in [DOMAIN s -> Hdr]
       /\ Cell(s, a, m, r[a].prev, used) /\ Cell(s, m, n, a, FALSE)
       /\ n # HeapSize => Cell(s, n, r[n].next, m, r[n].used)
       /\ n = HeapSize => s[n].used = r[n].used
       /\ \A x \in DOMAIN r \ {a, n} : s[x] = r[x]

LEMMA SplitDivides ==
  ASSUME NEW r, Chain(r), NEW a \in DOMAIN r \ {HeapSize}, NEW m \in Nat, a < m, m < r[a].next,
         NEW used \in BOOLEAN
  PROVE  Divided(Split(r, a, m, used), r, a, m, used)
  <1> DEFINE n == r[a].next
             rest == [next |-> n, prev |-> a, used |-> FALSE]
             cut == [r[a] EXCEPT !.next = m, !.used = used]
             p == Put(r, a, cut)
             q == Put(p, m, rest)
             s == Linked(q, m)
  <1>1. /\ r \in [DOMAIN r -> Hdr] /\ DOMAIN r \subseteq 0 .. HeapSize /\ n \in DOMAIN r
        /\ n \in 0 .. HeapSize /\ a \in 0 .. HeapSize /\ m \notin DOMAIN r /\ m \in 0 .. HeapSize
        /\ a # n /\ a # m /\ n # m
    <2>1. a \in 0 .. HeapSize /\ Follows(r, a, n) /\ DOMAIN r \subseteq 0 .. HeapSize /\ r \in [DOMAIN r -> Hdr]
      BY DEF Chain
    <2>2. n \in 0 .. HeapSize /\ HeapSize \in Nat
      BY <2>1, HeapNumbers DEF Follows
    <2>3. m \notin DOMAIN r
      BY <2>1, <2>2 DEF Follows
    <2> QED  BY <2>1, <2>2, <2>3 DEF Follows
  <1>2. cut.next = m /\ cut.prev = r[a].prev /\ cut.used = used
    <2>1. r[a] \in Hdr
      BY <1>1
    <2> QED  BY <2>1 DEF Hdr
  <1>3. cut \in Hdr /\ rest \in Hdr
    <2>1. r[a] \in Hdr
      BY <1>1
    <2> QED  BY <1>1, <2>1 DEF Hdr
  <1> HIDE DEF cut, rest
  <1>4. p \in [DOMAIN r -> Hdr] /\ p[a] = cut /\ \A x \in DOMAIN r \ {a} : p[x] = r[x]
    BY <1>1, <1>3 DEF Put
  <1> HIDE DEF p
  <1>5. q \in [DOMAIN r \cup {m} -> Hdr] /\ q[m] = rest /\ \A x \in DOMAIN r : q[x] = p[x]
    BY <1>1, <1>3, <1>4 DEF Put
  <1> HIDE DEF q
  <1>6. q[m].next = n
    BY <1>5 DEF rest
  <1>7. Cell(q, a, m, r[a].prev, used) /\ Cell(q, m, n, a, FALSE) /\ q[n] = r[n]
        /\ \A x \in DOMAIN r \ {a} : q[x] = r[x]
    BY <1>1, <1>2, <1>4, <1>5 DEF Cell, rest
  <1>8. Split(r, a, m, used) = s
    BY DEF Split, q, p, cut, rest
  <1>9. CASE n = HeapSize
    <2>1. s = q
      BY <1>6, <1>9 DEF Linked, ram_end
    <2> QED  BY <1>1, <1>5, <1>7, <1>8, <1>9, <2>1 DEF Divided
  <1>10. CASE n # HeapSize
    <2> DEFINE h == [r[n] EXCEPT !.prev = m]
    <2>1. h \in Hdr /\ h.next = r[n].next /\ h.prev = m /\ h.used = r[n].used
      BY <1>1 DEF Hdr
    <2>2. s = Put(q, n, h)
      BY <1>6, <1>7, <1>10 DEF Linked, ram_end
    <2> HIDE DEF h
    <2>3. s \in [DOMAIN r \cup {m} -> Hdr] /\ s[n] = h /\ \A x \in (DOMAIN r \cup {m}) \ {n} : s[x] = q[x]
      BY <1>1, <1>5, <2>1, <2>2 DEF Put
    <2>4. Cell(s, a, m, r[a].prev, used) /\ Cell(s, m, n, a, FALSE)
      BY <1>1, <1>7, <2>3 DEF Cell
    <2> HIDE DEF s
    <2> QED  BY <1>1, <1>7, <1>8, <1>10, <2>1, <2>3, <2>4 DEF Divided, Cell
  <1> QED  BY <1>9, <1>10

LEMMA DividedChain ==
  ASSUME NEW r, Chain(r), NEW a \in DOMAIN r \ {HeapSize}, NEW m \in Nat,
         a + Header + MinSize <= m, m + Header + MinSize <= r[a].next,
         NEW used \in BOOLEAN, NEW s, Divided(s, r, a, m, used)
  PROVE  Chain(s) /\ m \notin DOMAIN r /\ s[a].next = m /\ s[m].next = r[a].next
  <1> DEFINE n == r[a].next
  <1>0. Header \in Nat /\ MinSize \in Nat /\ HeapSize \in Nat /\ Header >= 1
    BY HeapNumbers
  <1>1. /\ DOMAIN r \subseteq 0 .. HeapSize /\ 0 \in DOMAIN r /\ HeapSize \in DOMAIN r
        /\ r[0].prev = 0 /\ r[HeapSize].used = TRUE
        /\ Follows(r, a, n)
    BY DEF Chain
  <1>2. n \in 0 .. HeapSize /\ n \in DOMAIN r /\ a \in 0 .. HeapSize /\ a < m /\ m < n /\ m \notin DOMAIN r
        /\ a # n
    BY <1>0, <1>1 DEF Follows
  <1>3. DOMAIN s = DOMAIN r \cup {m} /\ s \in [DOMAIN s -> Hdr]
    BY DEF Divided
  <1>4. s[0].prev = 0 /\ s[HeapSize].used = TRUE
    <2>1. n # 0 /\ a # HeapSize
      BY <1>2
    <2> QED  BY <1>1, <1>2, <2>1 DEF Divided, Cell
  <1>5. ASSUME NEW b \in DOMAIN s \ {HeapSize}
        PROVE  /\ Follows(s, b, s[b].next) /\ b + Header + MinSize <= s[b].next
               /\ s[b].next # HeapSize => s[s[b].next].prev = b
    <2>1. CASE b = a
      <3>1. s[b].next = m /\ s[m].prev = a
        BY <2>1 DEF Divided, Cell
      <3>2. Follows(s, a, m)
        BY <1>1, <1>2, <1>3 DEF Follows
      <3> QED  BY <2>1, <3>1, <3>2
    <2>2. CASE b = m
      <3>1. s[b].next = n /\ (n # HeapSize => s[n].prev = m)
        BY <2>2 DEF Divided, Cell
      <3>2. Follows(s, m, n)
        BY <1>0, <1>1, <1>2, <1>3 DEF Follows
      <3> QED  BY <2>2, <3>1, <3>2
    <2>3. CASE b \notin {a, m}
      <3>1. b \in DOMAIN r \ {HeapSize}
        BY <1>3, <2>3
      <3>2. s[b].next = r[b].next
        BY <1>2, <2>3, <3>1 DEF Divided, Cell
      <3>3. /\ Follows(r, b, r[b].next) /\ b + Header + MinSize <= r[b].next
            /\ r[b].next # HeapSize => r[r[b].next].prev = b
        BY <3>1 DEF Chain
      <3>4. b \in 0 .. HeapSize /\ r[b].next \in 0 .. HeapSize /\ r[b].next \in DOMAIN r
        BY <1>1, <3>1, <3>3 DEF Follows
      <3>5. b < m => r[b].next <= m
        <4> HAVE b < m
        <4>1. b < a
          <5>1. a < b => n <= b
            BY <1>1, <3>1 DEF Follows
          <5> QED  BY <1>2, <2>3, <3>4, <5>1
        <4>2. r[b].next <= a
          BY <3>3, <4>1 DEF Follows
        <4> QED  BY <1>2, <3>4, <4>2
      <3>6. r[b].next # n
        <4>1. b <= a \/ n <= b
          BY <1>1, <1>2, <3>1, <3>4 DEF Follows
        <4>2. b < a => r[b].next <= a
          BY <1>2, <3>3 DEF Follows
        <4> QED  BY <1>2, <2>3, <3>3, <3>4, <4>1, <4>2 DEF Follows
      <3>7. Follows(s, b, s[b].next)
        BY <1>3, <3>2, <3>3, <3>5 DEF Follows
      <3>8. s[b].next # HeapSize => s[s[b].next].prev = b
        <4>1. s[r[b].next].prev = r[r[b].next].prev
          BY <3>4, <3>6 DEF Divided, Cell
        <4> QED  BY <3>2, <3>3, <4>1
      <3> QED  BY <3>2, <3>3, <3>7, <3>8
    <2> QED  BY <2>1, <2>2, <2>3
  <1>6. ASSUME NEW b \in DOMAIN s \ {0, HeapSize}
        PROVE  s[b].prev \in DOMAIN s \ {HeapSize} /\ s[s[b].prev].next = b
    <2>1. CASE b = m
      BY <1>3, <2>1 DEF Divided, Cell
    <2>2. CASE b = n
      <3>1. s[b].prev = m /\ s[m].next = n
        BY <2>2 DEF Divided, Cell
      <3> QED  BY <1>2, <1>3, <2>2, <3>1
    <2>3. CASE b \notin {m, n}
      <3>1. b \in DOMAIN r \ {0, HeapSize}
        BY <1>3, <2>3
      <3>2. r[b].prev \in DOMAIN r \ {HeapSize} /\ r[r[b].prev].next = b
        BY <3>1 DEF Chain
      <3>3. s[b].prev = r[b].prev
        BY <2>3, <3>1 DEF Divided, Cell
      <3>4. r[b].prev # a
        BY <2>3, <3>2
      <3>5. s[r[b].prev].next = r[r[b].prev].next
        BY <3>2, <3>4 DEF Divided, Cell
      <3> QED  BY <1>3, <3>2, <3>3, <3>5
    <2> QED  BY <2>1, <2>2, <2>3
  <1>7. s[a].next = m /\ s[m].next = r[a].next
    BY DEF Divided, Cell
  <1>8. DOMAIN s \subseteq 0 .. HeapSize /\ 0 \in DOMAIN s /\ HeapSize \in DOMAIN s
    BY <1>0, <1>1, <1>2, <1>3
  <1> QED  BY <1>2, <1>3, <1>4, <1>5, <1>6, <1>7, <1>8 DEF Chain

-----------------------------------------------------------------------------
\* The header at y is taken out: what was after it is now after a.
Merged(s, r, a, y) ==
    LET n == r[y].next
    IN /\ DOMAIN s = DOMAIN r \ {y} /\ s \in [DOMAIN s -> Hdr]
       /\ Cell(s, a, n, r[a].prev, r[a].used) /\ Cell(s, n, r[n].next, a, r[n].used)
       /\ \A x \in DOMAIN s \ {a, n} : s[x] = r[x]

\* y is the block after a, n the one after y.
LEMMA ThreeInOrder ==
  ASSUME NEW r, Chain(r), NEW a \in DOMAIN r \ {HeapSize}, NEW y, y = r[a].next, y # HeapSize
  PROVE  /\ y \in DOMAIN r /\ r[y].next \in DOMAIN r /\ a \in Nat /\ y \in Nat /\ r[y].next \in Nat
         /\ a < y /\ y < r[y].next /\ y + Header + MinSize <= r[y].next
         /\ a + Header + MinSize <= y /\ y \in 0 .. HeapSize /\ r[y].next \in 0 .. HeapSize
  <1>1. DOMAIN r \subseteq 0 .. HeapSize /\ HeapSize \in Nat
    BY HeapNumbers DEF Chain
  <1>2. Follows(r, a, y) /\ a + Header + MinSize <= y
    BY DEF Chain
  <1>3. y \in DOMAIN r \ {HeapSize}
    BY <1>2 DEF Follows
  <1>4. Follows(r, y, r[y].next) /\ y + Header + MinSize <= r[y].next
    BY <1>3 DEF Chain
  <1> QED  BY <1>1, <1>2, <1>3, <1>4 DEF Follows

LEMMA CombinedMerges ==
  ASSUME NEW r, Chain(r), NEW a \in DOMAIN r \ {HeapSize}, NEW y, y = r[a].next, y # HeapSize
  PROVE  Merged(Combined(r, a, y), r, a, y)
  <1> DEFINE n == r[y].next
             s == Combined(r, a, y)
             new == [r[a] EXCEPT !.next = n]
             back == [r[n] EXCEPT !.prev = a]
  <1>1. /\ r \in [DOMAIN r -> Hdr] /\ n \in DOMAIN r /\ n \in 0 .. HeapSize /\ a \in 0 .. HeapSize
        /\ a # n /\ a # y /\ n # y
    <2>1. /\ n \in DOMAIN r /\ n \in 0 .. HeapSize /\ y \in Nat /\ a < y /\ y < n /\ a \in Nat /\ n \in Nat
      BY ThreeInOrder
    <2>2. r \in [DOMAIN r -> Hdr] /\ DOMAIN r \subseteq 0 .. HeapSize
      BY DEF Chain
    <2> QED  BY <2>1, <2>2
  <1>2. /\ new \in Hdr /\ new.next = n /\ new.prev = r[a].prev /\ new.used = r[a].used
        /\ back \in Hdr /\ back.next = r[n].next /\ back.prev = a /\ back.used = r[n].used
    BY <1>1 DEF Hdr
  <1>3. s = [x \in DOMAIN r \ {y} |-> IF x = a THEN new ELSE IF x = n THEN back ELSE r[x]]
    BY <1>1 DEF Combined
  <1> HIDE DEF new, back, s
  <1>4. /\ DOMAIN s = DOMAIN r \ {y} /\ s \in [DOMAIN s -> Hdr] /\ s[a] = new /\ s[n] = back
        /\ \A x \in DOMAIN s \ {a, n} : s[x] = r[x]
    BY <1>1, <1>2, <1>3
  <1> QED  BY <1>2, <1>4 DEF Merged, Cell, s

LEMMA MergedChain ==
  ASSUME NEW r, Chain(r), NEW a \in DOMAIN r \ {HeapSize}, NEW y, y = r[a].next, y # HeapSize,
         NEW s, Merged(s, r, a, y)
  PROVE  Chain(s) /\ s[a].next = r[y].next
  <1> DEFINE n == r[y].next
  <1>0. Header \in Nat /\ MinSize \in Nat /\ HeapSize \in Nat
    BY HeapNumbers
  <1>1. /\ y \in DOMAIN r \ {HeapSize} /\ n \in DOMAIN r /\ a \in Nat /\ y \in Nat /\ n \in Nat
        /\ a < y /\ y < n /\ y + Header + MinSize <= n /\ a + Header + MinSize <= y
    BY ThreeInOrder
  <1>2. /\ DOMAIN r \subseteq 0 .. HeapSize /\ 0 \in DOMAIN r /\ HeapSize \in DOMAIN r
        /\ r[0].prev = 0 /\ r[HeapSize].used = TRUE /\ r[y].prev = a
        /\ (n # HeapSize => r[n].prev = y) /\ Follows(r, a, y) /\ Follows(r, y, n)
    BY <1>1 DEF Chain
  <1>3. DOMAIN s = DOMAIN r \ {y} /\ s \in [DOMAIN s -> Hdr]
    BY DEF Merged
  <1>4. s[0].prev = 0 /\ s[HeapSize].used = TRUE
    <2>1. n # 0 /\ a # HeapSize /\ 0 \in DOMAIN s /\ HeapSize \in DOMAIN s
      BY <1>1, <1>2, <1>3
    <2>2. s[0].prev = 0
      BY <1>2, <2>1 DEF Merged, Cell
    <2>3. s[HeapSize].used = TRUE
      BY <1>2, <2>1 DEF Merged, Cell
    <2> QED  BY <2>2, <2>3
  <1>5. ASSUME NEW b \in DOMAIN s \ {HeapSize}
        PROVE  /\ Follows(s, b, s[b].next) /\ b + Header + MinSize <= s[b].next
               /\ s[b].next # HeapSize => s[s[b].next].prev = b
    <2>1. CASE b = a
      <3>1. s[b].next = n /\ s[n].prev = a
        BY <2>1 DEF Merged, Cell
      <3>2. \A c \in DOMAIN s : a < c => n <= c
        <4> SUFFICES ASSUME NEW c \in DOMAIN s, a < c  PROVE  n <= c
          OBVIOUS
        <4>1. c \in DOMAIN r /\ c # y /\ c \in Nat
          BY <1>2, <1>3
        <4>2. y <= c
          BY <1>2, <4>1 DEF Follows
        <4>3. y < c
          BY <1>1, <4>1, <4>2
        <4> QED  BY <1>2, <4>1, <4>3 DEF Follows
      <3>3. Follows(s, a, n) /\ a + Header + MinSize <= n
        BY <1>0, <1>1, <1>3, <3>2 DEF Follows
      <3> QED  BY <2>1, <3>1, <3>3
    <2>2. CASE b # a
      <3>1. b \in DOMAIN r \ {HeapSize} /\ b # y
        BY <1>3
      <3>2. s[b].next = r[b].next
        BY <2>2 DEF Merged, Cell
      <3>3. /\ Follows(r, b, r[b].next) /\ b + Header + MinSize <= r[b].next
            /\ r[b].next # HeapSize => r[r[b].next].prev = b
        BY <3>1 DEF Chain
      <3>4. r[b].next # y
        BY <1>1, <1>2, <2>2, <3>3
      <3>5. r[b].next # HeapSize => r[b].next # n
        BY <1>2, <3>1, <3>3
      <3>6. r[b].next \in DOMAIN s
        BY <1>3, <3>3, <3>4 DEF Follows
      <3>7. r[b].next # HeapSize => s[r[b].next].prev = r[r[b].next].prev
        BY <3>5, <3>6 DEF Merged, Cell
      <3>8. Follows(s, b, r[b].next)
        BY <1>3, <3>3, <3>6 DEF Follows
      <3> QED  BY <3>2, <3>3, <3>7, <3>8
    <2> QED  BY <2>1, <2>2
  <1>6. ASSUME NEW b \in DOMAIN s \ {0, HeapSize}
        PROVE  s[b].prev \in DOMAIN s \ {HeapSize} /\ s[s[b].prev].next = b
    <2>1. CASE b = n
      <3>1. s[b].prev = a /\ s[a].next = n
        BY <2>1 DEF Merged, Cell
      <3> QED  BY <1>1, <1>3, <2>1, <3>1
    <2>2. CASE b # n
      <3>1. b \in DOMAIN r \ {0, HeapSize} /\ b # y
        BY <1>3
      <3>2. r[b].prev \in DOMAIN r \ {HeapSize} /\ r[r[b].prev].next = b
        BY <3>1 DEF Chain
      <3>3. s[b].prev = r[b].prev
        BY <2>2 DEF Merged, Cell
      <3>4. r[b].prev # y /\ r[b].prev # a
        BY <2>2, <3>1, <3>2
      <3>5. r[b].prev \in DOMAIN s \ {HeapSize}
        BY <1>3, <3>2, <3>4
      <3>6. s[r[b].prev].next = r[r[b].prev].next
        BY <3>4, <3>5 DEF Merged, Cell
      <3> QED  BY <3>2, <3>3, <3>5, <3>6
    <2> QED  BY <2>1, <2>2
  <1>7. DOMAIN s \subseteq 0 .. HeapSize /\ 0 \in DOMAIN s /\ HeapSize \in DOMAIN s
    BY <1>1, <1>2, <1>3
  <1>8. s[a].next = n
    BY DEF Merged, Cell
  <1> QED  BY <1>3, <1>4, <1>5, <1>6, <1>7, <1>8 DEF Chain

\* A merge mends the one place where two free blocks follow each other.
LEMMA MergedTight ==
  ASSUME NEW r, Chain(r), NEW a \in DOMAIN r \ {HeapSize}, NEW y, y = r[a].next, y # HeapSize,
         ~r[y].used, NEW T, Tight(r, {y} \cup T), r[y].next \notin T, NEW s, Merged(s, r, a, y)
  PROVE  Tight(s, T)
  <1> DEFINE n == r[y].next
  <1>1. y \in DOMAIN r /\ n \in DOMAIN r /\ n # y /\ a # n
    BY ThreeInOrder
  <1>2. r[n].used
    BY <1>1 DEF Tight
  <1>3. Chain(s) /\ DOMAIN s = DOMAIN r \ {y}
    BY MergedChain DEF Merged
  <1>4. \A x \in DOMAIN s : s[x].used = r[x].used
    BY DEF Merged, Cell
  <1> SUFFICES ASSUME NEW x \in DOMAIN s, ~s[x].used, s[x].next \notin T  PROVE  s[s[x].next].used
    BY DEF Tight
  <1>5. x # HeapSize
    BY <1>3 DEF Chain
  <1>6. s[x].next \in DOMAIN s
    BY <1>3, <1>5 DEF Chain, Follows
  <1>7. CASE x = a
    <2>1. s[x].next = n
      BY <1>7 DEF Merged, Cell
    <2> QED  BY <1>2, <1>4, <1>6, <2>1
  <1>8. CASE x # a
    <2>1. s[x].next = r[x].next /\ ~r[x].used /\ x \in DOMAIN r
      BY <1>3, <1>4, <1>8 DEF Merged, Cell
    <2>2. r[r[x].next].used
      BY <1>3, <1>6, <2>1 DEF Tight
    <2> QED  BY <1>4, <1>6, <2>1, <2>2
  <1> QED  BY <1>7, <1>8

LEMMA MergedRest ==
  ASSUME NEW r, Chain(r), NEW a \in DOMAIN r \ {HeapSize}, NEW y, y = r[a].next, y # HeapSize,
         ~r[y].used, NEW s, Merged(s, r, a, y)
  PROVE  /\ \A low : Lowest(r, low) /\ low # y => Lowest(s, low)
         /\ \A o : Owns(r, o) => Owns(s, o)
  <1>1. DOMAIN s = DOMAIN r \ {y} /\ \A x \in DOMAIN s : s[x].used = r[x].used
    BY DEF Merged, Cell
  <1>2. /\ y \in DOMAIN r /\ r[y].next \in DOMAIN r /\ a \in Nat /\ y \in Nat /\ r[y].next \in Nat
        /\ a < y /\ y < r[y].next /\ Header \in Nat
    BY ThreeInOrder, HeapNumbers
  <1>3. ASSUME NEW low, Lowest(r, low), low # y  PROVE  Lowest(s, low)
    BY <1>1, <1>3 DEF Lowest
  <1>4. ASSUME NEW o, Owns(r, o)  PROVE  Owns(s, o)
    <2>1. o \in [DOMAIN o -> Nat] /\ DOMAIN o = {b \in DOMAIN s \ {HeapSize} : s[b].used}
      BY <1>1, <1>4 DEF Owns
    <2>2. ASSUME NEW b \in DOMAIN o  PROVE  b + Header + o[b] <= s[b].next
      <3>1. b + Header + o[b] <= r[b].next
        BY <1>4 DEF Owns
      <3>2. b \in DOMAIN s
        BY <2>1
      <3>3. CASE b = a
        <4>1. s[b].next = r[y].next
          BY <3>3 DEF Merged, Cell
        <4>2. o[b] \in Nat
          BY <2>1
        <4> QED  BY <1>2, <3>1, <3>3, <4>1, <4>2
      <3>4. CASE b # a
        BY <3>1, <3>2, <3>4 DEF Merged, Cell
      <3> QED  BY <3>3, <3>4
    <2> QED  BY <2>1, <2>2 DEF Owns
  <1> QED  BY <1>3, <1>4

\* Only whether b is used is changed.
Retagged(s, r, b, used) ==
    /\ DOMAIN s = DOMAIN r /\ s \in [DOMAIN s -> Hdr]
    /\ Cell(s, b, r[b].next, r[b].prev, used)
    /\ \A x \in DOMAIN r \ {b} : s[x] = r[x]

LEMMA Retags ==
  ASSUME NEW r, Chain(r), NEW b \in DOMAIN r \ {HeapSize}, NEW used \in BOOLEAN, NEW s,
         s = Put(r, b, [r[b] EXCEPT !.used = used])
  PROVE  Retagged(s, r, b, used) /\ Chain(s)
  <1> DEFINE h == [r[b] EXCEPT !.used = used]
  <1>1. r \in [DOMAIN r -> Hdr] /\ DOMAIN r \cup {b} = DOMAIN r /\ r[b] \in Hdr
    BY DEF Chain
  <1>2. h \in Hdr /\ h.next = r[b].next /\ h.prev = r[b].prev /\ h.used = used
    BY <1>1 DEF Hdr
  <1> HIDE DEF h
  <1>3. s \in [DOMAIN r -> Hdr] /\ s[b] = h /\ \A x \in DOMAIN r \ {b} : s[x] = r[x]
    <2>1. s = Put(r, b, h)
      BY DEF h
    <2> QED  BY <1>1, <1>2, <2>1 DEF Put
  <1>4. Retagged(s, r, b, used)
    BY <1>2, <1>3 DEF Retagged, Cell
  <1>5. DOMAIN s = DOMAIN r /\ \A x \in DOMAIN s : s[x].next = r[x].next /\ s[x].prev = r[x].prev
    BY <1>2, <1>3
  <1>6. s[HeapSize].used = r[HeapSize].used /\ s \in [DOMAIN s -> Hdr]
    BY <1>3 DEF Chain
  <1>7. \A x \in DOMAIN s \ {HeapSize} :
          /\ Follows(s, x, s[x].next) /\ x + Header + MinSize <= s[x].next
          /\ s[x].next # HeapSize => s[s[x].next].prev = x
    BY <1>5 DEF Chain, Follows
  <1>8. \A x \in DOMAIN s \ {0, HeapSize} :
          s[x].prev \in DOMAIN s \ {HeapSize} /\ s[s[x].prev].next = x
    BY <1>5 DEF Chain
  <1>9. /\ DOMAIN s \subseteq 0 .. HeapSize /\ 0 \in DOMAIN s /\ HeapSize \in DOMAIN s
        /\ s[0].prev = 0 /\ s[HeapSize].used = TRUE
    BY <1>5, <1>6 DEF Chain
  <1> QED  BY <1>4, <1>6, <1>7, <1>8, <1>9 DEF Chain

\* What stays when block b is taken or cut, with at least that space left to it:
\* the others as they were, and what is new lies after b and is free.
Took(s, r, b, space) ==
    /\ Chain(s) /\ Tight(s, {}) /\ DOMAIN r \subseteq DOMAIN s
    /\ s[b].used /\ b + Header + space <= s[b].next
    /\ \A x \in DOMAIN r \ {b} : s[x].used = r[x].used /\ (x # HeapSize => s[x].next = r[x].next)
    /\ \A x \in DOMAIN s \ DOMAIN r : ~s[x].used /\ b < x

LEMMA DividedTook ==
  ASSUME NEW r, Chain(r), Tight(r, {}), NEW a \in DOMAIN r \ {HeapSize}, NEW space \in Nat, space >= MinSize,
         NEW m, m = a + Header + space, m + Header + MinSize <= r[a].next, r[r[a].next].used,
         NEW s, Divided(s, r, a, m, TRUE)
  PROVE  Took(s, r, a, space)
  <1> DEFINE n == r[a].next
  <1>0. Header \in Nat /\ MinSize \in Nat /\ HeapSize \in Nat /\ Header >= 1
    BY HeapNumbers
  <1>1. a \in Nat /\ Follows(r, a, n) /\ n \in DOMAIN r /\ DOMAIN r \subseteq 0 .. HeapSize
    BY <1>0 DEF Chain, Follows
  <1>2. m \in Nat /\ a + Header + MinSize <= m /\ a < m /\ a # n
    BY <1>0, <1>1 DEF Follows
  <1>3. Chain(s) /\ m \notin DOMAIN r
    BY <1>2, DividedChain
  <1>4. DOMAIN s = DOMAIN r \cup {m} /\ s[a].used = TRUE /\ s[a].next = m /\ s[m].used = FALSE /\ s[m].next = n
    BY DEF Divided, Cell
  <1>5. \A x \in DOMAIN r \ {a} : s[x].used = r[x].used
    BY DEF Divided, Cell
  <1>6. \A x \in DOMAIN r \ {a} : x # HeapSize => s[x].next = r[x].next
    BY DEF Divided, Cell
  <1>7. Tight(s, {})
    <2> SUFFICES ASSUME NEW x \in DOMAIN s, ~s[x].used  PROVE  s[s[x].next].used
      BY DEF Tight
    <2>1. CASE x = m
      BY <1>1, <1>2, <1>4, <1>5, <2>1
    <2>2. CASE x # m
      <3>1. x \in DOMAIN r \ {a} /\ ~r[x].used
        BY <1>4, <1>5, <2>2
      <3>2. x # HeapSize /\ r[r[x].next].used
        BY <3>1 DEF Chain, Tight
      <3>3. s[x].next = r[x].next /\ r[x].next \in DOMAIN r
        BY <1>6, <3>1, <3>2 DEF Chain, Follows
      <3> QED  BY <1>4, <1>5, <3>2, <3>3
    <2> QED  BY <2>1, <2>2
  <1> QED  BY <1>0, <1>1, <1>2, <1>3, <1>4, <1>5, <1>6, <1>7 DEF Took

\* What Took says of who has which block, when o gave b out for size.
LEMMA TookOwns ==
  ASSUME NEW r, NEW b \in DOMAIN r \ {HeapSize}, NEW size \in Nat, NEW space \in Nat, size <= space,
         NEW s, Took(s, r, b, space), Chain(r), NEW o, Owns(r, o),
         NEW p, p = [x \in DOMAIN o \cup {b} |-> IF x = b THEN size ELSE o[x]]
  PROVE  Owns(s, p)
  <1>1. DOMAIN p = DOMAIN o \cup {b} /\ p \in [DOMAIN p -> Nat]
    BY DEF Owns
  <1>2. DOMAIN p = {x \in DOMAIN s \ {HeapSize} : s[x].used}
    BY <1>1 DEF Took, Owns
  <1>3. ASSUME NEW x \in DOMAIN p  PROVE  x + Header + p[x] <= s[x].next
    <2>1. CASE x = b
      <3>1. s[b].next \in Nat /\ b \in Nat /\ Header \in Nat
        <4>1. Chain(s) /\ b \in DOMAIN s /\ HeapSize \in Nat
          BY HeapNumbers DEF Took
        <4> QED  BY <4>1, ChainCell, HeapNumbers
      <3>2. b + Header + space <= s[b].next /\ p[b] = size
        BY <1>1 DEF Took
      <3> QED  BY <2>1, <3>1, <3>2
    <2>2. CASE x # b
      <3>1. x \in DOMAIN o /\ p[x] = o[x] /\ x + Header + o[x] <= r[x].next /\ x \in DOMAIN r \ {HeapSize}
        BY <1>1, <2>2 DEF Owns
      <3>2. s[x].next = r[x].next
        BY <2>2, <3>1 DEF Took
      <3> QED  BY <3>1, <3>2
    <2> QED  BY <2>1, <2>2
  <1> QED  BY <1>1, <1>2, <1>3 DEF Owns

LEMMA MallocStep ==
  ASSUME HeapInv, NEW size \in Nat, Malloc(size)
  PROVE  HeapInv'
  <1> DEFINE want == Rounded(size)
             C == Candidates(want)
             b == Min(C)
             n == ram[b].next
             m == b + Header + want
  <1>0. Header \in Nat /\ MinSize \in Nat /\ HeapSize \in Nat /\ Header >= 1
    BY HeapNumbers
  <1>1. Chain(ram) /\ Tight(ram, {}) /\ Lowest(ram, lfree) /\ Owns(ram, owned)
    BY DEF HeapInv
  <1>2. want \in Nat /\ want >= size /\ want >= MinSize
    BY <1>0 DEF Rounded
  <1>3. b \in C
    <2>1. C \subseteq Nat /\ C # {}
      BY <1>0, <1>1 DEF Malloc, Candidates, Blocks, Chain
    <2> QED  BY <2>1, MinOfNats
  <1>4. /\ ram' = Allocated(b, want) /\ lfree' = LowestAfter(ram', b) /\ owned' = Put(owned, b, size)
    BY DEF Malloc
  <1> HIDE DEF b
  <1>5. /\ b \in DOMAIN ram \ {HeapSize} /\ b >= lfree /\ ~ram[b].used /\ Room(b) >= want
    BY <1>3, HeapNumbers DEF Candidates, Blocks
  <1>6. b \in Nat /\ n \in Nat /\ n \in DOMAIN ram /\ b < n /\ b + Header + want <= n /\ lfree \in Nat
    <2>1. Follows(ram, b, n) /\ DOMAIN ram \subseteq 0 .. HeapSize
      BY <1>1, <1>5 DEF Chain
    <2>2. n \in DOMAIN ram /\ b \in Nat /\ n \in Nat /\ b < n /\ lfree \in Nat
      BY <1>0, <1>1, <1>5, <2>1 DEF Follows, Lowest
    <2> QED  BY <1>0, <1>2, <1>5, <2>2 DEF Room
  <1>7. ram[n].used
    BY <1>1, <1>5 DEF Tight
  <1>8. Took(ram', ram, b, want)
    <2>1. CASE CutsOff(b, want)
      <3>1. ram' = Split(ram, b, m, TRUE) /\ m + Header + MinSize <= n
        BY <1>0, <1>2, <1>4, <1>6, <2>1 DEF Allocated, CutsOff, Room
      <3>2. m \in Nat /\ b < m /\ m < n
        BY <1>0, <1>2, <1>6, <3>1
      <3>3. Divided(ram', ram, b, m, TRUE)
        BY <1>1, <1>5, <3>1, <3>2, SplitDivides
      <3> QED  BY <1>1, <1>2, <1>5, <1>7, <3>1, <3>3, DividedTook
    <2>2. CASE ~CutsOff(b, want)
      <3>1. ram' = Put(ram, b, [ram[b] EXCEPT !.used = TRUE])
        BY <1>4, <2>2 DEF Allocated
      <3>2. Retagged(ram', ram, b, TRUE) /\ Chain(ram')
        BY <1>1, <1>5, <3>1, Retags
      <3>3. Tight(ram', {})
        <4> SUFFICES ASSUME NEW x \in DOMAIN ram', ~ram'[x].used  PROVE  ram'[ram'[x].next].used
          BY DEF Tight
        <4>1. x \in DOMAIN ram \ {b} /\ ~ram[x].used /\ ram'[x] = ram[x]
          BY <3>2 DEF Retagged, Cell
        <4>2. ram[ram[x].next].used /\ x # HeapSize
          BY <1>1, <4>1 DEF Tight, Chain
        <4>3. ram[x].next \in DOMAIN ram
          BY <1>1, <4>1, <4>2 DEF Chain, Follows
        <4> QED  BY <3>2, <4>1, <4>2, <4>3 DEF Retagged, Cell
      <3> QED  BY <1>6, <3>2, <3>3 DEF Took, Retagged, Cell
    <2> QED  BY <2>1, <2>2
  <1>9. Owns(ram', owned')
    <2>1. owned' = [x \in DOMAIN owned \cup {b} |-> IF x = b THEN size ELSE owned[x]]
      BY <1>4 DEF Put
    <2> QED  BY <1>1, <1>2, <1>5, <1>8, <2>1, TookOwns
  <1>10. \A x \in DOMAIN ram' : ~ram'[x].used => lfree <= x /\ b # x
    <2> SUFFICES ASSUME NEW x \in DOMAIN ram', ~ram'[x].used  PROVE  lfree <= x /\ b # x
      OBVIOUS
    <2>1. b # x
      BY <1>8 DEF Took
    <2>2. CASE x \in DOMAIN ram
      BY <1>1, <1>8, <2>1, <2>2 DEF Took, Lowest
    <2>3. CASE x \notin DOMAIN ram
      <3>1. b < x /\ x \in Nat
        BY <1>0, <1>8, <2>3 DEF Took, Chain
      <3> QED  BY <1>5, <1>6, <2>1, <3>1
    <2> QED  BY <2>2, <2>3
  <1>11. Lowest(ram', lfree')
    <2>1. CASE b # lfree
      <3>1. lfree' = lfree /\ lfree # HeapSize /\ lfree \in DOMAIN ram /\ ~ram[lfree].used
        <4>1. b <= HeapSize /\ b # HeapSize
          BY <1>0, <1>1, <1>5 DEF Chain
        <4> QED  BY <1>0, <1>1, <1>4, <1>5, <1>6, <2>1, <4>1 DEF LowestAfter, Lowest
      <3>2. lfree \in DOMAIN ram' /\ ~ram'[lfree].used
        BY <1>8, <2>1, <3>1 DEF Took
      <3> QED  BY <1>10, <3>1, <3>2 DEF Lowest
    <2>2. CASE b = lfree
      <3> DEFINE X == {c \in DOMAIN ram' : c >= b /\ (~ram'[c].used \/ c = ram_end)}
      <3>1. lfree' = Min(X)
        BY <1>4, <2>2 DEF LowestAfter
      <3>2. X \subseteq Nat /\ HeapSize \in X
        <4>1. DOMAIN ram' \subseteq 0 .. HeapSize /\ HeapSize \in DOMAIN ram' /\ b <= HeapSize
          BY <1>0, <1>1, <1>5, <1>8 DEF Took, Chain
        <4> QED  BY <1>0, <1>6, <4>1, HeapNumbers
      <3>3. Min(X) \in X /\ \A c \in X : Min(X) <= c
        BY <3>2, MinOfNats
      <3>4. \A x \in DOMAIN ram' : ~ram'[x].used => x \in X
        <4>1. DOMAIN ram' \subseteq Nat
          BY <1>0, <1>8 DEF Took, Chain
        <4> QED  BY <1>6, <1>10, <2>2, <4>1
      <3> QED  BY <3>1, <3>3, <3>4, HeapNumbers DEF Lowest
    <2> QED  BY <2>1, <2>2
  <1> QED  BY <1>8, <1>9, <1>11 DEF Took, HeapInv

LEMMA FreeStep ==
  ASSUME HeapInv, NEW b \in DOMAIN owned, mem_free(b)
  PROVE  HeapInv'
  <1> DEFINE f == Put(ram, b, [ram[b] EXCEPT !.used = FALSE])
             low == IF b < lfree THEN b ELSE lfree
             n == ram[b].next
             p == ram[b].prev
             o == [x \in DOMAIN owned \ {b} |-> owned[x]]
             g == Forward(f, b)
             h == Backward(g, b)
  <1>0. Header \in Nat /\ MinSize \in Nat /\ HeapSize \in Nat /\ Header >= 1
    BY HeapNumbers
  <1>1. Chain(ram) /\ Tight(ram, {}) /\ Lowest(ram, lfree) /\ Owns(ram, owned)
    BY DEF HeapInv
  <1>2. ram' = h /\ lfree' = LowestJoined(f, low, b) /\ owned' = o
    BY DEF mem_free, plug_holes
  <1>3. b \in DOMAIN ram \ {HeapSize} /\ ram[b].used
    BY <1>1 DEF Owns
  <1>4. /\ b \in Nat /\ b < HeapSize /\ n \in Nat /\ n \in DOMAIN ram /\ b < n /\ lfree \in Nat
        /\ DOMAIN ram \subseteq 0 .. HeapSize
    <2>1. Follows(ram, b, n) /\ DOMAIN ram \subseteq 0 .. HeapSize
      BY <1>1, <1>3 DEF Chain
    <2>2. lfree \in DOMAIN ram
      BY <1>1 DEF Lowest
    <2> QED  BY <1>0, <1>3, <2>1, <2>2 DEF Follows
  <1>5. Retagged(f, ram, b, FALSE) /\ Chain(f)
    BY <1>1, <1>3, Retags
  <1> HIDE DEF f
  <1>6. DOMAIN f = DOMAIN ram /\ f[b].next = n /\ f[b].prev = p /\ ~f[b].used
        /\ \A x \in DOMAIN ram \ {b} : f[x] = ram[x]
    BY <1>5 DEF Retagged, Cell
  <1>7. Tight(f, {n} \cup {b})
    <2> SUFFICES ASSUME NEW x \in DOMAIN f, ~f[x].used, f[x].next \notin {n, b}  PROVE  f[f[x].next].used
      BY DEF Tight
    <2>1. x # b /\ f[x] = ram[x] /\ ~ram[x].used
      BY <1>6
    <2>2. ram[ram[x].next].used /\ x # HeapSize
      BY <1>1, <1>6, <2>1 DEF Tight, Chain
    <2>3. ram[x].next \in DOMAIN ram
      BY <1>1, <1>6, <2>1, <2>2 DEF Chain, Follows
    <2> QED  BY <1>6, <2>1, <2>2, <2>3
  <1>8. low \in Nat /\ low <= b /\ Lowest(f, low)
    <2>1. low \in Nat /\ low <= b /\ low <= lfree
      BY <1>4
    <2>2. \A x \in DOMAIN f : ~f[x].used => low <= x
      <3> SUFFICES ASSUME NEW x \in DOMAIN f, ~f[x].used  PROVE  low <= x
        OBVIOUS
      <3>1. CASE x = b
        BY <2>1, <3>1
      <3>2. CASE x # b
        <4>1. lfree <= x /\ x \in Nat
          BY <1>0, <1>1, <1>4, <1>6, <3>2 DEF Lowest
        <4> QED  BY <1>4, <2>1, <4>1
      <3> QED  BY <3>1, <3>2
    <2>3. low \in DOMAIN f /\ ~f[low].used
      <3>1. CASE b < lfree
        BY <1>3, <1>6, <3>1
      <3>2. CASE ~(b < lfree)
        <4>1. low = lfree /\ lfree # HeapSize
          BY <1>0, <1>4, <3>2
        <4> QED  BY <1>1, <1>6, <4>1 DEF Lowest
      <3> QED  BY <3>1, <3>2
    <2> QED  BY <2>1, <2>2, <2>3 DEF Lowest
  <1>9. Owns(f, o)
    <2>1. DOMAIN o = {x \in DOMAIN f \ {HeapSize} : f[x].used} /\ o \in [DOMAIN o -> Nat]
      BY <1>1, <1>6 DEF Owns
    <2>2. \A x \in DOMAIN o : x + Header + o[x] <= f[x].next
      BY <1>1, <1>6, <2>1 DEF Owns
    <2> QED  BY <2>1, <2>2 DEF Owns
  <1> HIDE DEF low, o
  <1>10. /\ Chain(g) /\ Tight(g, {b}) /\ Lowest(g, low) /\ Owns(g, o)
         /\ b \in DOMAIN g /\ ~g[b].used /\ g[b].prev = p
    <2>1. CASE n = ram_end \/ f[n].used
      <3>1. g = f
        BY <1>6, <2>1 DEF Forward
      <3>2. f[n].used
        BY <1>5, <2>1, HeapNumbers DEF Chain
      <3>3. Tight(f, {b})
        BY <1>7, <3>2 DEF Tight
      <3> QED  BY <1>3, <1>5, <1>6, <1>8, <1>9, <3>1, <3>3
    <2>2. CASE ~(n = ram_end \/ f[n].used)
      <3>1. g = Combined(f, b, n) /\ n # HeapSize /\ ~f[n].used /\ n = f[b].next /\ b \in DOMAIN f \ {HeapSize}
        BY <1>3, <1>6, <2>2, HeapNumbers DEF Forward
      <3>2. Merged(g, f, b, n)
        BY <1>5, <3>1, CombinedMerges
      <3> HIDE DEF g
      <3>3. f[n].next \notin {b}
        BY <1>4, <1>5, <3>1, ThreeInOrder
      <3>4. Chain(g)
        BY <1>5, <3>1, <3>2, MergedChain
      <3>5. Tight(g, {b})
        BY <1>5, <1>7, <3>1, <3>2, <3>3, MergedTight
      <3>6. low # n
        BY <1>4, <1>8
      <3>7. Lowest(g, low) /\ Owns(g, o)
        <4>1. (\A l : Lowest(f, l) /\ l # n => Lowest(g, l)) /\ (\A t : Owns(f, t) => Owns(g, t))
          BY <1>5, <3>1, <3>2, MergedRest
        <4> QED  BY <1>8, <1>9, <3>6, <4>1
      <3>8. b \in DOMAIN g /\ ~g[b].used /\ g[b].prev = p
        BY <1>4, <1>6, <3>1, <3>2 DEF Merged, Cell
      <3> QED  BY <3>4, <3>5, <3>7, <3>8
    <2> QED  BY <2>1, <2>2
  <1> HIDE DEF g
  <1>11. CASE p = b \/ g[p].used
    <2>1. h = g
      BY <1>10, <1>11 DEF Backward
    <2>2. Tight(g, {})
      <3> SUFFICES ASSUME NEW x \in DOMAIN g, ~g[x].used  PROVE  g[g[x].next].used
        BY DEF Tight
      <3>1. x # HeapSize
        BY <1>10 DEF Chain
      <3>2. Follows(g, x, g[x].next) /\ (g[x].next # HeapSize => g[g[x].next].prev = x)
        BY <1>10, <3>1 DEF Chain
      <3>3. g[x].next # b
        <4> SUFFICES ASSUME g[x].next = b  PROVE  FALSE
          OBVIOUS
        <4>1. x = p /\ x < b
          BY <1>3, <1>10, <3>2 DEF Follows
        <4> QED  BY <1>4, <1>11, <4>1
      <3> QED  BY <1>10, <3>3 DEF Tight
    <2>3. lfree' = low
      <3>1. low # n
        BY <1>4, <1>8
      <3>2. p = b \/ f[p].used
        <4>1. CASE p = b
          BY <4>1
        <4>2. CASE p # b
          <5>1. b # 0
            BY <1>1, <4>2 DEF Chain
          <5>2. p \in DOMAIN ram \ {HeapSize} /\ ram[p].next = b
            BY <1>1, <1>3, <5>1 DEF Chain
          <5>3. p \in DOMAIN g /\ p # n
            <6>1. p < b /\ p \in Nat
              BY <1>1, <1>4, <5>2 DEF Chain, Follows
            <6>2. DOMAIN g = DOMAIN f \/ DOMAIN g = DOMAIN f \ {n}
              BY <1>6, CombinedMerges DEF Forward, g, Combined
            <6> QED  BY <1>4, <1>6, <5>2, <6>1, <6>2
          <5>4. g[p].used = f[p].used
            <6>1. CASE g = f
              BY <6>1
            <6>2. CASE g # f
              <7>1. g = Combined(f, b, n) /\ n # HeapSize
                BY <1>6, <6>2, HeapNumbers DEF Forward, g
              <7>2. Merged(g, f, b, n)
                BY <1>3, <1>5, <1>6, <7>1, CombinedMerges
              <7> QED  BY <5>3, <7>2 DEF Merged, Cell
            <6> QED  BY <6>1, <6>2
          <5> QED  BY <1>11, <4>2, <5>4
        <4> QED  BY <4>1, <4>2
      <3> QED  BY <1>2, <1>6, <3>1, <3>2 DEF LowestJoined
    <2> QED  BY <1>2, <1>10, <2>1, <2>2, <2>3 DEF HeapInv
  <1>12. CASE ~(p = b \/ g[p].used)
    <2>1. h = Combined(g, p, b)
      BY <1>10, <1>12 DEF Backward
    <2>2. b # 0 /\ b # HeapSize
      BY <1>3, <1>10, <1>12 DEF Chain
    <2>3. p \in DOMAIN g \ {HeapSize} /\ g[p].next = b
      BY <1>10, <2>2 DEF Chain
    <2>4. Merged(h, g, p, b)
      BY <1>10, <2>1, <2>2, <2>3, CombinedMerges
    <2> HIDE DEF h
    <2>5. p \in Nat /\ p < b /\ g[b].next \in Nat /\ b < g[b].next
      BY <1>10, <2>2, <2>3, ThreeInOrder
    <2>6. low <= p
      BY <1>10, <1>12, <2>3 DEF Lowest
    <2>7. low # b
      BY <1>4, <1>8, <2>5, <2>6
    <2>8. Chain(h) /\ Tight(h, {})
      <3>1. Tight(g, {b} \cup {}) /\ g[b].next \notin {}
        BY <1>10
      <3> QED  BY <1>10, <2>2, <2>3, <2>4, <3>1, MergedChain, MergedTight
    <2>9. Lowest(h, low) /\ Owns(h, o)
      BY <1>10, <2>2, <2>3, <2>4, <2>7, MergedRest
    <2>10. lfree' = low
      <3>1. low # n
        BY <1>4, <1>8
      <3> QED  BY <1>2, <1>6, <2>7, <3>1 DEF LowestJoined
    <2> QED  BY <1>2, <2>8, <2>9, <2>10 DEF HeapInv
  <1> QED  BY <1>11, <1>12

\* mem_trim before a free block: as if that were joined and cut off again.
LEMMA MovedDivides ==
  ASSUME Chain(ram), NEW b \in DOMAIN ram \ {HeapSize}, NEW n, n = ram[b].next, n # HeapSize,
         ram[b].used, NEW size \in Nat, NEW mid, mid = b + Header + size, mid < n
  PROVE  Divided(Moved(b, size), Combined(ram, b, n), b, mid, TRUE)
  <1> DEFINE j == Combined(ram, b, n)
             e == ram[n].next
             rest == [next |-> e, prev |-> b, used |-> FALSE]
             cut == [x \in DOMAIN ram \ {n} |-> ram[x]]
             new == [ram[b] EXCEPT !.next = mid]
             p == Put(cut, b, new)
             q == Put(p, mid, rest)
             s == Linked(q, mid)
  <1>0. Header \in Nat /\ HeapSize \in Nat /\ Header >= 1
    BY HeapNumbers
  <1>1. /\ ram \in [DOMAIN ram -> Hdr] /\ DOMAIN ram \subseteq 0 .. HeapSize
        /\ n \in DOMAIN ram /\ e \in DOMAIN ram /\ b \in Nat /\ n \in Nat /\ e \in 0 .. HeapSize
        /\ b < n /\ n < e /\ Follows(ram, b, n)
    BY ThreeInOrder DEF Chain
  <1>2. mid \in Nat /\ b < mid /\ mid \notin DOMAIN ram /\ mid \in 0 .. HeapSize /\ mid # e /\ b # e /\ b # mid
        /\ b \in 0 .. HeapSize
    <2>1. mid \in Nat /\ b < mid /\ mid < n /\ n <= HeapSize
      BY <1>0, <1>1
    <2>2. mid \notin DOMAIN ram
      BY <1>1, <2>1 DEF Follows
    <2> QED  BY <1>0, <1>1, <2>1, <2>2
  <1>3. Merged(j, ram, b, n)
    BY CombinedMerges
  <1> SUFFICES Divided(Moved(b, size), j, b, mid, TRUE)
    OBVIOUS
  <1> HIDE DEF j
  <1>4. /\ DOMAIN j = DOMAIN ram \ {n} /\ j[b].next = e /\ j[b].prev = ram[b].prev
        /\ j[e].next = ram[e].next /\ j[e].used = ram[e].used /\ \A x \in DOMAIN j \ {b, e} : j[x] = ram[x]
    BY <1>3 DEF Merged, Cell
  <1>5. new \in Hdr /\ new.next = mid /\ new.prev = ram[b].prev /\ new.used = TRUE /\ rest \in Hdr
    <2>1. ram[b] \in Hdr
      BY <1>1
    <2> QED  BY <1>1, <1>2, <2>1 DEF Hdr
  <1>6. cut \in [DOMAIN ram \ {n} -> Hdr] /\ \A x \in DOMAIN ram \ {n} : cut[x] = ram[x]
    BY <1>1
  <1>7. Moved(b, size) = s
    BY DEF Moved, s, q, p, new, cut, rest
  <1> HIDE DEF new, cut
  <1>8. p \in [DOMAIN j -> Hdr] /\ p[b] = new /\ \A x \in DOMAIN j \ {b} : p[x] = ram[x]
    <2>1. (DOMAIN ram \ {n}) \cup {b} = DOMAIN ram \ {n}
      BY <1>1
    <2> QED  BY <1>4, <1>5, <1>6, <2>1 DEF Put
  <1> HIDE DEF p
  <1>9. q \in [DOMAIN j \cup {mid} -> Hdr] /\ q[mid] = rest /\ \A x \in DOMAIN j : q[x] = p[x]
    BY <1>2, <1>4, <1>5, <1>8 DEF Put
  <1> HIDE DEF q
  <1>10. q[mid].next = e
    BY <1>9
  <1>11. /\ Cell(q, b, mid, j[b].prev, TRUE) /\ Cell(q, mid, e, b, FALSE) /\ q[e] = ram[e]
         /\ \A x \in DOMAIN j \ {b, e} : q[x] = j[x]
    BY <1>1, <1>2, <1>4, <1>5, <1>8, <1>9 DEF Cell
  <1> HIDE DEF rest
  <1>12. CASE e = HeapSize
    <2>1. s = q
      BY <1>10, <1>12 DEF Linked, ram_end
    <2>2. s[e].used = j[e].used /\ DOMAIN s = DOMAIN j \cup {mid} /\ s \in [DOMAIN s -> Hdr]
      BY <1>4, <1>9, <1>11, <2>1
    <2>3. /\ Cell(s, b, mid, j[b].prev, TRUE) /\ Cell(s, mid, e, b, FALSE)
          /\ \A x \in DOMAIN j \ {b, e} : s[x] = j[x]
      BY <1>11, <2>1
    <2> HIDE DEF s
    <2>4. Divided(s, j, b, mid, TRUE)
      BY <1>4, <1>12, <2>2, <2>3 DEF Divided
    <2> QED  BY <1>7, <2>4
  <1>13. CASE e # HeapSize
    <2> DEFINE k == [ram[e] EXCEPT !.prev = mid]
    <2>1. k \in Hdr /\ k.next = ram[e].next /\ k.prev = mid /\ k.used = ram[e].used
      <3>1. ram[e] \in Hdr
        BY <1>1
      <3> QED  BY <1>2, <3>1 DEF Hdr
    <2>2. s = Put(q, e, k)
      BY <1>10, <1>11, <1>13 DEF Linked, ram_end
    <2> HIDE DEF k
    <2>3. /\ s \in [DOMAIN j \cup {mid} -> Hdr] /\ s[e] = k
          /\ \A x \in (DOMAIN j \cup {mid}) \ {e} : s[x] = q[x]
      <3>1. e \in DOMAIN j
        BY <1>1, <1>4
      <3>2. (DOMAIN j \cup {mid}) \cup {e} = DOMAIN j \cup {mid}
        BY <3>1
      <3> QED  BY <1>9, <2>1, <2>2, <3>2 DEF Put
    <2> HIDE DEF s
    <2>4. b \in DOMAIN j
      BY <1>1, <1>4
    <2>5. Cell(s, b, mid, j[b].prev, TRUE) /\ Cell(s, mid, e, b, FALSE)
      BY <1>2, <1>11, <2>3, <2>4 DEF Cell
    <2>6. Cell(s, e, j[e].next, mid, j[e].used)
      BY <1>4, <2>1, <2>3 DEF Cell
    <2>7. DOMAIN s = DOMAIN j \cup {mid} /\ s \in [DOMAIN s -> Hdr] /\ \A x \in DOMAIN j \ {b, e} : s[x] = j[x]
      BY <1>11, <2>3, SMTT(30)
    <2>8. Divided(s, j, b, mid, TRUE)
      BY <1>4, <1>13, <2>5, <2>6, <2>7 DEF Divided
    <2> QED  BY <1>7, <2>8
  <1> QED  BY <1>12, <1>13

LEMMA TrimStep ==
  ASSUME HeapInv, NEW b \in DOMAIN owned, NEW size \in Nat, mem_trim(b, size)
  PROVE  HeapInv'
  <1> DEFINE want == Rounded(size)
             n == ram[b].next
             mid == b + Header + want
  <1>0. Header \in Nat /\ MinSize \in Nat /\ HeapSize \in Nat /\ Header >= 1
    BY HeapNumbers
  <1>1. Chain(ram) /\ Tight(ram, {}) /\ Lowest(ram, lfree) /\ Owns(ram, owned)
    BY DEF HeapInv
  <1>2. /\ want < Room(b) /\ ram' = Shortened(b, want) /\ lfree' = LowestTrimmed(b, want)
        /\ owned' = [owned EXCEPT ![b] = size]
    BY DEF mem_trim
  <1>3. b \in DOMAIN ram \ {HeapSize} /\ ram[b].used
    BY <1>1 DEF Owns
  <1>4. want \in Nat /\ want >= size /\ want >= MinSize
    BY <1>0 DEF Rounded
  <1>5. /\ b \in Nat /\ n \in Nat /\ n \in DOMAIN ram /\ b < n /\ lfree \in Nat /\ lfree \in DOMAIN ram
        /\ DOMAIN ram \subseteq 0 .. HeapSize /\ Follows(ram, b, n)
    <2>1. Follows(ram, b, n) /\ DOMAIN ram \subseteq 0 .. HeapSize
      BY <1>1, <1>3 DEF Chain
    <2>2. lfree \in DOMAIN ram
      BY <1>1 DEF Lowest
    <2> QED  BY <1>0, <1>3, <2>1, <2>2 DEF Follows
  <1>6. mid \in Nat /\ b < mid /\ mid < n /\ mid = b + Header + want
    BY <1>0, <1>2, <1>4, <1>5 DEF Room
  <1>7. owned' = [x \in DOMAIN owned \cup {b} |-> IF x = b THEN size ELSE owned[x]]
    BY <1>1, <1>2 DEF Owns
  <1> HIDE DEF want, mid
  <1>8. CASE ~ram[n].used
    <2> DEFINE j == Combined(ram, b, n)
    <2>1. n # HeapSize
      BY <1>1, <1>8 DEF Chain
    <2>2. Merged(j, ram, b, n)
      BY <1>1, <1>3, <2>1, CombinedMerges
    <2>3. ram' = Moved(b, want)
      BY <1>2, <1>8 DEF Shortened
    <2>4. Divided(ram', j, b, mid, TRUE)
      BY <1>1, <1>3, <1>4, <1>6, <2>1, <2>3, MovedDivides
    <2> HIDE DEF j
    <2>5. Chain(j) /\ j[b].next = ram[n].next /\ Owns(j, owned) /\ b \in DOMAIN j \ {HeapSize}
      <3>1. Chain(j) /\ j[b].next = ram[n].next
        BY <1>1, <1>3, <2>1, <2>2, MergedChain
      <3>2. Owns(j, owned)
        BY <1>1, <1>3, <1>8, <2>1, <2>2, MergedRest
      <3> QED  BY <1>3, <1>5, <2>2, <3>1, <3>2 DEF Merged
    <2>6. Tight(j, {})
      <3>1. Tight(ram, {n} \cup {}) /\ ram[n].next \notin {}
        BY <1>1 DEF Tight
      <3> QED  BY <1>1, <1>3, <1>8, <2>1, <2>2, <3>1, MergedTight
    <2>7. mid + Header + MinSize <= j[b].next
      <3>1. n + Header + MinSize <= ram[n].next /\ ram[n].next \in Nat
        BY <1>1, <1>3, <2>1, ThreeInOrder
      <3> QED  BY <1>0, <1>5, <1>6, <2>5, <3>1
    <2>8. j[j[b].next].used
      <3>1. ram[ram[n].next].used
        BY <1>1, <1>5, <1>8 DEF Tight
      <3>2. j[ram[n].next].used = ram[ram[n].next].used
        BY <2>2 DEF Merged, Cell
      <3>3. j[b].next = ram[n].next
        BY <2>5
      <3> QED  BY <3>1, <3>2, <3>3
    <2>9. Took(ram', j, b, want)
      BY <1>4, <1>6, <2>4, <2>5, <2>6, <2>7, <2>8, DividedTook
    <2>10. Owns(ram', owned')
      BY <1>4, <1>7, <2>5, <2>9, TookOwns
    <2>11. DOMAIN ram' = DOMAIN j \cup {mid} /\ DOMAIN j = DOMAIN ram \ {n} /\ ~ram'[mid].used
           /\ \A x \in DOMAIN j : x # b => ram'[x].used = ram[x].used
      <3>1. DOMAIN j = DOMAIN ram \ {n} /\ \A x \in DOMAIN j : j[x].used = ram[x].used
        BY <2>2 DEF Merged, Cell
      <3>2. DOMAIN ram' = DOMAIN j \cup {mid} /\ ~ram'[mid].used
        BY <2>4 DEF Divided, Cell
      <3>3. \A x \in DOMAIN j : x # b => ram'[x].used = j[x].used
        BY <2>4 DEF Divided, Cell
      <3> QED  BY <3>1, <3>2, <3>3
    <2>12. \A x \in DOMAIN ram' : ~ram'[x].used => x = mid \/ (x \in DOMAIN ram \ {n, b} /\ ~ram[x].used)
      BY <2>9, <2>11 DEF Took
    <2>13. lfree <= n /\ lfree # b /\ (lfree = n \/ lfree < b)
      <3>1. lfree <= n /\ lfree # HeapSize
        BY <1>0, <1>1, <1>5, <1>8, <2>1 DEF Lowest
      <3>2. ~ram[lfree].used
        BY <1>1, <3>1 DEF Lowest
      <3>3. lfree # b
        BY <1>3, <3>2
      <3>4. b < lfree => n <= lfree
        BY <1>5 DEF Follows
      <3> QED  BY <1>5, <3>1, <3>3, <3>4
    <2>14. Lowest(ram', lfree')
      <3>1. CASE lfree = n
        <4>1. lfree' = mid
          BY <1>2, <1>6, <1>8, <3>1 DEF LowestTrimmed, mid
        <4>2. \A x \in DOMAIN ram' : ~ram'[x].used => mid <= x
          <5> SUFFICES ASSUME NEW x \in DOMAIN ram', ~ram'[x].used  PROVE  mid <= x
            OBVIOUS
          <5> SUFFICES ASSUME x # mid  PROVE  mid <= x
            BY <1>6
          <5>1. x \in DOMAIN ram /\ ~ram[x].used
            BY <2>12
          <5>2. n <= x /\ x \in Nat
            BY <1>0, <1>1, <1>5, <3>1, <5>1 DEF Lowest
          <5> QED  BY <1>5, <1>6, <5>2
        <4> QED  BY <2>11, <4>1, <4>2 DEF Lowest
      <3>2. CASE lfree # n
        <4>1. lfree' = lfree /\ lfree < b
          BY <1>2, <1>8, <2>13, <3>2 DEF LowestTrimmed
        <4>2. \A x \in DOMAIN ram' : ~ram'[x].used => lfree <= x
          BY <1>1, <1>5, <1>6, <2>12, <4>1 DEF Lowest
        <4>3. lfree \in DOMAIN ram' /\ ~ram'[lfree].used
          <5>1. ~ram[lfree].used
            BY <1>0, <1>1, <1>3, <1>5, <4>1 DEF Lowest
          <5> QED  BY <1>5, <2>11, <2>13, <3>2, <5>1
        <4> QED  BY <4>1, <4>2, <4>3 DEF Lowest
      <3> QED  BY <3>1, <3>2
    <2> QED  BY <2>9, <2>10, <2>14 DEF Took, HeapInv
  <1>9. CASE ram[n].used /\ CutsOff(b, want)
    <2>1. ram' = Split(ram, b, mid, TRUE) /\ lfree' = (IF mid < lfree THEN mid ELSE lfree)
      BY <1>2, <1>9 DEF Shortened, LowestTrimmed, mid
    <2>2. mid + Header + MinSize <= n
      BY <1>0, <1>4, <1>5, <1>6, <1>9 DEF CutsOff, Room
    <2>3. Divided(ram', ram, b, mid, TRUE)
      BY <1>1, <1>3, <1>6, <2>1, SplitDivides
    <2>4. Took(ram', ram, b, want)
      BY <1>1, <1>3, <1>4, <1>6, <1>9, <2>2, <2>3, DividedTook
    <2>5. Owns(ram', owned')
      BY <1>1, <1>3, <1>4, <1>7, <2>4, TookOwns
    <2>6. DOMAIN ram' = DOMAIN ram \cup {mid} /\ ~ram'[mid].used
      BY <2>3 DEF Divided, Cell
    <2>7. \A x \in DOMAIN ram' : ~ram'[x].used => x = mid \/ (x \in DOMAIN ram /\ ~ram[x].used)
      BY <2>4, <2>6 DEF Took
    <2>8. Lowest(ram', lfree')
      <3>1. CASE mid < lfree
        <4>1. \A x \in DOMAIN ram' : ~ram'[x].used => mid <= x
          <5> SUFFICES ASSUME NEW x \in DOMAIN ram', ~ram'[x].used  PROVE  mid <= x
            OBVIOUS
          <5> SUFFICES ASSUME x # mid  PROVE  mid <= x
            BY <1>6
          <5>1. lfree <= x /\ x \in Nat
            BY <1>0, <1>1, <1>5, <2>7 DEF Lowest
          <5> QED  BY <1>5, <1>6, <3>1, <5>1
        <4> QED  BY <2>1, <2>6, <3>1, <4>1 DEF Lowest
      <3>2. CASE ~(mid < lfree)
        <4>1. lfree' = lfree /\ lfree # HeapSize /\ lfree <= mid
          <5>1. lfree <= mid /\ mid < HeapSize
            BY <1>0, <1>5, <1>6, <3>2
          <5> QED  BY <1>0, <1>5, <1>6, <2>1, <3>2, <5>1
        <4>2. ~ram[lfree].used
          BY <1>1, <4>1 DEF Lowest
        <4>3. lfree \in DOMAIN ram' /\ ~ram'[lfree].used
          BY <1>3, <1>5, <2>4, <2>6, <4>2 DEF Took
        <4>4. \A x \in DOMAIN ram' : ~ram'[x].used => lfree <= x
          BY <1>1, <2>7, <4>1 DEF Lowest
        <4> QED  BY <4>1, <4>3, <4>4 DEF Lowest
      <3> QED  BY <3>1, <3>2
    <2> QED  BY <2>4, <2>5, <2>8 DEF Took, HeapInv
  <1>10. CASE ram[n].used /\ ~CutsOff(b, want)
    <2>1. ram' = ram /\ lfree' = lfree
      BY <1>2, <1>10 DEF Shortened, LowestTrimmed
    <2>2. b + Header + want <= n
      BY <1>0, <1>4, <1>5, <1>6
    <2>3. Took(ram', ram, b, want)
      BY <1>1, <1>3, <2>1, <2>2 DEF Took
    <2>4. Owns(ram', owned')
      BY <1>1, <1>3, <1>4, <1>7, <2>3, TookOwns
    <2> QED  BY <1>1, <2>1, <2>4 DEF HeapInv
  <1> QED  BY <1>8, <1>9, <1>10

-----------------------------------------------------------------------------
LEMMA InitHeap == HeapInit => HeapInv
  <1> SUFFICES ASSUME HeapInit  PROVE  HeapInv
    OBVIOUS
  <1>0. HeapSize \in Nat /\ Header \in Nat /\ MinSize \in Nat /\ HeapSize # 0 /\ 0 < HeapSize
        /\ Header + MinSize <= HeapSize
    BY HeapNumbers
  <1>1. /\ DOMAIN ram = {0, HeapSize}
        /\ ram[0] = [next |-> HeapSize, prev |-> 0, used |-> FALSE]
        /\ ram[HeapSize] = [next |-> HeapSize, prev |-> HeapSize, used |-> TRUE]
        /\ ram = [x \in {0, HeapSize} |-> ram[x]]
    BY <1>0 DEF HeapInit, ram_end
  <1>2. /\ ram[0].next = HeapSize /\ ram[0].prev = 0 /\ ~ram[0].used /\ ram[0] \in Hdr
        /\ ram[HeapSize].used = TRUE /\ ram[HeapSize] \in Hdr
    BY <1>0, <1>1 DEF Hdr
  <1>3. ram \in [DOMAIN ram -> Hdr]
    BY <1>1, <1>2
  <1>4. Follows(ram, 0, HeapSize)
    BY <1>0, <1>1 DEF Follows
  <1>5. Chain(ram)
    BY <1>0, <1>1, <1>2, <1>3, <1>4 DEF Chain
  <1>6. Tight(ram, {})
    BY <1>1, <1>2 DEF Tight
  <1>7. Lowest(ram, lfree)
    BY <1>0, <1>1, <1>2 DEF Lowest, HeapInit
  <1>8. Owns(ram, owned)
    <2>1. owned = [b \in {} |-> 0]
      BY DEF HeapInit
    <2>2. DOMAIN owned = {} /\ owned \in [DOMAIN owned -> Nat]
      BY <2>1
    <2>3. {b \in DOMAIN ram \ {HeapSize} : ram[b].used} = {}
      BY <1>1, <1>2
    <2> QED  BY <2>2, <2>3 DEF Owns
  <1> QED  BY <1>5, <1>6, <1>7, <1>8 DEF HeapInv

\* The blocks of the heap follow one another without a gap or an overlap; whose
\* they are, that free ones are not neighbours and the lowest are known.
THEOREM HeapInvariance == HeapSpec => []HeapInv
  <1>1. HeapInv /\ [HeapNext]_heapVars => HeapInv'
    <2> SUFFICES ASSUME HeapInv, [HeapNext]_heapVars  PROVE  HeapInv'
      OBVIOUS
    <2>1. ASSUME NEW size \in Requests, Malloc(size)  PROVE  HeapInv'
      <3>1. size \in Nat
        BY HeapAssumption
      <3> QED  BY <2>1, <3>1, MallocStep
    <2>2. ASSUME NEW b \in DOMAIN owned, mem_free(b)  PROVE  HeapInv'
      BY <2>2, FreeStep
    <2>3. ASSUME NEW b \in DOMAIN owned, NEW size \in Requests, mem_trim(b, size)  PROVE  HeapInv'
      <3>1. size \in Nat
        BY HeapAssumption
      <3> QED  BY <2>3, <3>1, TrimStep
    <2>4. CASE UNCHANGED heapVars
      BY <2>4 DEF heapVars, HeapInv
    <2>5. ASSUME NEW size \in Requests, MallocFails(size)  PROVE  HeapInv'
      BY <2>4, <2>5 DEF MallocFails
    <2> QED  BY <2>1, <2>2, <2>3, <2>4, <2>5 DEF HeapNext
  <1> QED  BY <1>1, InitHeap, PTL DEF HeapSpec

\* No memory is two users' at a time or lost between blocks, a search from lfree
\* misses no free block, and mem_free leaves no two free blocks side by side.
THEOREM HeapStaysSane == HeapSpec => []HeapSane
  <1>1. HeapInv => HeapSane
    <2> SUFFICES ASSUME HeapInv  PROVE  HeapSane
      OBVIOUS
    <2>0. HeapSize \in Nat /\ Header \in Nat /\ MinSize \in Nat /\ HeapSize # 0 /\ ram_end = HeapSize
      BY HeapNumbers
    <2>1. Chain(ram) /\ Tight(ram, {}) /\ Lowest(ram, lfree) /\ Owns(ram, owned)
      BY DEF HeapInv
    <2>2. DOMAIN ram \subseteq 0 .. HeapSize /\ Blocks = DOMAIN ram \ {HeapSize} /\ 0 \in Blocks /\ HeapSize \in DOMAIN ram
      BY <2>0, <2>1 DEF Chain, Blocks
    <2>3. ASSUME NEW b \in Blocks
          PROVE  /\ Follows(ram, b, ram[b].next) /\ b + Header + MinSize <= ram[b].next
                 /\ ram[b].next # HeapSize => ram[ram[b].next].prev = b
                 /\ ram[b].prev \in Blocks /\ b \in Nat /\ ram[b].next \in Nat
      <3>1. /\ Follows(ram, b, ram[b].next) /\ b + Header + MinSize <= ram[b].next
            /\ ram[b].next # HeapSize => ram[ram[b].next].prev = b
        BY <2>1, <2>2 DEF Chain
      <3>2. ram[b].prev \in Blocks
        BY <2>1, <2>2 DEF Chain
      <3>3. b \in Nat /\ ram[b].next \in Nat
        BY <2>0, <2>2, <3>1 DEF Follows
      <3> QED  BY <3>1, <3>2, <3>3
    <2>4. HeapTypeOK
      BY <2>0, <2>1, <2>2, <2>3 DEF HeapTypeOK, Follows, Lowest, Owns
    <2>5. NoHoles
      BY <2>1, <2>2 DEF NoHoles, Tight
    <2>6. LowestFree
      <3> DEFINE S == {b \in DOMAIN ram : ~ram[b].used \/ b = ram_end}
      <3>1. S \subseteq Nat /\ lfree \in S
        BY <2>0, <2>1, <2>2 DEF Lowest
      <3>2. \A x \in S : lfree <= x
        BY <2>0, <2>1, <2>2 DEF Lowest
      <3>3. Min(S) = lfree
        BY <3>1, <3>2, MinIs
      <3> QED  BY <3>3 DEF LowestFree
    <2>7. ASSUME NEW b \in Blocks  PROVE  ram[b].next = Min({c \in DOMAIN ram : c > b})
      <3> DEFINE S == {c \in DOMAIN ram : c > b}
      <3>1. S \subseteq Nat /\ ram[b].next \in S /\ \A x \in S : ram[b].next <= x
        BY <2>0, <2>2, <2>3 DEF Follows
      <3> QED  BY <3>1, MinIs
    <2>8. \A b \in DOMAIN owned : Room(b) >= owned[b]
      <3> SUFFICES ASSUME NEW b \in DOMAIN owned  PROVE  Room(b) >= owned[b]
        OBVIOUS
      <3>1. b \in Blocks /\ owned[b] \in Nat /\ b + Header + owned[b] <= ram[b].next
        BY <2>1, <2>2 DEF Owns
      <3> QED  BY <2>0, <2>3, <3>1 DEF Room
    <2>9. \A b \in Blocks : Room(b) >= MinSize
      BY <2>0, <2>3 DEF Room
    <2>10. DOMAIN owned = {b \in Blocks : ram[b].used}
      BY <2>1, <2>2 DEF Owns
    <2>11. Disjoint
      BY <2>0, <2>3, <2>7, <2>8, <2>9, <2>10 DEF Disjoint
    <2> QED  BY <2>4, <2>5, <2>6, <2>11 DEF HeapSane
  <1> QED  BY <1>1, HeapInvariance, PTL
=============================================================================
