---------------------------- MODULE Audio_proofs ----------------------------
(***************************************************************************)
(* Proofs about what MCAudio composes.  The server link: how long a        *)
(* connection outlives the last control datagram and where audio goes.     *)
(* The capture: if the main loop serves every block before the handler has *)
(* taken another Block samples (InLag), the two buffers are never mixed up *)
(* and the capture path implements AudioStream, for every block size.  The *)
(* UDP below: the PCBs that are bound, the one a datagram is for, and the  *)
(* answers.                                                                *)
(***************************************************************************)
EXTENDS SpeexUdp, AdcCapture, IpUdp, Lemmas

\* Two ages a connection can have, both counted to the end of the last full
\* pass of the main loop.  A fresh one was within the receive timeout when
\* spudp_control_send last tested it.  An aging one was within it when the
\* last control datagram was sent, and the test is skipped until the send
\* period has passed again.
HeardInTime == Elapsed(tmRecv) <= RecvTimeout + late
Aging == /\ Elapsed(tmSent) <= SendPeriod + late
         /\ Elapsed(tmRecv) <= Elapsed(tmSent) + RecvTimeout + MaxPass

StaleInv == conn => HeardInTime \/ Aging

\* The selected server was heard no earlier than the last datagram, unless
\* that one came from a third host.
HeardInv == conn /\ ~stranger => silence <= Elapsed(tmRecv)

-----------------------------------------------------------------------------
\* Subtraction on the millisecond counter stays in its range, and a moment
\* that is now has age 0.
LEMMA ElapsedType ==
    ASSUME now \in Clock, NEW from \in Clock
    PROVE  /\ Elapsed(from) \in Clock
           /\ from = now => Elapsed(from) = 0
  BY TimeAssumption DEF Clock, Elapsed

LEMMA AddrType ==
    ASSUME NEW s \in {1, 2}
    PROVE  Addr(s) \in Servers
  BY DEF Addr, Servers

\* TypeOK is inductive: types are preserved by every handler.
LEMMA TypeStep == LinkTypeOK /\ [LinkNext]_linkVars => LinkTypeOK'
<1> SUFFICES ASSUME LinkTypeOK, [LinkNext]_linkVars PROVE LinkTypeOK'
  OBVIOUS
<1> USE HostsAssumption, TimeAssumption
<1>0. StaleMax \in Nat
  BY DEF StaleMax
<1>1. CASE Tick
  <2>1. now' \in Clock /\ late' \in 0 .. MaxPass /\ silence' \in 0 .. StaleMax + 1
    BY <1>0, <1>1 DEF Tick, LinkTypeOK, Clock, Older
  <2>2. out' \in [kind : {"none", "control", "audio"}, to : Servers \cup {Any}]
    BY <1>1 DEF Tick, NoDatagram
  <2> QED
    BY <1>1, <2>1, <2>2 DEF Tick, LinkTypeOK, timers, Clock
<1>2. CASE LinkChange
  BY <1>2 DEF LinkChange, LinkTypeOK, timers, linkHistory, NoDatagram, Clock
<1>3. ASSUME NEW h \in Hosts, ControlInput(h) PROVE LinkTypeOK'
  <2>1. server' \in {1, 2} /\ conn' \in BOOLEAN /\ silence' \in 0 .. StaleMax + 1
    BY <1>0, <1>3 DEF ControlInput, LinkTypeOK
  <2> QED
    BY <1>3, <2>1 DEF ControlInput, LinkTypeOK, NoDatagram, Clock
<1>4. ASSUME NEW s \in {1, 2}, NEW outcome \in Outcomes, StringSend(s, outcome)
      PROVE  /\ out' \in [kind : {"none", "control", "audio"}, to : Servers \cup {Any}]
             /\ asked' \in SUBSET LiveServers
             /\ halted' \in BOOLEAN
  BY <1>4, AddrType DEF StringSend, LinkTypeOK, NoDatagram, Datagram
<1>5. CASE ForwardString
  BY <1>4, <1>5 DEF ForwardString, LinkTypeOK, timers, Clock
<1>6. ASSUME NEW outcome \in Outcomes, ControlSend(outcome) PROVE LinkTypeOK'
  <2>1. NextServer \in {1, 2}
    BY DEF NextServer, OtherServer, LinkTypeOK
  <2>2. server' \in {1, 2} /\ conn' \in BOOLEAN /\ tmSent' \in Clock
    BY <1>6, <2>1 DEF ControlSend, LinkTypeOK
  <2> QED
    BY <1>4, <1>6, <2>1, <2>2 DEF ControlSend, LinkTypeOK, Clock
<1>7. CASE ControlSkip
  BY <1>7 DEF ControlSkip, LinkTypeOK, timers, linkHistory, NoDatagram, Clock
<1>8. ASSUME NEW outcome \in Outcomes \cup {"failed"}, AudioSend(outcome) PROVE LinkTypeOK'
  <2>1. AudioPeer \in Servers \cup {Any}
    BY AddrType DEF AudioPeer, LinkTypeOK
  <2>2. out' \in [kind : {"none", "control", "audio"}, to : Servers \cup {Any}]
    BY <1>8, <2>1 DEF AudioSend, NoDatagram, Datagram
  <2> QED
    BY <1>8, <2>1, <2>2 DEF AudioSend, LinkTypeOK, timers, linkHistory, Clock
<1>9. CASE UNCHANGED linkVars
  BY <1>9 DEF linkVars, timers, linkHistory, LinkTypeOK, Clock
<1> QED
  BY <1>1, <1>2, <1>3, <1>5, <1>6, <1>7, <1>8, <1>9 DEF LinkNext

LEMMA TypeInit == LinkInit => LinkTypeOK
<1> SUFFICES ASSUME LinkInit PROVE LinkTypeOK
  OBVIOUS
<1>1. StaleMax \in Nat
  BY TimeAssumption DEF StaleMax
<1>2. out \in [kind : {"none", "control", "audio"}, to : Servers \cup {Any}]
  BY DEF LinkInit, NoDatagram
<1>3. late \in 0 .. MaxPass /\ silence \in 0 .. StaleMax + 1
  BY <1>1, TimeAssumption DEF LinkInit
<1>4. asked \in SUBSET LiveServers
  BY DEF LinkInit
<1> QED
  BY <1>2, <1>3, <1>4 DEF LinkInit, LinkTypeOK, Clock

\* Every variable keeps its type: in particular only the two server numbers
\* are ever selected, so the "some other server" branches are dead.
THEOREM TypeCorrect == LinkSpec => []LinkTypeOK
  BY TypeInit, TypeStep, PTL DEF LinkSpec

\* One step keeps the ages of a connection within their bounds.
LEMMA StaleStep == LinkTypeOK /\ StaleInv /\ [LinkNext]_linkVars => StaleInv'
<1> SUFFICES ASSUME LinkTypeOK, StaleInv, [LinkNext]_linkVars, conn'
             PROVE  (HeardInTime \/ Aging)'
  BY DEF StaleInv
<1> USE TimeAssumption
<1> USE DEF LinkTypeOK, Clock
<1>1. CASE Tick
  <2>1. conn /\ (HeardInTime \/ Aging)
    BY <1>1 DEF Tick, StaleInv
  <2>2. Elapsed(tmRecv) \in Nat /\ Elapsed(tmSent) \in Nat
    BY ElapsedType
  <2>3. Elapsed(tmRecv) <= StaleMax
    BY <1>1, <2>1, <2>2 DEF Tick, HeardInTime, Aging, StaleMax
  <2>4. Elapsed(tmRecv)' = Elapsed(tmRecv) + 1
    BY <1>1, <2>2, <2>3 DEF Tick, timers, Elapsed, StaleMax
  <2>5. CASE HeardInTime
    BY <1>1, <2>2, <2>4, <2>5 DEF Tick, HeardInTime
  <2>6. CASE Aging
    <3>1. Elapsed(tmSent)' = Elapsed(tmSent) + 1
      BY <1>1, <2>2, <2>6 DEF Tick, timers, Elapsed, Aging
    <3> QED
      BY <1>1, <2>2, <2>4, <2>6, <3>1 DEF Tick, Aging
  <2> QED
    BY <2>1, <2>5, <2>6
<1>2. CASE LinkChange
  BY <1>2 DEF LinkChange, StaleInv, HeardInTime, Aging, Elapsed, timers
<1>3. ASSUME NEW h \in Hosts, ControlInput(h) PROVE (HeardInTime \/ Aging)'
  BY <1>3 DEF ControlInput, HeardInTime, Elapsed
<1>4. CASE ForwardString
  BY <1>4 DEF ForwardString, StaleInv, HeardInTime, Aging, Elapsed, timers
<1>5. ASSUME NEW outcome \in Outcomes, ControlSend(outcome) PROVE (HeardInTime \/ Aging)'
  <2>1. Elapsed(tmRecv) <= RecvTimeout
    BY <1>5, ElapsedType DEF ControlSend, GiveUp
  <2> QED
    BY <1>5, <2>1 DEF ControlSend, HeardInTime, Elapsed
<1>6. CASE ControlSkip
  <2>1. conn /\ (HeardInTime \/ Aging) /\ UNCHANGED <<now, tmSent, tmRecv>> /\ late' = 0
    BY <1>6 DEF ControlSkip, StaleInv, timers
  <2>2. Elapsed(tmRecv) \in Nat /\ Elapsed(tmSent) \in Nat
    BY ElapsedType
  <2>3. Elapsed(tmSent) <= SendPeriod
    BY <1>6, <2>2 DEF ControlSkip, SyncDue
  <2>4. Elapsed(tmRecv) <= Elapsed(tmSent) + RecvTimeout + MaxPass
    BY <2>1, <2>2 DEF HeardInTime, Aging
  <2> QED
    BY <2>1, <2>3, <2>4 DEF Aging, Elapsed
<1>7. ASSUME NEW outcome \in Outcomes \cup {"failed"}, AudioSend(outcome)
      PROVE  (HeardInTime \/ Aging)'
  BY <1>7 DEF AudioSend, StaleInv, HeardInTime, Aging, Elapsed, timers
<1>8. CASE UNCHANGED linkVars
  BY <1>8 DEF linkVars, StaleInv, HeardInTime, Aging, Elapsed, timers
<1> QED
  BY <1>1, <1>2, <1>3, <1>4, <1>5, <1>6, <1>7, <1>8 DEF LinkNext

\* The bound on a connection follows from the two ages.
LEMMA StaleImplied == LinkTypeOK /\ StaleInv => StaleBound
  BY TimeAssumption, ElapsedType DEF LinkTypeOK, Clock, StaleInv, HeardInTime, Aging, StaleBound,
     StaleMax

\* The connected state never outlives the last control datagram by more than
\* the receive timeout, one send period and two passes of the main loop, for
\* every clock width and whatever the sends come to.
THEOREM StaleBounded == LinkSpec => []StaleBound
<1>1. LinkInit => LinkTypeOK /\ StaleInv
  BY TypeInit DEF LinkInit, StaleInv
<1>2. LinkTypeOK /\ StaleInv /\ [LinkNext]_linkVars => (LinkTypeOK /\ StaleInv)'
  BY TypeStep, StaleStep
<1> QED
  BY <1>1, <1>2, StaleImplied, PTL DEF LinkSpec

\* One step keeps the selected server heard at least as recently as the last
\* control datagram, if that one came from a server.
LEMMA HeardStep == LinkTypeOK /\ StaleInv /\ HeardInv /\ [LinkNext]_linkVars => HeardInv'
<1> SUFFICES ASSUME LinkTypeOK, StaleInv, HeardInv, [LinkNext]_linkVars, conn', ~stranger'
             PROVE  (silence <= Elapsed(tmRecv))'
  BY DEF HeardInv
<1> USE TimeAssumption
<1> USE DEF LinkTypeOK, Clock
<1>1. CASE Tick
  <2>1. conn /\ silence <= Elapsed(tmRecv)
    BY <1>1 DEF Tick, HeardInv
  <2>2. Elapsed(tmRecv) \in Nat
    BY ElapsedType
  <2>3. Elapsed(tmRecv) <= StaleMax
    BY <2>1, StaleImplied DEF StaleBound
  <2>4. Elapsed(tmRecv)' = Elapsed(tmRecv) + 1
    BY <1>1, <2>2, <2>3 DEF Tick, timers, Elapsed, StaleMax
  <2> QED
    BY <1>1, <2>1, <2>2, <2>3, <2>4 DEF Tick, Older, StaleMax
<1>2. CASE LinkChange
  BY <1>2 DEF LinkChange, HeardInv, Elapsed, timers, linkHistory
<1>3. ASSUME NEW h \in Hosts, ControlInput(h) PROVE (silence <= Elapsed(tmRecv))'
  BY <1>3 DEF ControlInput, Elapsed, Hosts
<1>4. CASE ForwardString
  BY <1>4 DEF ForwardString, HeardInv, Elapsed, timers
<1>5. ASSUME NEW outcome \in Outcomes, ControlSend(outcome)
      PROVE  (silence <= Elapsed(tmRecv))'
  BY <1>5 DEF ControlSend, HeardInv, Elapsed
<1>6. CASE ControlSkip
  BY <1>6 DEF ControlSkip, HeardInv, Elapsed, timers, linkHistory
<1>7. ASSUME NEW outcome \in Outcomes \cup {"failed"}, AudioSend(outcome)
      PROVE  (silence <= Elapsed(tmRecv))'
  BY <1>7 DEF AudioSend, HeardInv, Elapsed, timers, linkHistory
<1>8. CASE UNCHANGED linkVars
  BY <1>8 DEF linkVars, HeardInv, Elapsed, timers, linkHistory
<1> QED
  BY <1>1, <1>2, <1>3, <1>4, <1>5, <1>6, <1>7, <1>8 DEF LinkNext

\* A connected device heard its selected server within the same bound, unless
\* the last control datagram came from a third host.  The exception is needed:
\* any host refreshes the receive time in handleControlInput.
THEOREM ServerHeardBounded == LinkSpec => []ServerHeardBound
<1>1. LinkInit => LinkTypeOK /\ StaleInv /\ HeardInv
  BY TypeInit DEF LinkInit, StaleInv, HeardInv
<1>2. LinkTypeOK /\ StaleInv /\ HeardInv /\ [LinkNext]_linkVars => (LinkTypeOK /\ StaleInv /\ HeardInv)'
  BY TypeStep, StaleStep, HeardStep
<1>3. LinkTypeOK /\ StaleInv /\ HeardInv => ServerHeardBound
  <2> SUFFICES ASSUME LinkTypeOK, StaleInv, HeardInv, conn, ~stranger
               PROVE  silence <= StaleMax
    BY DEF ServerHeardBound
  <2>1. Elapsed(tmRecv) <= StaleMax
    BY StaleImplied DEF StaleBound
  <2> QED
    BY <2>1, ElapsedType, TimeAssumption DEF LinkTypeOK, HeardInv, Clock, StaleMax
<1> QED
  BY <1>1, <1>2, <1>3, PTL DEF LinkSpec

\* Whatever peer a failed send left in the data PCB, audio sent in the
\* connected state goes to the server that is connected at that moment.
THEOREM AudioGoesToConnectedServer == LinkSpec => []AudioToConnectedServer
<1>1. LinkInit => AudioToConnectedServer
  BY DEF LinkInit, AudioToConnectedServer, NoDatagram
<1>2. AudioToConnectedServer /\ [LinkNext]_linkVars => AudioToConnectedServer'
  <2> SUFFICES ASSUME AudioToConnectedServer, [LinkNext]_linkVars
               PROVE  AudioToConnectedServer'
    OBVIOUS
  <2>1. ASSUME out'.kind # "audio" PROVE AudioToConnectedServer'
    BY <2>1 DEF AudioToConnectedServer
  <2>2. NoDatagram.kind # "audio"
    BY DEF NoDatagram
  <2>3. ASSUME NEW s \in {1, 2}, NEW outcome \in Outcomes, StringSend(s, outcome)
        PROVE  out'.kind # "audio"
    BY <2>2, <2>3 DEF StringSend, Datagram
  <2>4. CASE Tick \/ LinkChange \/ ControlSkip \/ \E h \in Hosts : ControlInput(h)
    BY <2>1, <2>2, <2>4 DEF Tick, LinkChange, ControlSkip, ControlInput
  <2>5. CASE ForwardString \/ \E outcome \in Outcomes : ControlSend(outcome)
    BY <2>1, <2>2, <2>5 DEF ForwardString, ControlSend, StringSend, Datagram
  <2>6. ASSUME NEW outcome \in Outcomes \cup {"failed"}, AudioSend(outcome)
        PROVE  AudioToConnectedServer'
    BY <2>2, <2>6 DEF AudioSend, AudioToConnectedServer, AudioPeer, Datagram, Addr
  <2>7. CASE UNCHANGED linkVars
    BY <2>7 DEF linkVars, AudioToConnectedServer, Addr
  <2> QED
    BY <2>4, <2>5, <2>6, <2>7 DEF LinkNext
<1> QED
  BY <1>1, <1>2, PTL DEF LinkSpec

-----------------------------------------------------------------------------
\* The main loop keeps ahead of the handler by less than a block.
InLag == MaxLag < Block

Serving == pc \in {"call", "encode", "clear"}

\* The variables of the capture path have their types.
Types ==
    /\ block_fill \in Buffers
    /\ block_result \in Buffers
    /\ block_fill # block_result
    /\ buf \in [Buffers -> [1 .. Block -> Nat]]
    /\ nSamples \in 0 .. Block - 1
    /\ pc \in {"loop", "starting", "stopping", "call", "encode", "clear"}
    /\ samples \in Buffers
    /\ coded \in Seq(Nat)
    /\ Len(coded) <= Block
    /\ lag \in Nat
    /\ taken \in Nat
    /\ delivered \in Nat
    /\ packet \in [1 .. Block -> Nat]

\* The samples of the block being filled are the last ones taken.
Filled == \A i \in 1 .. nSamples : buf[block_fill][i] = taken - nSamples + i

\* At most one block waits, for as long as the one after it has been filling.
OneWaiting ==
    /\ n_conv_finished \in {0, 1}
    /\ Serving => n_conv_finished = 1
    /\ n_conv_finished = 1 => lag = nSamples /\ lag <= MaxLag

\* Every sample is delivered, in the block that waits, or being filled in.
Accounted ==
    /\ (n_conv_finished = 0 \/ pc = "clear") => delivered = taken - nSamples
    /\ (n_conv_finished = 1 /\ pc # "clear") =>
          /\ delivered + Block = taken - nSamples
          /\ \A i \in 1 .. Block : buf[block_result][i] = delivered + i

\* The encoder has read a prefix of the block that waits.
Coded ==
    pc = "encode" =>
        /\ samples = block_result
        /\ \A i \in 1 .. Len(coded) : coded[i] = delivered + i

IInv == Types /\ Filled /\ OneWaiting /\ Accounted /\ Coded

-----------------------------------------------------------------------------
LEMMA InvInit == AdcInit => IInv
<1> SUFFICES ASSUME AdcInit PROVE IInv
  OBVIOUS
<1> USE AdcAssumption DEF AdcInit
<1>1. Types
  BY DEF Types, Buffers
<1>2. Filled /\ OneWaiting /\ Accounted /\ Coded
  BY DEF Filled, OneWaiting, Accounted, Coded, Serving
<1> QED
  BY <1>1, <1>2 DEF IInv

\* The handler keeps the types.
LEMMA HandlerTypes ==
    ASSUME IInv, ADC_IRQHandler
    PROVE  Types'
<1>1. /\ Types /\ Block \in Nat
      /\ nSamples + 1 \in 1 .. Block /\ taken + 1 \in Nat
  BY AdcAssumption DEF IInv, Types
<1>2. buf' \in [Buffers -> [1 .. Block -> Nat]]
  <2> DEFINE filled == [buf[block_fill] EXCEPT ![nSamples + 1] = taken + 1]
  <2>1. buf' = [buf EXCEPT ![block_fill] = filled]
    BY DEF ADC_IRQHandler
  <2>2. filled \in [1 .. Block -> Nat]
    BY <1>1 DEF Types
  <2>3. buf \in [Buffers -> [1 .. Block -> Nat]]
    BY <1>1 DEF Types
  <2> HIDE DEF filled
  <2> QED
    BY <2>1, <2>2, <2>3
<1>3. nSamples' \in 0 .. Block - 1
  <2>1. nSamples' = IF nSamples + 1 >= Block THEN 0 ELSE nSamples + 1
    BY DEF ADC_IRQHandler, BlockFull
  <2> QED
    BY <1>1, <2>1
<1>4. \/ block_fill' = block_fill /\ block_result' = block_result
      \/ block_fill' = block_result /\ block_result' = block_fill
  BY DEF ADC_IRQHandler, NextFill
<1>5. lag' \in Nat /\ taken' \in Nat
  <2>1. taken' = taken + 1 /\ (lag' = 0 \/ lag' = lag + 1)
    BY DEF ADC_IRQHandler
  <2> QED
    BY <1>1, <2>1 DEF Types
<1>6. UNCHANGED <<pc, samples, coded, delivered, packet>>
  BY DEF ADC_IRQHandler, encoder, output
<1>7. block_fill' \in Buffers /\ block_result' \in Buffers /\ block_fill' # block_result'
  BY <1>1, <1>4 DEF Types
<1>8. /\ pc' \in {"loop", "starting", "stopping", "call", "encode", "clear"}
      /\ samples' \in Buffers /\ coded' \in Seq(Nat) /\ Len(coded') <= Block
      /\ delivered' \in Nat /\ packet' \in [1 .. Block -> Nat]
  BY <1>1, <1>6 DEF Types
<1> QED
  BY ONLY <1>2, <1>3, <1>5, <1>7, <1>8 DEF Types

\* The handler stores a sample; a block can only become full while no other
\* one waits.
LEMMA HandlerStep ==
    ASSUME InLag, IInv, ADC_IRQHandler
    PROVE  IInv'
<1> USE AdcAssumption
<1> USE DEF IInv, Types, ADC_IRQHandler, BlockFull, NextFill
<1>1. buf' = [buf EXCEPT ![block_fill] = [@ EXCEPT ![nSamples + 1] = taken + 1]]
  OBVIOUS
<1>2. nSamples + 1 \in 1 .. Block /\ taken + 1 \in Nat
  OBVIOUS
<1>3. /\ buf'[block_fill] = [buf[block_fill] EXCEPT ![nSamples + 1] = taken + 1]
      /\ buf'[block_result] = buf[block_result]
  BY <1>1, <1>2
<1>4. ASSUME NEW i \in 1 .. nSamples + 1
      PROVE  buf'[block_fill][i] = taken - nSamples + i
  <2>1. i \in 1 .. Block /\ buf[block_fill] \in [1 .. Block -> Nat]
    BY <1>2
  <2>2. CASE i = nSamples + 1
    BY <1>3, <2>1, <2>2
  <2>3. CASE i # nSamples + 1
    <3>1. i \in 1 .. nSamples
      BY <2>3
    <3>2. buf'[block_fill][i] = buf[block_fill][i]
      BY <1>3, <2>1, <2>3
    <3> QED
      BY <3>1, <3>2 DEF Filled
  <2> QED
    BY <2>2, <2>3
<1>5. CASE nSamples + 1 < Block
  <2>1. /\ nSamples' = nSamples + 1 /\ taken' = taken + 1
        /\ UNCHANGED <<block_fill, block_result, n_conv_finished, pc, samples, coded,
                       delivered, packet>>
    BY <1>5 DEF encoder, output
  <2>2. Types'
    BY HandlerTypes
  <2>3. Filled'
    BY <1>4, <2>1 DEF Filled
  <2>4. OneWaiting'
    BY <2>1 DEF OneWaiting, Serving, InTime
  <2>5. Accounted'
    BY <1>3, <2>1, SMTT(30) DEF Accounted
  <2>6. Coded'
    BY <2>1 DEF Coded
  <2> QED
    BY <2>2, <2>3, <2>4, <2>5, <2>6
<1>6. CASE nSamples + 1 = Block
  <2>1. n_conv_finished = 0
    BY <1>6 DEF OneWaiting, InTime, InLag
  <2>2. /\ nSamples' = 0 /\ taken' = taken + 1 /\ lag' = 0 /\ n_conv_finished' = 1
        /\ block_fill' = block_result /\ block_result' = block_fill
        /\ UNCHANGED <<pc, samples, coded, delivered, packet>>
    BY <1>6, <2>1 DEF encoder, output
  <2>3. ~Serving
    BY <2>1 DEF OneWaiting
  <2>4. Types'
    BY HandlerTypes
  <2>5. Filled' /\ OneWaiting' /\ Coded'
    BY <2>2, <2>3 DEF Filled, OneWaiting, Coded, Serving
  <2>6. delivered = taken - nSamples
    BY <2>1 DEF Accounted
  <2>7. \A i \in 1 .. Block : (buf[block_result][i])' = delivered' + i
    BY <1>4, <1>6, <2>2, <2>6
  <2>8. pc' # "clear" /\ delivered' + Block = taken' - nSamples'
    BY <1>6, <2>2, <2>3, <2>6 DEF Serving
  <2>9. Accounted'
    BY <2>2, <2>7, <2>8 DEF Accounted
  <2> QED
    BY <2>4, <2>5, <2>9
<1>7. nSamples + 1 < Block \/ nSamples + 1 = Block
  OBVIOUS
<1> HIDE DEF IInv, Types, ADC_IRQHandler
<1> QED
  BY <1>5, <1>6, <1>7

\* The steps that leave the capture path alone.
LEMMA OtherStep ==
    ASSUME IInv, UNCHANGED <<capture, n_conv_finished, adcHistory, output, encoder>>,
           pc' \in {"loop", "starting", "stopping"}, ~Serving
    PROVE  IInv'
<1>1. /\ UNCHANGED <<block_fill, block_result, buf, nSamples, n_conv_finished, taken, lag>>
      /\ UNCHANGED <<delivered, packet, samples, coded>>
  BY DEF capture, adcHistory, output, encoder
<1>2. Types'
  BY <1>1 DEF IInv, Types
<1>3. Filled' /\ OneWaiting'
  BY <1>1 DEF IInv, Filled, OneWaiting, Serving
<1>4. Accounted' /\ Coded'
  BY <1>1 DEF IInv, Accounted, Coded, Serving
<1> QED
  BY <1>2, <1>3, <1>4 DEF IInv

\* The encoder reads a buffer that does not change under it.
LEMMA EncodeStep == ASSUME IInv, Encode PROVE IInv'
<1> USE AdcAssumption DEF IInv, Types
<1>1. /\ coded' = Append(coded, delivered + Len(coded) + 1)
      /\ UNCHANGED <<capture, n_conv_finished, pc, samples, adcHistory, output>>
  BY DEF Encode, Coded, Accounted, OneWaiting, Serving
<1>2. /\ coded' \in Seq(Nat) /\ Len(coded') = Len(coded) + 1
      /\ \A i \in 1 .. Len(coded) : coded'[i] = coded[i]
      /\ coded'[Len(coded) + 1] = delivered + Len(coded) + 1
  BY <1>1
<1>3. Types'
  <2>1. UNCHANGED <<block_fill, block_result, buf, nSamples, pc, samples, lag, taken,
                    delivered, packet>>
    BY <1>1 DEF capture, adcHistory, output
  <2>2. Len(coded') <= Block
    BY <1>2 DEF Encode
  <2> QED
    BY <1>2, <2>1, <2>2
<1>4. Filled' /\ OneWaiting' /\ Accounted'
  BY <1>1 DEF Filled, OneWaiting, Accounted, Serving, capture, adcHistory, output
<1>5. Coded'
  <2>1. UNCHANGED <<block_result, pc, samples, delivered>>
    BY <1>1 DEF capture, output
  <2>2. ASSUME NEW i \in 1 .. Len(coded') PROVE coded'[i] = delivered + i
    <3>1. Len(coded) \in Nat /\ i \in 1 .. Len(coded) + 1
      BY <1>2
    <3>2. CASE i = Len(coded) + 1
      BY <1>2, <3>1, <3>2
    <3>3. CASE i # Len(coded) + 1
      BY <1>2, <3>1, <3>3, SMTT(30) DEF Coded, Encode
    <3> QED
      BY <3>2, <3>3
  <2> QED
    BY <2>1, <2>2 DEF Coded, Encode
<1> QED
  BY <1>3, <1>4, <1>5

LEMMA SendStep == ASSUME IInv, Send PROVE IInv' /\ Stream!Deliver
<1> USE AdcAssumption DEF IInv, Types
<1>1. n_conv_finished = 1
  BY DEF Send, OneWaiting, Serving
<1>2. packet' = [i \in 1 .. Block |-> delivered + i]
  BY DEF Send, Coded
<1>3. Stream!Deliver
  BY <1>1, <1>2 DEF Send, Accounted, Stream!Deliver, adcHistory
<1>4. Types'
  BY <1>2, SMTT(30) DEF Send, capture, adcHistory, encoder
<1>5. Filled' /\ OneWaiting' /\ Accounted' /\ Coded'
  BY <1>1 DEF Send, Filled, OneWaiting, Accounted, Coded, Serving, capture, adcHistory, encoder
<1> QED
  BY <1>3, <1>4, <1>5

\* The strengthening is inductive while the main loop is in time.
LEMMA InvStep == ASSUME InLag PROVE IInv /\ [AdcNext]_adcVars => IInv'
<1> SUFFICES ASSUME IInv, [AdcNext]_adcVars PROVE IInv'
  OBVIOUS
<1>1. CASE Convert
  BY <1>1 DEF Convert, IInv, Types, Filled, OneWaiting, Accounted, Coded, Serving,
     capture, adcHistory, output, encoder
<1>2. CASE ADC_IRQHandler
  BY <1>2, HandlerStep
<1>3. CASE Start
  BY <1>3, OtherStep DEF Start, ADC_start, ADC_start_NVIC, Serving
<1>4. CASE Stop
  BY <1>4, OtherStep DEF Stop, ADC_stop, ADC_stop_channel, Serving
<1>5. CASE CheckFinished
  <2>1. /\ UNCHANGED <<block_fill, block_result, buf, nSamples, n_conv_finished, taken, lag>>
        /\ UNCHANGED <<delivered, packet, samples, coded>>
        /\ pc = "loop" /\ pc' = "call" /\ n_conv_finished # 0
    BY <1>5 DEF CheckFinished, capture, adcHistory, output, encoder
  <2>2. Types'
    BY <2>1 DEF IInv, Types
  <2>3. Filled' /\ OneWaiting'
    BY <2>1 DEF IInv, Filled, OneWaiting, Serving
  <2>4. Accounted' /\ Coded'
    BY <2>1 DEF IInv, Accounted, Coded, Serving
  <2> QED
    BY <2>2, <2>3, <2>4 DEF IInv
<1>6. CASE CallSend
  <2>1. /\ UNCHANGED <<block_fill, block_result, buf, nSamples, n_conv_finished, taken, lag>>
        /\ UNCHANGED <<delivered, packet>>
        /\ pc = "call" /\ pc' = "encode" /\ samples' = block_result /\ coded' = <<>>
    BY <1>6 DEF CallSend, capture, adcHistory, output
  <2>2. Types'
    <3>1. coded' \in Seq(Nat) /\ Len(coded') <= Block
      BY <2>1, AdcAssumption
    <3>2. samples' \in Buffers
      BY <2>1 DEF IInv, Types
    <3> QED
      BY <2>1, <3>1, <3>2 DEF IInv, Types
  <2>3. Filled' /\ OneWaiting'
    BY <2>1 DEF IInv, Filled, OneWaiting, Serving
  <2>4. Accounted'
    BY <2>1 DEF IInv, Accounted, OneWaiting, Serving
  <2>5. Coded'
    BY <2>1 DEF Coded
  <2> QED
    BY <2>2, <2>3, <2>4, <2>5 DEF IInv
<1>7. CASE Encode
  BY <1>7, EncodeStep
<1>8. CASE Send
  BY <1>8, SendStep
<1>9. CASE Clear
  <2>1. /\ UNCHANGED <<block_fill, block_result, buf, nSamples, taken, lag>>
        /\ UNCHANGED <<delivered, packet, samples, coded>>
        /\ pc = "clear" /\ pc' = "loop" /\ n_conv_finished' = 0
    BY <1>9 DEF Clear, capture, adcHistory, output, encoder
  <2>2. Types'
    BY <2>1 DEF IInv, Types
  <2>3. Filled' /\ OneWaiting'
    BY <2>1 DEF IInv, Filled, OneWaiting, Serving
  <2>4. Accounted' /\ Coded'
    BY <2>1 DEF IInv, Accounted, Coded, Serving
  <2> QED
    BY <2>2, <2>3, <2>4 DEF IInv
<1>10. CASE UNCHANGED adcVars
  BY <1>10 DEF adcVars, IInv, Types, Filled, OneWaiting, Accounted, Coded, Serving,
     capture, adcHistory, output, encoder
<1> QED
  BY <1>1, <1>2, <1>3, <1>4, <1>5, <1>6, <1>7, <1>8, <1>9, <1>10 DEF AdcNext, Consume

-----------------------------------------------------------------------------
\* While the main loop is in time the encoder never reads the buffer that the
\* handler is filling, whatever the block size.
THEOREM BuffersApart ==
    ASSUME InLag
    PROVE  AdcSpec => []TwoBuffers
<1>1. IInv => TwoBuffers
  BY DEF IInv, Types, Coded, TwoBuffers
<1> QED
  BY InvInit, InvStep, <1>1, PTL DEF AdcSpec

\* Every step of the capture path is a step of AudioStream or changes nothing
\* AudioStream speaks of: only the handler takes, only Send delivers.
LEMMA StreamStep ==
    ASSUME InLag
    PROVE  IInv /\ [AdcNext]_adcVars => [Stream!Next]_(Stream!vars)
<1> SUFFICES ASSUME IInv, [AdcNext]_adcVars PROVE Stream!Next \/ UNCHANGED Stream!vars
  OBVIOUS
<1>1. CASE ADC_IRQHandler
  <2>1. taken' = taken + 1 /\ UNCHANGED output
    BY <1>1 DEF ADC_IRQHandler
  <2>2. taken + 1 < delivered + 2 * Block
    <3>1. InTime
      BY <1>1 DEF ADC_IRQHandler
    <3>2. nSamples \in 0 .. Block - 1 /\ taken \in Nat /\ delivered \in Nat
      BY DEF IInv, Types
    <3>3. CASE n_conv_finished = 0 \/ pc = "clear"
      BY <3>2, <3>3, AdcAssumption DEF IInv, Accounted
    <3>4. CASE n_conv_finished = 1 /\ pc # "clear"
      <4>1. delivered + Block = taken - nSamples /\ nSamples < MaxLag
        BY <3>1, <3>4 DEF IInv, Accounted, OneWaiting, InTime
      <4> QED
        BY <3>2, <4>1, AdcAssumption DEF InLag
    <3> QED
      BY <3>3, <3>4 DEF IInv, OneWaiting
  <2> QED
    BY <2>1, <2>2 DEF Stream!Next, Stream!Take, output
<1>2. CASE Send
  BY <1>2, SendStep DEF Stream!Next
<1>3. CASE Convert \/ Start \/ Stop \/ CheckFinished \/ CallSend \/ Encode \/ Clear \/ UNCHANGED adcVars
  <2>1. UNCHANGED <<adcHistory, output>>
    BY <1>3 DEF Convert, Start, ADC_start, ADC_start_NVIC, Stop, ADC_stop,
       ADC_stop_channel, CheckFinished, CallSend, Encode, Clear, adcVars
  <2> QED
    BY <2>1 DEF adcHistory, output, Stream!vars
<1> QED
  BY <1>1, <1>2, <1>3 DEF AdcNext, Consume

\* The capture path implements the safety part of AudioStream: no sample is
\* lost, repeated or reordered between the converter and the packets.
THEOREM ImplementsStream ==
    ASSUME InLag
    PROVE  AdcSpec => StreamSafety
<1>1. AdcInit => Stream!Init
  BY DEF AdcInit, Stream!Init
<1> QED
  BY <1>1, InvInit, InvStep, StreamStep, PTL DEF AdcSpec, StreamSafety

-----------------------------------------------------------------------------
\* The converter between ADC_stop and ADC_start, and the handler's own
\* ADC_start in between.
Converter ==
    /\ pc = "starting" => inten /\ (busy \/ done)
    /\ QuietWhenStopped
    /\ AliveWhenTalking

LEMMA ConverterStep == Converter /\ [AdcNext]_adcVars => Converter'
<1> SUFFICES ASSUME Converter, [AdcNext]_adcVars PROVE Converter'
  OBVIOUS
<1> USE DEF Converter, QuietWhenStopped, AliveWhenTalking
<1>1. CASE Convert
  BY <1>1 DEF Convert
<1>2. CASE ADC_IRQHandler
  BY <1>2 DEF ADC_IRQHandler, InterruptTaken, Restart
<1>3. CASE Start
  BY <1>3 DEF Start, ADC_start, ADC_start_NVIC
<1>4. CASE Stop
  BY <1>4 DEF Stop, ADC_stop, ADC_stop_channel
<1>5. CASE Consume
  BY <1>5 DEF Consume, CheckFinished, CallSend, Encode, Send, Clear, hardware
<1>6. CASE UNCHANGED adcVars
  BY <1>6 DEF adcVars, hardware
<1> QED
  BY <1>1, <1>2, <1>3, <1>4, <1>5, <1>6 DEF AdcNext

\* After ADC_stop has returned the converter stays quiet, and between ADC_start
\* and ADC_stop it never stalls, whenever the handler runs in between.
THEOREM ConverterFollowsRadio == AdcSpec => []ConverterFollowsTalk
<1>1. AdcInit => Converter
  BY DEF AdcInit, Converter, QuietWhenStopped, AliveWhenTalking
<1>2. Converter => ConverterFollowsTalk
  BY DEF Converter, ConverterFollowsTalk
<1> QED
  BY <1>1, <1>2, ConverterStep, PTL DEF AdcSpec

-----------------------------------------------------------------------------
(***************************************************************************)
(* The inductive invariant of the PCBs: the list has each that is bound,   *)
(* once, and no two of them are for the same datagrams; one that is not    *)
(* connected has no trace of a peer.                                       *)
(***************************************************************************)
ListedIfBound == Listed = {p \in Used : pcb[p].port # 0}

Apart ==
    \A p, q \in Listed : (p # q /\ pcb[p].port = pcb[q].port) =>
        (pcb[p].ip # pcb[q].ip /\ AnyAddr \notin {pcb[p].ip, pcb[q].ip})

\* What udp_connect and udp_disconnect make of a PCB.
HasPeer(q) == IF q.conn THEN q.rip \in Peers /\ q.rport = PeerPort
              ELSE q.rip = AnyAddr /\ q.rport = 0

UdpInv ==
    /\ UdpTypeOK /\ OnceEach(udp_pcbs) /\ ListedIfBound /\ Apart
    /\ \A p \in Used : HasPeer(pcb[p])

\* The place of the first of some PCBs on the list is that of one of them.
LEMMA PlaceIs ==
  ASSUME UdpTypeOK, NEW some, some \cap Listed # {}
  PROVE  PlaceOf(some) \in DOMAIN udp_pcbs /\ udp_pcbs[PlaceOf(some)] \in some
  <1> DEFINE places == {i \in DOMAIN udp_pcbs : udp_pcbs[i] \in some}
  <1>1. places \subseteq Nat
    BY DEF UdpTypeOK
  <1>2. places # {}
    BY DEF Listed
  <1>3. Min(places) \in places
    BY <1>1, <1>2, MinOfNats
  <1>. QED  BY <1>3 DEF PlaceOf

\* udp_remove and udp_input take one PCB off the list, and no other.
LEMMA Removal ==
  ASSUME UdpInv, NEW p
  PROVE  /\ Unlisted(p) \in Seq(UdpPcbs) /\ OnceEach(Unlisted(p))
         /\ ElementsOf(Unlisted(p)) = Listed \ {p}
  <1>1. udp_pcbs \in Seq(UdpPcbs) /\ OnceEach(udp_pcbs) /\ Listed = ElementsOf(udp_pcbs)
    BY DEF UdpInv, UdpTypeOK, Listed, ElementsOf
  <1>2. CASE p \notin Listed
    BY <1>1, <1>2 DEF Unlisted
  <1>3. CASE p \in Listed
    <2>1. PlaceOf({p}) \in DOMAIN udp_pcbs /\ udp_pcbs[PlaceOf({p})] = p
      BY <1>3, PlaceIs DEF UdpInv
    <2>. QED  BY <1>1, <1>3, <2>1, CutOut DEF Unlisted
  <1>. QED  BY <1>2, <1>3

\* A port that udp_new_port finds is in its range, and no PCB is bound to it.
LEMMA NewPort ==
  ASSUME UdpTypeOK, udp_new_port # 0
  PROVE  /\ udp_new_port \in PortStart .. PortEnd
         /\ \A p \in Listed : pcb[p].port # udp_new_port
  <1>1. FreeAt # {}
    BY DEF udp_new_port
  <1>2. FreeAt \subseteq Nat
    BY UdpAssumption DEF FreeAt
  <1>3. Min(FreeAt) \in FreeAt /\ udp_new_port = Round(Min(FreeAt))
    BY <1>1, <1>2, MinOfNats DEF udp_new_port
  <1>4. \A k \in Nat : Round(k) \in PortStart .. PortEnd
    BY UdpAssumption DEF Round, UdpTypeOK
  <1>. QED  BY <1>2, <1>3, <1>4 DEF FreeAt

-----------------------------------------------------------------------------
\* Steps that leave the PCBs alone.
LEMMA StandsStill == ASSUME UdpInv, UNCHANGED <<pcb, udp_pcbs, udp_port, ip_addr>> PROVE UdpInv'
  <1>1. Listed' = Listed /\ Used' = Used
    BY DEF Listed, Used
  <1>. QED  BY <1>1 DEF UdpInv, UdpTypeOK, ListedIfBound, Apart, HasPeer, OnceEach

\* udp_bind, called by the user, by udp_connect and by udp_sendto.
LEMMA BindsApart ==
  ASSUME UdpInv, NEW p \in Used, NEW ip \in Own \cup {AnyAddr}, NEW port \in KnownPorts \cup {0},
         NEW remote \in Pcb, HasPeer(remote),
         udp_bind(p, ip, port, remote), UNCHANGED ip_addr
  PROVE  UdpInv'
  <1>1. CASE ~BindOk(p, ip, port)
    <2>1. UNCHANGED <<pcb, udp_pcbs, udp_port, ip_addr>>
      BY <1>1 DEF udp_bind
    <2>. QED  BY <2>1, StandsStill
  <1>2. CASE BindOk(p, ip, port)
    <2> DEFINE b == BoundPort(port)
               q == [remote EXCEPT !.ip = ip, !.port = b]
    <2>1. /\ pcb' = [pcb EXCEPT ![p] = q]
          /\ udp_pcbs' = (IF p \in Listed THEN <<>> ELSE <<p>>) \o udp_pcbs
          /\ udp_port' = IF port = 0 THEN udp_new_port ELSE udp_port
          /\ ip_addr' = ip_addr /\ p \in UdpPcbs
      BY <1>2 DEF udp_bind, Used
    <2>2. b \in Ports /\ b # 0 /\ udp_port' \in PortStart .. PortEnd
      BY <1>2, <2>1, NewPort, UdpAssumption DEF BindOk, BoundPort, Ports, UdpInv, UdpTypeOK
    <2>3. /\ q \in Pcb /\ q.ip = ip /\ q.port = b /\ HasPeer(q) /\ q # Nobody
      <3>1. q \in Pcb /\ q.ip = ip /\ q.port = b
        BY <2>2 DEF Pcb
      <3>2. q.conn = remote.conn /\ q.rip = remote.rip /\ q.rport = remote.rport
        BY DEF Pcb
      <3>. QED  BY <3>1, <3>2, UdpAssumption DEF HasPeer
    <2>4. \A r \in Listed \ {p} : pcb[r].port = b => ip # AnyAddr /\ pcb[r].ip \notin {AnyAddr, ip}
      BY <1>2, NewPort DEF BindOk, BoundPort, Taken, UdpInv
    <2> HIDE DEF q, b
    <2>5. udp_pcbs' \in Seq(UdpPcbs) /\ OnceEach(udp_pcbs') /\ Listed' = Listed \cup {p}
      <3>1. udp_pcbs \in Seq(UdpPcbs) /\ OnceEach(udp_pcbs) /\ Listed = ElementsOf(udp_pcbs)
            /\ Listed' = ElementsOf(udp_pcbs')
        BY DEF UdpInv, UdpTypeOK, Listed, ElementsOf
      <3>2. CASE p \in Listed
        <4>1. udp_pcbs' = udp_pcbs
          BY <2>1, <3>1, <3>2
        <4>. QED  BY <3>1, <3>2, <4>1
      <3>3. CASE p \notin Listed
        <4>1. udp_pcbs' = <<p>> \o udp_pcbs
          BY <2>1, <3>3
        <4>. QED  BY <2>1, <3>1, <3>3, <4>1, Prepended
      <3>. QED  BY <3>2, <3>3
    <2>6. pcb \in [UdpPcbs -> Pcb \cup {Nobody}] /\ ip_addr \in Own
      BY DEF UdpInv, UdpTypeOK
    <2>7. pcb' \in [UdpPcbs -> Pcb \cup {Nobody}] /\ pcb'[p] = q /\ \A r \in UdpPcbs \ {p} : pcb'[r] = pcb[r]
      BY <2>1, <2>3, <2>6
    <2>8. Used' = Used /\ Listed \subseteq UdpPcbs
      BY <2>1, <2>3, <2>7 DEF Used, UdpInv, ListedIfBound
    <2>9. UdpTypeOK'
      BY <2>1, <2>2, <2>5, <2>6, <2>7 DEF UdpTypeOK
    <2>10. ListedIfBound'
      BY <2>1, <2>2, <2>3, <2>5, <2>7, <2>8 DEF UdpInv, ListedIfBound, Used
    <2>11. Apart'
      <3> SUFFICES ASSUME NEW r \in Listed', NEW s \in Listed', r # s, pcb'[r].port = pcb'[s].port
                   PROVE  pcb'[r].ip # pcb'[s].ip /\ AnyAddr \notin {pcb'[r].ip, pcb'[s].ip}
        BY DEF Apart
      <3>1. CASE r = p
        BY <2>3, <2>4, <2>5, <2>7, <2>8, <3>1
      <3>2. CASE s = p
        BY <2>3, <2>4, <2>5, <2>7, <2>8, <3>2
      <3>3. CASE r # p /\ s # p
        BY <2>5, <2>7, <2>8, <3>3 DEF UdpInv, Apart
      <3>. QED  BY <3>1, <3>2, <3>3
    <2>12. (\A r \in Used : HasPeer(pcb[r]))'
      <3>1. \A r \in Used : HasPeer(pcb'[r])
        <4> SUFFICES ASSUME NEW r \in Used PROVE HasPeer(pcb'[r])
          OBVIOUS
        <4>1. CASE r = p
          BY <2>3, <2>7, <4>1
        <4>2. CASE r # p
          BY <2>7, <4>2 DEF UdpInv, Used
        <4>. QED  BY <4>1, <4>2
      <3>. QED  BY <2>8, <3>1 DEF HasPeer
    <2>. QED  BY <2>5, <2>9, <2>10, <2>11, <2>12 DEF UdpInv
  <1>. QED  BY <1>1, <1>2

\* A PCB is changed in nothing but its peer, or taken out of the pool.
LEMMA PeerChanges ==
  ASSUME UdpInv, NEW p \in UdpPcbs, NEW q \in Pcb, HasPeer(q),
         pcb' = [pcb EXCEPT ![p] = q], UNCHANGED <<udp_pcbs, udp_port, ip_addr>>,
         IF p \in Used THEN q.ip = pcb[p].ip /\ q.port = pcb[p].port ELSE q.port = 0
  PROVE  UdpInv'
  <1>1. /\ pcb \in [UdpPcbs -> Pcb \cup {Nobody}] /\ udp_pcbs' = udp_pcbs /\ Listed' = Listed
        /\ Listed \subseteq Used /\ OnceEach(udp_pcbs)
    BY DEF UdpInv, UdpTypeOK, ListedIfBound, Listed
  <1>2. pcb' \in [UdpPcbs -> Pcb \cup {Nobody}] /\ pcb'[p] = q /\ \A r \in UdpPcbs \ {p} : pcb'[r] = pcb[r]
    BY <1>1
  <1>3. Used' = Used \cup {p} /\ Used \subseteq UdpPcbs
    BY <1>2, UdpAssumption DEF Used
  <1>4. UdpTypeOK'
    BY <1>1, <1>2 DEF UdpInv, UdpTypeOK
  <1>5. ListedIfBound'
    BY <1>1, <1>2, <1>3 DEF UdpInv, ListedIfBound
  <1>6. \A r \in Listed : pcb'[r].ip = pcb[r].ip /\ pcb'[r].port = pcb[r].port
    BY <1>1, <1>2, <1>3
  <1>7. Apart'
    BY <1>1, <1>6 DEF UdpInv, Apart
  <1>8. (\A r \in Used : HasPeer(pcb[r]))'
    <2>1. \A r \in Used \cup {p} : HasPeer(pcb'[r])
      <3> SUFFICES ASSUME NEW r \in Used \cup {p} PROVE HasPeer(pcb'[r])
        OBVIOUS
      <3>1. CASE r = p
        BY <1>2, <3>1
      <3>2. CASE r # p
        BY <1>2, <1>3, <3>2 DEF UdpInv
      <3>. QED  BY <3>1, <3>2
    <2>. QED  BY <1>3, <2>1 DEF HasPeer
  <1>. QED  BY <1>1, <1>4, <1>5, <1>7, <1>8 DEF UdpInv, OnceEach

\* udp_remove
LEMMA Removes == ASSUME UdpInv, NEW p \in UdpPcbs, Remove(p) PROVE UdpInv'
  <1>1. /\ pcb \in [UdpPcbs -> Pcb \cup {Nobody}] /\ pcb' = [pcb EXCEPT ![p] = Nobody]
        /\ udp_port' = udp_port /\ ip_addr' = ip_addr /\ Listed \subseteq Used /\ Used \subseteq UdpPcbs
    BY DEF UdpInv, UdpTypeOK, Remove, ListedIfBound, Used
  <1>2. udp_pcbs' \in Seq(UdpPcbs) /\ OnceEach(udp_pcbs') /\ Listed' = Listed \ {p}
    BY Removal DEF Remove, Listed, ElementsOf
  <1>3. pcb' \in [UdpPcbs -> Pcb \cup {Nobody}] /\ pcb'[p] = Nobody /\ \A r \in UdpPcbs \ {p} : pcb'[r] = pcb[r]
    BY <1>1
  <1>4. Used' = Used \ {p}
    BY <1>1, <1>3 DEF Used
  <1>5. UdpTypeOK'
    BY <1>1, <1>2, <1>3 DEF UdpInv, UdpTypeOK
  <1>6. ListedIfBound'
    BY <1>1, <1>2, <1>3, <1>4 DEF UdpInv, ListedIfBound
  <1>7. Apart'
    BY <1>1, <1>2, <1>3 DEF UdpInv, Apart
  <1>8. (\A r \in Used : HasPeer(pcb[r]))'
    BY <1>1, <1>3, <1>4 DEF UdpInv, HasPeer
  <1>. QED  BY <1>2, <1>5, <1>6, <1>7, <1>8 DEF UdpInv

\* udp_input moves the PCB that a datagram is for to the front of the list.
LEMMA MovesToFront ==
  ASSUME UdpInv, NEW d \in Datagrams, Input(d)
  PROVE  UdpInv'
  <1> DEFINE p == Receiver(d)
  <1>1. p # Nobody /\ udp_pcbs' = <<p>> \o Unlisted(p) /\ UNCHANGED <<pcb, udp_port, ip_addr>>
    BY DEF Input
  <1>2. p \in Listed
    <2> DEFINE some == {q \in Listed : Perfect(q, d)}
               other == {q \in Listed : Unconnected(q, d)}
    <2>1. UdpTypeOK /\ some \subseteq Listed /\ other \subseteq Listed
      BY DEF UdpInv
    <2>2. CASE some # {}
      BY <2>1, <2>2, PlaceIs DEF Receiver
    <2>3. CASE some = {} /\ other # {}
      BY <2>1, <2>3, PlaceIs DEF Receiver
    <2>. QED  BY <1>1, <2>2, <2>3 DEF Receiver
  <1> HIDE DEF p
  <1>3. p \in UdpPcbs /\ Listed \subseteq Used
    BY <1>2 DEF UdpInv, ListedIfBound, Used
  <1>4. p \notin ElementsOf(Unlisted(p)) /\ Unlisted(p) \in Seq(UdpPcbs) /\ OnceEach(Unlisted(p))
    BY Removal
  <1>5. udp_pcbs' \in Seq(UdpPcbs) /\ OnceEach(udp_pcbs') /\ ElementsOf(udp_pcbs') = Listed
    <2>1. ElementsOf(Unlisted(p)) = Listed \ {p}
      BY Removal
    <2>2. /\ <<p>> \o Unlisted(p) \in Seq(UdpPcbs) /\ OnceEach(<<p>> \o Unlisted(p))
          /\ ElementsOf(<<p>> \o Unlisted(p)) = ElementsOf(Unlisted(p)) \cup {p}
      BY <1>3, <1>4, Prepended
    <2>. QED  BY <1>1, <1>2, <2>1, <2>2
  <1>6. Listed' = Listed /\ Used' = Used
    BY <1>1, <1>5 DEF Listed, ElementsOf, Used
  <1>. QED  BY <1>1, <1>5, <1>6 DEF UdpInv, UdpTypeOK, ListedIfBound, Apart, HasPeer

\* The invariant holds, for any number of PCBs, addresses and ports.
THEOREM UdpInvariance == UdpSpec => []UdpInv
  <1>1. UdpInit => UdpInv
    <2> SUFFICES ASSUME UdpInit PROVE UdpInv
      OBVIOUS
    <2>1. Listed = {} /\ Used = {} /\ udp_pcbs = <<>> /\ udp_pcbs \in Seq(UdpPcbs)
      BY DEF UdpInit, Listed, Used
    <2>2. UdpTypeOK
      BY <2>1, UdpAssumption DEF UdpInit, UdpTypeOK
    <2>. QED  BY <2>1, <2>2 DEF UdpInv, OnceEach, ListedIfBound, Apart
  <1>2. UdpInv /\ [UdpNext]_udpVars => UdpInv'
    <2> SUFFICES ASSUME UdpInv, [UdpNext]_udpVars PROVE UdpInv'
      OBVIOUS
    <2> USE DEF UdpInv, UdpTypeOK
    <2>1. ASSUME NEW p \in UdpPcbs, New(p) PROVE UdpInv'
      <3>1. Fresh \in Pcb /\ Fresh.port = 0 /\ HasPeer(Fresh) /\ p \notin Used
        BY <2>1 DEF Fresh, Pcb, HasPeer, New, Used
      <3>. QED  BY <2>1, <3>1, PeerChanges DEF New
    <2>2. ASSUME NEW p \in UdpPcbs, NEW ip \in Own \cup {AnyAddr}, NEW port \in KnownPorts \cup {0},
                 Bind(p, ip, port)
          PROVE  UdpInv'
      <3>1. pcb[p] \in Pcb /\ HasPeer(pcb[p]) /\ p \in Used
        BY <2>2 DEF Bind, Used
      <3>. QED  BY <2>2, <3>1, BindsApart DEF Bind
    <2>3. ASSUME NEW p \in UdpPcbs, NEW rip \in Peers, Connect(p, rip) PROVE UdpInv'
      <3> DEFINE q == [pcb[p] EXCEPT !.rip = rip, !.rport = PeerPort, !.conn = TRUE]
      <3>1. pcb[p] \in Pcb /\ p \in Used
        BY <2>3 DEF Connect, Used
      <3>2. q \in Pcb /\ q.conn /\ q.rip = rip /\ q.rport = PeerPort /\ q.ip = pcb[p].ip /\ q.port = pcb[p].port
        BY <3>1 DEF Pcb
      <3>3. HasPeer(q) /\ pcb[p].ip \in Own \cup {AnyAddr}
        BY <3>1, <3>2 DEF HasPeer, Pcb
      <3>4. CASE pcb[p].port = 0
        <4>1. udp_bind(p, pcb[p].ip, 0, q) /\ UNCHANGED ip_addr
          BY <2>3, <3>4 DEF Connect
        <4>. HIDE DEF q
        <4>. QED  BY <3>1, <3>2, <3>3, <4>1, BindsApart
      <3>5. CASE pcb[p].port # 0
        <4>1. pcb' = [pcb EXCEPT ![p] = q] /\ UNCHANGED <<udp_pcbs, udp_port, ip_addr>>
          BY <2>3, <3>5 DEF Connect
        <4>. HIDE DEF q
        <4>. QED  BY <3>1, <3>2, <3>3, <4>1, PeerChanges
      <3>. QED  BY <3>4, <3>5
    <2>4. ASSUME NEW p \in UdpPcbs, Disconnect(p) PROVE UdpInv'
      <3> DEFINE q == [pcb[p] EXCEPT !.rip = AnyAddr, !.rport = 0, !.conn = FALSE]
      <3>1. pcb[p] \in Pcb /\ p \in Used
        BY <2>4 DEF Disconnect, Used
      <3>2. q \in Pcb /\ ~q.conn /\ q.rip = AnyAddr /\ q.rport = 0 /\ q.ip = pcb[p].ip /\ q.port = pcb[p].port
        BY <3>1 DEF Pcb
      <3>3. HasPeer(q)
        BY <3>2 DEF HasPeer
      <3>4. pcb' = [pcb EXCEPT ![p] = q] /\ UNCHANGED <<udp_pcbs, udp_port, ip_addr>>
        BY <2>4 DEF Disconnect
      <3>. HIDE DEF q
      <3>. QED  BY <3>1, <3>2, <3>3, <3>4, PeerChanges
    <2>5. ASSUME NEW p \in UdpPcbs, SendTo(p) PROVE UdpInv'
      <3>1. pcb[p] \in Pcb /\ HasPeer(pcb[p]) /\ p \in Used /\ pcb[p].ip \in Own \cup {AnyAddr}
        BY <2>5 DEF SendTo, Used, Pcb
      <3>. QED  BY <2>5, <3>1, BindsApart DEF SendTo
    <2>6. ASSUME NEW ip \in Own, SetAddress(ip) PROVE UdpInv'
      BY <2>6 DEF SetAddress, ListedIfBound, Apart, HasPeer, Listed, Used, OnceEach
    <2>7. CASE UNCHANGED udpVars
      BY <2>7, StandsStill DEF udpVars
    <2>. QED  BY <2>1, <2>2, <2>3, <2>4, <2>5, <2>6, <2>7, Removes, MovesToFront DEF UdpNext
  <1>. QED  BY <1>1, <1>2, PTL DEF UdpSpec

\* udp_bind never lets two PCBs have the same address and port, and the list
\* that udp_input searches has no PCB twice.
THEOREM PcbsApart == UdpSpec => []OnePerAddress
  <1>1. UdpInv => OnePerAddress
    BY DEF UdpInv, OnePerAddress, OnceEach, ListedIfBound, Apart
  <1>. QED  BY <1>1, UdpInvariance, PTL

\* The PCB that the loops of udp_input choose.
LEMMA Dispatch ==
  ASSUME UdpInv, NEW d \in Datagrams
  PROVE  LET matching == {p \in Listed : LocalMatch(p, d)}
             sender(p) == pcb[p].conn /\ pcb[p].rip = d.src /\ pcb[p].rport = d.sport
             p == Receiver(d)
         IN /\ p = Nobody <=> \A q \in matching : pcb[q].conn /\ ~sender(q)
            /\ p # Nobody =>
                 /\ p \in matching
                 /\ pcb[p].conn => sender(p)
                 /\ ~pcb[p].conn => (d.sport = 0 \/ \A q \in matching : ~sender(q))
  <1> DEFINE matching == {p \in Listed : LocalMatch(p, d)}
             sender(p) == pcb[p].conn /\ pcb[p].rip = d.src /\ pcb[p].rport = d.sport
             p == Receiver(d)
             perfect == {q \in Listed : Perfect(q, d)}
             unconnected == {q \in Listed : Unconnected(q, d)}
  <1>1. \A q \in Listed : pcb[q] \in Pcb /\ HasPeer(pcb[q]) /\ q # Nobody /\ (pcb[q].conn \in BOOLEAN)
    BY UdpAssumption DEF UdpInv, UdpTypeOK, ListedIfBound, Used, Pcb
  <1>2. AnyAddr \notin Peers /\ d.src \in Peers
    BY UdpAssumption DEF Datagrams
  <1>3. UdpTypeOK /\ perfect \subseteq Listed /\ unconnected \subseteq Listed
    BY DEF UdpInv
  <1>4. \A q \in perfect : q \in matching /\ IF pcb[q].conn THEN sender(q) ELSE d.sport = 0
    BY <1>1, <1>2 DEF Perfect, HasPeer
  <1>5. \A q \in unconnected : q \in matching /\ ~pcb[q].conn
    BY DEF Unconnected
  <1>6. \A q \in matching : (sender(q) => q \in perfect) /\ (~pcb[q].conn => q \in unconnected)
    BY DEF Perfect, Unconnected
  <1>7. CASE perfect # {}
    <2>1. p \in perfect
      BY <1>3, <1>7, PlaceIs DEF Receiver
    <2>. QED  BY <1>1, <1>4, <2>1
  <1>8. CASE perfect = {} /\ unconnected # {}
    <2>1. p \in unconnected
      BY <1>3, <1>8, PlaceIs DEF Receiver
    <2>. QED  BY <1>1, <1>5, <1>6, <1>8, <2>1
  <1>9. CASE perfect = {} /\ unconnected = {}
    <2>1. p = Nobody
      BY <1>9 DEF Receiver
    <2>. QED  BY <1>6, <1>9, <2>1
  <1>. QED  BY <1>7, <1>8, <1>9

\* A datagram goes to a PCB of its address and port that is connected to its
\* sender, else to one that is not connected, and to no other.
THEOREM DatagramsToTheirReceiver == UdpSpec => []ToItsReceiver
  <1>1. UdpInv => ToItsReceiver
    BY Dispatch DEF ToItsReceiver
  <1>. QED  BY <1>1, UdpInvariance, PTL

\* What udp_sendto_if sends bears the address the interface has now.
THEOREM ReachedFromHere == UdpSpec => []SentFromHere
  <1>1. SentFromHere
    BY DEF SentFromHere, SourceOf, Stale
  <1> QED  BY <1>1, PTL

\* Neither this device nor another with the same stack answers an answer, and
\* no broadcast is answered.
THEOREM AnswersDieOut == UdpSpec => []AnswersEnd
  <1>1. UdpInv => AnswersEnd
    <2> SUFFICES ASSUME UdpInv,
                        NEW kind \in {"echo", "reply", "error", "udp", "other", "tcp", "rst"},
                        NEW src \in Peers \cup {AnyAddr, Ones, Subnet, Group},
                        NEW dst \in Own \cup {AnyAddr, Ones, Subnet, Group},
                        AnswerTo(ip_addr, FALSE, [kind |-> kind, src |-> src, dst |-> dst]) # Nobody
                 PROVE  /\ src \in Peers /\ dst = ip_addr
                        /\ AnswerTo(src, FALSE,
                             [kind |-> AnswerTo(ip_addr, FALSE, [kind |-> kind, src |-> src, dst |-> dst]),
                              src |-> dst, dst |-> src]) = Nobody
      BY DEF AnswersEnd
    <2>1. ip_addr \in Own
      BY DEF UdpInv, UdpTypeOK
    <2>2. src \in Peers /\ dst = ip_addr
      BY <2>1, UdpAssumption DEF AnswerTo, Accepts, ip_addr_isbroadcast
    <2>3. AnswerTo(ip_addr, FALSE, [kind |-> kind, src |-> src, dst |-> dst]) \in {"reply", "error", "rst"}
      BY DEF AnswerTo
    <2>. QED  BY <2>2, <2>3 DEF AnswerTo
  <1> QED  BY <1>1, UdpInvariance, PTL
=============================================================================
