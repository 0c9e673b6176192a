----------------------------- MODULE AdcCapture -----------------------------
(***************************************************************************)
(* Audio capture: src/apps/adc.c, the calls parser.c makes to it and the   *)
(* consumer at the end of the main loop (roip.c).                          *)
(*                                                                         *)
(* The interrupt handler fills one of two buffers, exchanges them when the *)
(* block is full and counts the block; the main loop sees the count,       *)
(* encodes the other buffer, sends it and sets the count back to 0.  The   *)
(* handler can run between any two steps of the main loop, also between    *)
(* the reads of the encoder, and starts the next conversion itself, by the *)
(* same ADC_start the main loop calls when a talker is granted.            *)
(*                                                                         *)
(* A sample is its number, in the order the handler stored them.           *)
(***************************************************************************)
EXTENDS Integers, Sequences

CONSTANTS
    Block,     \* BLOCK_SIZE, 640 in the code
    CountMod,  \* n_conv_finished wraps here: 2^8
    MaxLag,    \* samples the handler may take while a block is waiting
    MaxTaken   \* bound on the samples of a behaviour

ASSUME AdcAssumption ==
    /\ Block \in Nat \ {0}
    /\ CountMod \in Nat /\ CountMod > 1
    /\ MaxLag \in Nat
    /\ MaxTaken \in Nat

VARIABLES
    block_fill,       \* buffer the handler writes
    block_result,     \* buffer the main loop may read
    buf,              \* the contents of x1 and x2
    nSamples,         \* samples in block_fill
    n_conv_finished,  \* blocks finished and not yet served
    inten,            \* the channel's bit in ADC INTEN
    nvic,             \* ADC_IRQn enabled in the NVIC
    busy,             \* a conversion runs
    done,             \* DONE: the data register holds an unread sample
    pc,               \* where the main loop is
    samples,          \* the argument of spudp_send
    coded,            \* samples the encoder has read of this block
    talk,             \* the last of ADC_start/ADC_stop to return was ADC_start
    lag,              \* samples taken since the oldest waiting block finished
    taken, delivered, packet   \* as in AudioStream

hardware == <<inten, nvic, busy, done>>
capture  == <<block_fill, block_result, buf, nSamples>>
encoder  == <<samples, coded>>
adcHistory  == <<taken, lag>>
output   == <<delivered, packet>>
adcVars == <<hardware, capture, n_conv_finished, pc, encoder, talk, adcHistory, output>>

Buffers == {1, 2}

-----------------------------------------------------------------------------
\* ADC_init has run: nothing is converting, interrupts of the ADC are off at
\* the NVIC and the channel's are on.
AdcInit ==
    /\ block_fill = 1
    /\ block_result = 2
    /\ buf = [b \in Buffers |-> [i \in 1 .. Block |-> 0]]
    /\ nSamples = 0
    /\ n_conv_finished = 0
    /\ inten = TRUE
    /\ nvic = FALSE
    /\ busy = FALSE
    /\ done = FALSE
    /\ pc = "loop"
    /\ samples = 2
    /\ coded = <<>>
    /\ talk = FALSE
    /\ lag = 0
    /\ taken = 0
    /\ delivered = 0
    /\ packet = [i \in 1 .. Block |-> 0]

-----------------------------------------------------------------------------
\* The converter ends a conversion.
Convert ==
    /\ busy
    /\ busy' = FALSE
    /\ done' = TRUE
    /\ UNCHANGED <<inten, nvic, capture, n_conv_finished, pc, encoder, talk, adcHistory, output>>

\* The interrupt is taken.  A disable in the NVIC takes effect a little after
\* the store, so the handler may still run once inside ADC_stop.
InterruptTaken == inten /\ done /\ (nvic \/ pc = "stopping")

\* The main loop serves a block before the handler has taken MaxLag samples
\* more; MaxLag is what the environment and the rest of the loop allow.
InTime == n_conv_finished # 0 => lag < MaxLag

\* The handler begins with ADC_start: the next conversion is started and its
\* interrupt enabled.
Bug_RestartLost == inten' = TRUE /\ nvic' = TRUE /\ busy' = busy
Restart     == inten' = TRUE /\ nvic' = TRUE /\ busy' = TRUE

\* The sample being stored fills the block.
BlockFull     == nSamples + 1 >= Block

\* The buffer the handler fills next.
NextFill     == IF BlockFull THEN block_result ELSE block_fill

\* ADC_IRQHandler: restart the converter, then store the sample; a full block
\* is exchanged for the other buffer and counted.
ADC_IRQHandler ==
    /\ InterruptTaken
    /\ InTime
    /\ taken < MaxTaken
    /\ Restart
    /\ done' = FALSE
    /\ taken' = taken + 1
    /\ buf' = [buf EXCEPT ![block_fill][nSamples + 1] = taken + 1]
    /\ nSamples' = IF BlockFull THEN 0 ELSE nSamples + 1
    /\ block_fill' = NextFill
    /\ block_result' = IF BlockFull THEN block_fill ELSE block_result
    /\ n_conv_finished' = IF ~BlockFull THEN n_conv_finished
                          ELSE IF n_conv_finished + 1 = CountMod THEN 0
                          ELSE n_conv_finished + 1
    /\ lag' = IF n_conv_finished = 0 THEN 0 ELSE lag + 1
    /\ UNCHANGED <<pc, encoder, talk, output>>

-----------------------------------------------------------------------------
\* radio_comm, a talker is granted (CTXG): ADC_start.  Interrupts are off up
\* to the enable in the NVIC.
ADC_start ==
    /\ pc = "loop"
    /\ inten' = TRUE
    /\ busy' = TRUE
    /\ pc' = "starting"
    /\ UNCHANGED <<nvic, done, capture, n_conv_finished, encoder, talk, adcHistory, output>>

ADC_start_NVIC ==
    /\ pc = "starting"
    /\ nvic' = TRUE
    /\ talk' = TRUE
    /\ pc' = "loop"
    /\ UNCHANGED <<inten, busy, done, capture, n_conv_finished, encoder, adcHistory, output>>

\* radio_comm, the talker ceased (CDTXC): ADC_stop.
ADC_stop ==
    /\ pc = "loop"
    /\ nvic' = FALSE
    /\ pc' = "stopping"
    /\ UNCHANGED <<inten, busy, done, capture, n_conv_finished, encoder, talk, adcHistory, output>>

ADC_stop_channel ==
    /\ pc = "stopping"
    /\ inten' = FALSE
    /\ talk' = FALSE
    /\ pc' = "loop"
    /\ UNCHANGED <<nvic, busy, done, capture, n_conv_finished, encoder, adcHistory, output>>

-----------------------------------------------------------------------------
\* The main loop finds the count not 0 and calls spudp_send(.., block_result, ..).
Bug_CheckFinishedTwo ==
    /\ pc = "loop"
    /\ n_conv_finished > 1
    /\ pc' = "call"
    /\ UNCHANGED <<hardware, capture, n_conv_finished, encoder, talk, adcHistory, output>>
CheckFinished ==
    /\ pc = "loop"
    /\ n_conv_finished # 0
    /\ pc' = "call"
    /\ UNCHANGED <<hardware, capture, n_conv_finished, encoder, talk, adcHistory, output>>

CallSend ==
    /\ pc = "call"
    /\ samples' = block_result
    /\ coded' = <<>>
    /\ pc' = "encode"
    /\ UNCHANGED <<hardware, capture, n_conv_finished, talk, adcHistory, output>>

\* speex_encode_int reads the next sample through the pointer it was given.
Encode ==
    /\ pc = "encode"
    /\ Len(coded) < Block
    /\ coded' = Append(coded, buf[samples][Len(coded) + 1])
    /\ UNCHANGED <<hardware, capture, n_conv_finished, pc, samples, talk, adcHistory, output>>

\* All frames are encoded: the packet goes to udp_send, which may drop it, and
\* spudp_send returns.
Send ==
    /\ pc = "encode"
    /\ Len(coded) = Block
    /\ packet' = [i \in 1 .. Block |-> coded[i]]
    /\ delivered' = delivered + Block
    /\ pc' = "clear"
    /\ UNCHANGED <<hardware, capture, n_conv_finished, encoder, talk, adcHistory>>

\* n_conv_finished = 0
Bug_ClearMissing ==
    /\ pc = "clear"
    /\ pc' = "loop"
    /\ UNCHANGED <<hardware, capture, n_conv_finished, encoder, talk, adcHistory, output>>
Clear ==
    /\ pc = "clear"
    /\ n_conv_finished' = 0
    /\ pc' = "loop"
    /\ UNCHANGED <<hardware, capture, encoder, talk, adcHistory, output>>

Start   == ADC_start \/ ADC_start_NVIC
Stop    == ADC_stop \/ ADC_stop_channel
Consume == CheckFinished \/ CallSend \/ Encode \/ Send \/ Clear

AdcNext == Convert \/ ADC_IRQHandler \/ Start \/ Stop \/ Consume

AdcSpec == AdcInit /\ [][AdcNext]_adcVars

\* The main loop goes on: the steps of a block follow one another, and the
\* check comes round however often the radio starts and stops the converter.
AdcFairness ==
    /\ SF_adcVars(CheckFinished)
    /\ WF_adcVars(Consume \/ ADC_start_NVIC \/ ADC_stop_channel)

AdcLiveSpec == AdcSpec /\ AdcFairness

-----------------------------------------------------------------------------
Stream == INSTANCE AudioStream

AdcTypeOK ==
    /\ block_fill \in Buffers
    /\ block_result \in Buffers \ {block_fill}
    /\ buf \in [Buffers -> [1 .. Block -> Nat]]
    /\ nSamples \in 0 .. Block - 1
    /\ n_conv_finished \in 0 .. CountMod - 1
    /\ <<inten, nvic, busy, done, talk>> \in [1 .. 5 -> BOOLEAN]
    /\ pc \in {"loop", "starting", "stopping", "call", "encode", "clear"}
    /\ samples \in Buffers
    /\ coded \in Seq(Nat) /\ Len(coded) <= Block
    /\ lag \in Nat
    /\ taken \in Nat
    /\ delivered \in Nat
    /\ packet \in [1 .. Block -> Nat]

\* The packets are the blocks the converter produced, complete, in order, none
\* lost and none twice: the capture path implements AudioStream.
StreamSafety == Stream!Init /\ [][Stream!Next]_(Stream!vars)

\* A block that is complete is sent in the end (roip.c:213-219).
StreamDelivered == Stream!Live

\* The encoder reads the buffer the handler is not filling: "two buffers, one
\* for filling from adc the other for lwip process" (adc.c:18-19).
TwoBuffers == pc = "encode" => samples # block_fill

\* Once ADC_stop has returned no interrupt of the converter is possible until
\* the next ADC_start, although the handler it races with calls ADC_start
\* itself; and between them sampling never stalls: a conversion runs or its
\* sample waits for the handler.
QuietWhenStopped == (~talk /\ pc # "starting" /\ pc # "stopping") => ~(inten /\ nvic)
AliveWhenTalking == (talk /\ pc # "stopping") => inten /\ nvic /\ (busy \/ done)
ConverterFollowsTalk == QuietWhenStopped /\ AliveWhenTalking
=============================================================================
