------------------------------ MODULE RadioCalls ------------------------------
(***************************************************************************)
(* The radio's messages: over the UART and its interrupt (apps/serial.c)   *)
(* into the receive ring, from there by radio_comm (apps/parser.c) to the  *)
(* server and into the state of the call: who calls, who talks, and        *)
(* whether the converter runs.                                             *)
(*                                                                         *)
(* The unit is not the byte but the piece of a line: its keyword, with the *)
(* number of the caller or talker where it carries one, any other text,    *)
(* and the newline.  radio_comm looks for keywords anywhere in what it     *)
(* read, so the pieces of a line between keyword and newline play no part. *)
(* The radio is the environment: it takes a call from ring to end.         *)
(***************************************************************************)
EXTENDS Integers, SequencesExt

CONSTANTS
    Stations,      \* subscriber numbers
    None,          \* no number (an array of zeros)
    FifoSize,      \* receive FIFO of the UART
    RingSize,      \* rxring
    BufSize,       \* buf of radio_comm
    MaxLines,      \* lines the radio sends
    MaxAhead       \* pieces the radio sends ahead of radio_comm

ASSUME RadioAssumption ==
    /\ None \notin Stations
    /\ {FifoSize, RingSize, BufSize, MaxLines, MaxAhead} \subseteq Nat \ {0}

VARIABLES
    radio,         \* the call as the radio sees it
    lines,         \* lines it sent
    wire,          \* sent and not yet received by the UART
    fifo,          \* in the UART
    rxring,
    buf,           \* buf[0 .. nbytes-1] of radio_comm
    call,          \* ser, ssi, ssi2 and whether the converter runs
    sent,          \* all pieces the radio sent
    forwarded,     \* all pieces passed to spudp_string_send
    lost           \* a piece was lost in the UART or the ring

pipe == <<fifo, rxring, buf>>
callsHistory == <<sent, forwarded, lost>>
callsVars == <<radio, lines, wire, pipe, call, callsHistory>>

NL == <<"nl", None>>
Text == <<"text", None>>
Keywords ==
    ({"CTICN", "CTXG"} \X Stations) \cup ({"CTCC", "CDTXC", "CTCR"} \X {None})
Pieces == Keywords \cup {NL, Text}

Idle == [ser |-> "wait", ssi |-> None, ssi2 |-> None, adc |-> FALSE]

CallsInit ==
    /\ radio = Idle
    /\ lines = 0
    /\ wire = <<>>
    /\ fifo = <<>> /\ rxring = <<>> /\ buf = <<>>
    /\ call = Idle
    /\ sent = <<>> /\ forwarded = <<>>
    /\ lost = FALSE

-----------------------------------------------------------------------------
\* What the keywords mean: ser, the stored numbers, ADC_start and ADC_stop.
Bug_Heard(c, piece) ==
    CASE piece[1] = "CTICN" -> [c EXCEPT !.ser = "incoming", !.ssi = piece[2]]
      [] piece[1] = "CTCC"  -> [c EXCEPT !.ser = "established"]
      [] piece[1] = "CTXG"  -> [c EXCEPT !.ser = "ptt", !.ssi2 = piece[2], !.adc = TRUE]
      [] piece[1] = "CDTXC" -> [c EXCEPT !.ser = "established", !.ssi2 = None]
      [] piece[1] = "CTCR"  -> [c EXCEPT !.ser = "wait", !.ssi = None]
      [] OTHER              -> c
Heard(c, piece) ==
    CASE piece[1] = "CTICN" -> [c EXCEPT !.ser = "incoming", !.ssi = piece[2]]
      [] piece[1] = "CTCC"  -> [c EXCEPT !.ser = "established"]
      [] piece[1] = "CTXG"  -> [c EXCEPT !.ser = "ptt", !.ssi2 = piece[2], !.adc = TRUE]
      [] piece[1] = "CDTXC" -> [c EXCEPT !.ser = "established", !.ssi2 = None, !.adc = FALSE]
      [] piece[1] = "CTCR"  -> [c EXCEPT !.ser = "wait", !.ssi = None]
      [] OTHER              -> c

\* The pieces of q, one after the other.
HeardAll(c, q) ==
    LET heard[n \in 0 .. Len(q)] == IF n = 0 THEN c ELSE Heard(heard[n - 1], q[n])
    IN  heard[Len(q)]

\* The radio sends a line when less than MaxAhead is under way.
Say(head) ==
    /\ lines < MaxLines
    /\ Len(wire) + Len(fifo) + Len(rxring) + Len(buf) + 2 <= MaxAhead
    /\ lines' = lines + 1
    /\ wire' = wire \o <<head, NL>>
    /\ sent' = sent \o <<head, NL>>
    /\ UNCHANGED <<pipe, call, forwarded, lost>>

Ring(station) ==
    /\ radio.ser = "wait"
    /\ Say(<<"CTICN", station>>)
    /\ radio' = [radio EXCEPT !.ser = "incoming", !.ssi = station]

Establish ==
    /\ radio.ser = "incoming"
    /\ Say(<<"CTCC", None>>)
    /\ radio' = [radio EXCEPT !.ser = "established"]

\* Push-to-talk goes to a station and is released before anything else.
Press(station) ==
    /\ radio.ser = "established"
    /\ Say(<<"CTXG", station>>)
    /\ radio' = [radio EXCEPT !.ser = "ptt", !.ssi2 = station, !.adc = TRUE]

Release ==
    /\ radio.ser = "ptt"
    /\ Say(<<"CDTXC", None>>)
    /\ radio' = [radio EXCEPT !.ser = "established", !.ssi2 = None, !.adc = FALSE]

End ==
    /\ radio.ser \in {"incoming", "established"}
    /\ Say(<<"CTCR", None>>)
    /\ radio' = Idle

Chatter == Say(Text) /\ UNCHANGED radio

Radio == \/ \E station \in Stations : Ring(station) \/ Press(station)
         \/ Establish \/ Release \/ End \/ Chatter

-----------------------------------------------------------------------------
\* A piece arrives; a full FIFO drops it.
Receive ==
    /\ wire # <<>>
    /\ wire' = Tail(wire)
    /\ IF Len(fifo) < FifoSize
       THEN fifo' = Append(fifo, Head(wire)) /\ UNCHANGED lost
       ELSE lost' = TRUE /\ UNCHANGED fifo
    /\ UNCHANGED <<radio, lines, rxring, buf, call, sent, forwarded>>

\* UART1_IRQHandler, data available or time-out: empties the FIFO into the
\* ring; what does not fit is dropped.
Room(n) == IF n < RingSize - Len(rxring) THEN n ELSE RingSize - Len(rxring)

Bug_UART1_IRQHandler ==
    /\ Len(fifo) = FifoSize
    /\ rxring' = rxring \o SubSeq(fifo, 1, Room(Len(fifo)))
    /\ lost' = (lost \/ Room(Len(fifo)) < Len(fifo))
    /\ fifo' = <<>>
    /\ UNCHANGED <<radio, lines, wire, buf, call, sent, forwarded>>
UART1_IRQHandler ==
    /\ fifo # <<>>
    /\ rxring' = rxring \o SubSeq(fifo, 1, Room(Len(fifo)))
    /\ lost' = (lost \/ Room(Len(fifo)) < Len(fifo))
    /\ fifo' = <<>>
    /\ UNCHANGED <<radio, lines, wire, buf, call, sent, forwarded>>

\* serial_read pops at most what buf has room for.
Readable == IF Len(rxring) < BufSize - Len(buf) THEN Len(rxring) ELSE BufSize - Len(buf)

\* radio_comm: read, and when the last byte is a newline pass everything on
\* and look through it.
Bug_radio_comm ==
    LET got == buf \o SubSeq(rxring, 1, Readable)
    IN  /\ rxring' = SubSeq(rxring, Readable + 1, Len(rxring))
        /\ buf' = got
        /\ IF got # <<>> /\ Last(got) = NL
           THEN /\ forwarded' = forwarded \o got
                /\ call' = HeardAll(call, got)
           ELSE UNCHANGED <<call, forwarded>>
        /\ UNCHANGED <<radio, lines, wire, fifo, sent, lost>>
radio_comm ==
    LET got == buf \o SubSeq(rxring, 1, Readable)
    IN  /\ rxring' = SubSeq(rxring, Readable + 1, Len(rxring))
        /\ IF got # <<>> /\ Last(got) = NL
           THEN /\ forwarded' = forwarded \o got
                /\ call' = HeardAll(call, got)
                /\ buf' = <<>>
           ELSE /\ buf' = got
                /\ UNCHANGED <<call, forwarded>>
        /\ UNCHANGED <<radio, lines, wire, fifo, sent, lost>>

CallsNext == Radio \/ Receive \/ UART1_IRQHandler \/ radio_comm

CallsSpec == CallsInit /\ [][CallsNext]_callsVars

\* The line, the interrupt and the main loop go on; the radio need not.
CallsFairness ==
    WF_callsVars(Receive) /\ WF_callsVars(UART1_IRQHandler) /\ WF_callsVars(radio_comm)

CallsLiveSpec == CallsSpec /\ CallsFairness

-----------------------------------------------------------------------------
Calls == [ser : {"wait", "incoming", "established", "ptt"}, ssi : Stations \cup {None},
          ssi2 : Stations \cup {None}, adc : BOOLEAN]

CallsTypeOK ==
    /\ radio \in Calls
    /\ call \in Calls
    /\ lines \in 0 .. MaxLines
    /\ {wire, sent, forwarded} \subseteq Seq(Pieces)
    /\ fifo \in Seq(Pieces) /\ Len(fifo) <= FifoSize
    /\ rxring \in Seq(Pieces) /\ Len(rxring) <= RingSize
    /\ buf \in Seq(Pieces) /\ Len(buf) <= BufSize
    /\ lost \in BOOLEAN

\* The first place after the given one where the radio sent this piece.
NextAt(place, piece) ==
    LET places == {i \in place + 1 .. Len(sent) : sent[i] = piece}
    IN  IF places = {} THEN Len(sent) + 1 ELSE Min(places)

\* The place of the last piece of q, each put at the first place behind the one
\* before it.
Placed(q) ==
    LET place[n \in 0 .. Len(q)] == IF n = 0 THEN 0 ELSE NextAt(place[n - 1], q[n])
    IN  place[Len(q)]

\* What the server gets is what the radio said, each piece once and in
\* order; pieces may be missing only after the UART or the ring overran.
InOrder ==
    LET seen == forwarded \o buf \o rxring \o fifo \o wire
    IN  IF lost THEN Placed(seen) <= Len(sent) ELSE seen = sent

\* When all that the radio said is through, the device agrees with the radio
\* on the state of the call, on who called and who talks, and the converter
\* runs if and only if somebody talks.
CallFollowsRadio ==
    /\ CallsTypeOK
    /\ (~lost /\ wire \o fifo \o rxring \o buf = <<>>) => call = radio

\* assert(len > 0) in serial_read, called with 256-nbytes (serial.c:69).
RoomToRead == Len(buf) < BufSize

\* All the radio said reaches the server, unless something was lost.
AllForwarded == <>[](lost \/ forwarded = sent)
=============================================================================
