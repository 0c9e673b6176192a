------------------------------ MODULE RadioInit ------------------------------
(***************************************************************************)
(* radio_comm_init (apps/parser.c): five AT commands to the radio, each    *)
(* sent when the answer to the one before has come; anything but OK starts *)
(* the sequence again.  The commands go through the transmit ring          *)
(* (serial_send, apps/serial.c), the answers come back through the receive *)
(* ring in the chunks the UART interrupt makes of them.                    *)
(***************************************************************************)
EXTENDS Integers, Sequences

CONSTANTS
    TxCap,        \* commands txring has room for
    MaxWire,      \* chunks on the line from the radio
    MaxRefused,   \* commands the radio answers with ERROR
    MaxNews,      \* lines the radio sends unasked
    MaxSplits     \* answers the interrupt takes in two parts

ASSUME InitAssumption ==
    /\ {TxCap, MaxWire, MaxRefused, MaxNews, MaxSplits} \subseteq Nat
    /\ TxCap > 0

VARIABLES
    ser,          \* 0 NOINIT, n: CMDn_SENT, 6 ACTIVE_WAIT
    tx,           \* commands in the transmit ring
    line,         \* chunks sent by the radio, not yet in the ring
    rx,           \* chunks in the receive ring
    accepted,     \* commands the radio has answered with OK
    refused,      \* answers ERROR so far
    news,         \* unasked lines so far
    splits        \* answers taken in two parts so far

modem == <<accepted, refused, news, splits>>
setupVars == <<ser, tx, line, rx, modem>>

Commands == 1 .. 5
ActiveWait == 6
Chunks == {"OK", "O", "K", "ERROR", "news"}

SetupInit ==
    /\ ser = 0
    /\ tx = <<>>
    /\ line = <<>>
    /\ rx = <<>>
    /\ accepted = {}
    /\ refused = 0
    /\ news = 0
    /\ splits = 0

-----------------------------------------------------------------------------
\* serial_send returns 0 when the ring has no room; only the first call looks.
serial_send(cmd) == tx' = IF Len(tx) < TxCap THEN Append(tx, cmd) ELSE tx

Start ==
    /\ ser = 0
    /\ Len(tx) < TxCap
    /\ serial_send(1)
    /\ ser' = 1
    /\ UNCHANGED <<line, rx, modem>>

\* The radio carries out a command and answers.
Answer(chunks) == line' = line \o chunks /\ Len(line') <= MaxWire

Accept ==
    /\ tx # <<>>
    /\ tx' = Tail(tx)
    /\ accepted' = accepted \cup {Head(tx)}
    /\ \/ Answer(<<"OK">>) /\ UNCHANGED splits
       \/ splits < MaxSplits /\ Answer(<<"O", "K">>) /\ splits' = splits + 1
    /\ UNCHANGED <<ser, rx, refused, news>>

Refuse ==
    /\ tx # <<>>
    /\ refused < MaxRefused
    /\ tx' = Tail(tx)
    /\ refused' = refused + 1
    /\ Answer(<<"ERROR">>)
    /\ UNCHANGED <<ser, rx, accepted, news, splits>>

News ==
    /\ news < MaxNews
    /\ news' = news + 1
    /\ Answer(<<"news">>)
    /\ UNCHANGED <<ser, tx, rx, accepted, refused, splits>>

\* UART1_IRQHandler puts one chunk into the ring.
Arrive ==
    /\ line # <<>>
    /\ rx' = Append(rx, Head(line))
    /\ line' = Tail(line)
    /\ UNCHANGED <<ser, tx, modem>>

\* What was read ends in OK.  Of a chunk shorter than four bytes the test
\* reads bytes before the buffer, so it may come out either way.
EndsInOK(text) ==
    \/ text[Len(text)] = "OK"
    \/ Len(text) > 1 /\ text[Len(text)] = "K" /\ text[Len(text) - 1] = "O"
MayEndInOK(text) == text = <<"K">>

Bug_Advance == ser' = ser + 1 /\ (IF ser = 4 THEN UNCHANGED tx ELSE serial_send(ser + 1))
Advance == ser' = ser + 1 /\ (IF ser = 5 THEN UNCHANGED tx ELSE serial_send(ser + 1))
Restart == ser' = 1 /\ serial_send(1)

\* One pass of the loop that finds something to read.
Poll ==
    /\ ser \in Commands
    /\ rx # <<>>
    /\ rx' = <<>>
    /\ \/ (EndsInOK(rx) \/ MayEndInOK(rx)) /\ Advance
       \/ ~EndsInOK(rx) /\ Restart
    /\ UNCHANGED <<line, modem>>

SetupNext == Start \/ Accept \/ Refuse \/ News \/ Arrive \/ Poll

SetupSpec == SetupInit /\ [][SetupNext]_setupVars

\* The device runs and the radio answers.
SetupFairness ==
    /\ WF_setupVars(Start) /\ WF_setupVars(Arrive) /\ WF_setupVars(Poll)
    /\ WF_setupVars(Accept \/ Refuse)

SetupLiveSpec == SetupSpec /\ SetupFairness

-----------------------------------------------------------------------------
SetupTypeOK ==
    /\ ser \in 0 .. ActiveWait
    /\ tx \in Seq(Commands) /\ Len(tx) <= TxCap
    /\ line \in Seq(Chunks) /\ Len(line) <= MaxWire
    /\ rx \in Seq(Chunks)
    /\ accepted \subseteq Commands
    /\ refused \in 0 .. MaxRefused
    /\ news \in 0 .. MaxNews
    /\ splits \in 0 .. MaxSplits

\* While radio_comm_init waits there is something to come: a command under
\* way to the radio or an answer under way back.  It has no time-out, so it
\* depends on this.
NeverWaitsForNothing == ser \in Commands => tx \o line \o rx # <<>>

\* When radio_comm_init is done the radio has accepted all five commands
\* ("we received OK", parser.c:143), whatever it refused before.  This needs a
\* radio that answers in one piece and says nothing unasked: such a line, or
\* half an answer, restarts the sequence with an answer still to come, which
\* then counts for another command.
Configured ==
    (ser = ActiveWait /\ news = 0 /\ splits = 0) => accepted = Commands

\* If the radio stops refusing, splitting answers and sending lines unasked,
\* radio_comm_init comes to an end, whatever answers are still under way.
ComesToAnEnd == <>(ser = ActiveWait)
=============================================================================
