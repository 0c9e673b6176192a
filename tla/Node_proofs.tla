----------------------------- MODULE Node_proofs -----------------------------
(***************************************************************************)
(* Proofs about the device around the voice: the stored configuration, the *)
(* start of the radio, and its messages; and about what a host does for    *)
(* its address and its groups: the DHCP client uses no address that the    *)
(* server does not keep for it, AutoIP no address that another host on the *)
(* link has, and IGMP reports every group in time.                         *)
(***************************************************************************)
EXTENDS FlashConfig, RadioInit, RadioCalls, Dhcp, Autoip, Igmp, Lemmas, FiniteSetTheorems

-----------------------------------------------------------------------------
(* The stored configuration, the start of the radio, its messages *)

\* write_flash runs for one of two callers, each in its own state of http_recv.
Callers ==
    /\ pc = "idle" <=> job = "none"
    /\ job = "config" => st = "config_changed"
    /\ job = "password" => st = "pass_sent"

\* A sector that is not blank holds what was last copied to it.
Sector == flash \in {Blank, saved}

\* Nobody is logged in on a blank sector.
Session == (st = "pass_sent" /\ pc = "idle") => flash_buff = flash /\ flash # Blank

\* What is about to be copied differs from the last copy in one half only.
OneHalf ==
    pc \in {"erase", "copy"} =>
        /\ job = "config" => flash_buff.pass = saved.pass
        /\ job = "password" => flash_buff.addr = saved.addr

IInv == ConfigTypeOK /\ Callers /\ Sector /\ Session /\ OneHalf

LEMMA InitIInv == ConfigInit => IInv
  <1> SUFFICES ASSUME ConfigInit PROVE IInv
    OBVIOUS
  <1>1. flash \in Contents
    BY DEF ConfigInit, Blank, Config, Contents
  <1>2. inUse \in Consistent \cup {Default, Erased}
    BY DEF ConfigInit, Usable
  <1>3. kept \subseteq Addresses \cup {Erased} /\ flash_buff = flash /\ saved = flash
    BY <1>1 DEF ConfigInit, Contents
  <1>4. /\ st = "disconnected" /\ page = "none" /\ pc = "idle" /\ job = "none"
        /\ now \in Clock /\ sysreset_req = 0 /\ late = 0 /\ requests = 0 /\ faulted = FALSE
    BY DEF ConfigInit
  <1>5. 0 \in Clock /\ 0 \in 0 .. MaxPass /\ 0 \in 0 .. MaxRequests
    BY ConfigAssumption DEF Clock
  <1>6. ConfigTypeOK
    BY <1>1, <1>2, <1>3, <1>4, <1>5 DEF ConfigTypeOK
  <1> QED
    BY <1>6 DEF IInv, ConfigInit, Callers, Sector, Session, OneHalf

\* A start with any contents of the sector that fit its type.
LEMMA BootIInv ==
  ASSUME IInv, Boot(flash), UNCHANGED <<flash, saved, kept>>, faulted' \in BOOLEAN
  PROVE  IInv'
  <1>1. flash \in Contents
    BY DEF IInv, ConfigTypeOK
  <1>2. inUse' \in Consistent \cup {Default, Erased}
    BY DEF Boot, Usable
  <1>3. ConfigTypeOK'
    BY <1>1, <1>2, ConfigAssumption DEF Boot, IInv, ConfigTypeOK, Clock
  <1> QED
    BY <1>3 DEF IInv, Boot, Callers, Sector, Session, OneHalf, Blank, Config

LEMMA StepIInv == IInv /\ [ConfigNext]_configVars => IInv'
  <1> SUFFICES ASSUME IInv, [ConfigNext]_configVars PROVE IInv'
    OBVIOUS
  <1> USE DEF IInv
  <1>1. CASE PowerLoss
    BY <1>1, BootIInv DEF PowerLoss, ConfigTypeOK
  <1>2. CASE SystemReset
    BY <1>2, BootIInv DEF SystemReset, ConfigTypeOK, history
  <1>3. CASE Tick
    BY <1>3, ConfigAssumption
    DEF Tick, ConfigTypeOK, Callers, Sector, Session, OneHalf, Clock, store, client, writing, history, Blank, Config
  <1>4. CASE Http
    <2>1. CASE GetRoot
      BY <2>1, ConfigAssumption
      DEF GetRoot, Request, Serve, ConfigTypeOK, Callers, Sector, Session, OneHalf, Clock, time, writing,
          history, Blank, Config
    <2>2. CASE ChangePass
      BY <2>2, ConfigAssumption
      DEF ChangePass, Request, Serve, ConfigTypeOK, Callers, Sector, Session, OneHalf, Clock, time, writing,
          history, Blank, Config
    <2>3. ASSUME NEW pass \in Passwords, Login(pass) PROVE IInv'
      <3>1. st' = "pass_sent" => flash # Blank
        BY <2>3, ConfigAssumption DEF Login, Blank, Config
      <3> QED
        BY <2>3, <3>1, ConfigAssumption
        DEF Login, Request, Serve, ConfigTypeOK, Callers, Sector, Session, OneHalf, Clock, time, writing, history
    <2>4. ASSUME NEW addr \in Addresses, IpSet(addr) PROVE IInv'
      <3>1. CASE st = "pass_sent"
        <4>1. flash_buff' = [flash_buff EXCEPT !.addr = addr] /\ flash_buff = saved
          BY <2>4, <3>1 DEF IpSet, Request, Session, Sector
        <4>2. flash_buff' \in Contents /\ flash_buff'.pass = saved.pass
          BY <4>1 DEF ConfigTypeOK, Contents
        <4> QED
          BY <2>4, <3>1, <4>2, ConfigAssumption
          DEF IpSet, StartWrite, Request, Serve, ConfigTypeOK, Callers, Sector, Session, OneHalf, Clock, time,
              history, Blank, Config
      <3>2. CASE st # "pass_sent"
        BY <2>4, <3>2, ConfigAssumption
        DEF IpSet, Request, Serve, ConfigTypeOK, Callers, Sector, Session, OneHalf, Clock, time, writing,
            history, Blank, Config
      <3> QED
        BY <3>1, <3>2
    <2>5. ASSUME NEW new \in Passwords \cup {<<>>}, NEW confirm \in Passwords \cup {<<>>},
                 PassSet(new, confirm)
          PROVE  IInv'
      <3>1. CASE st = "pass_sent" /\ new # <<>> /\ Agree(new, confirm)
        <4>1. flash_buff' = [flash_buff EXCEPT !.pass = new] /\ flash_buff = saved
          BY <2>5, <3>1 DEF PassSet, Request, Session, Sector
        <4>2. flash_buff' \in Contents /\ flash_buff'.addr = saved.addr
          BY <3>1, <4>1 DEF ConfigTypeOK, Contents
        <4> QED
          BY <2>5, <3>1, <4>2, ConfigAssumption
          DEF PassSet, StartWrite, Request, Serve, ConfigTypeOK, Callers, Sector, Session, OneHalf, Clock, time,
              history, Blank, Config
      <3>2. CASE ~(st = "pass_sent" /\ new # <<>> /\ Agree(new, confirm))
        <4>1. /\ Request /\ st' = "disconnected" /\ page' \in {"wrong", "pass_error"}
              /\ UNCHANGED <<flash_buff, writing, sysreset_req>>
          BY <2>5, <3>2 DEF PassSet, Serve
        <4> QED
          BY <4>1, ConfigAssumption
          DEF Request, ConfigTypeOK, Callers, Sector, Session, OneHalf, Clock, time, writing, history, Blank, Config
      <3> QED
        BY <3>1, <3>2
    <2> QED
      BY <1>4, <2>1, <2>2, <2>3, <2>4, <2>5 DEF Http
  <1>5. CASE Erase
    <2>1. Blank \in Contents
      BY DEF Blank, Config, Contents
    <2> QED
      BY <1>5, <2>1 DEF Erase, ConfigTypeOK, Callers, Sector, Session, OneHalf, client, time, history
  <1>6. CASE Copy
    <2>1. Blank \in Contents
      BY DEF Blank, Config, Contents
    <2>2. flash' \in Contents /\ saved' \in Contents /\ flash' \in {Blank, saved'}
      BY <1>6, <2>1 DEF Copy, Copied, ConfigTypeOK, Sector
    <2>3. flash_buff.addr \in Addresses \cup {Erased}
      BY DEF ConfigTypeOK, Contents
    <2> QED
      BY <1>6, <2>2, <2>3 DEF Copy, ConfigTypeOK, Callers, Sector, Session, OneHalf, client, time
  <1>7. CASE Return
    BY <1>7 DEF Return, ConfigTypeOK, Callers, Sector, Session, OneHalf, store, time, history, Blank, Config
  <1>8. CASE Pass
    BY <1>8, ConfigAssumption
    DEF Pass, ConfigTypeOK, Callers, Sector, Session, OneHalf, store, client, writing, history, Blank, Config
  <1>9. CASE UNCHANGED configVars
    BY <1>9
    DEF configVars, ConfigTypeOK, Callers, Sector, Session, OneHalf, store, client, writing, time, history, Blank, Config
  <1> QED
    BY <1>1, <1>2, <1>3, <1>4, <1>5, <1>6, <1>7, <1>8, <1>9 DEF ConfigNext, WriteFlash

LEMMA Invariance == ConfigSpec => []IInv
  BY InitIInv, StepIInv, PTL DEF ConfigSpec

\* Type correctness of the configuration.
THEOREM ConfigTypeCorrect == ConfigSpec => []ConfigTypeOK
  BY Invariance, PTL DEF IInv

\* A logged-in client changes a copy that is what the sector holds
\* (get_flash in the handler of pass_sent.cgi), whatever failed before.
THEOREM FreshCopy == ConfigSpec => []CopyIsFresh
  <1>1. IInv => CopyIsFresh
    BY DEF IInv, Session, CopyIsFresh
  <1> QED
    BY Invariance, <1>1, PTL

\* Only Copy touches what was saved.
LEMMA StepOneHalf ==
  IInv /\ [ConfigNext]_configVars =>
      [ /\ (job = "config" /\ saved' # saved) => saved'.pass = saved.pass
        /\ (job = "password" /\ saved' # saved) => saved'.addr = saved.addr ]_configVars
  <1>1. IInv /\ Copy => /\ job = "config" => saved'.pass = saved.pass
                        /\ job = "password" => saved'.addr = saved.addr
    BY DEF Copy, IInv, OneHalf
  <1>2. [ConfigNext]_configVars /\ ~Copy => saved' = saved
    BY DEF ConfigNext, PowerLoss, SystemReset, Tick, Http, GetRoot, ChangePass, Login, IpSet, PassSet, Request,
           WriteFlash, Erase, Return, Pass, history, configVars
  <1> QED
    BY <1>1, <1>2

\* ip_set.cgi keeps the password and pass_set.cgi the addresses, across
\* failing writes, power losses and resets.
THEOREM OneHalfChanges == ConfigSpec => ChangesOneHalf
  BY Invariance, StepOneHalf, PTL DEF ConfigSpec, ChangesOneHalf

-----------------------------------------------------------------------------
\* Without faults the sector is blank only between erase and copy; with them
\* it holds nothing but addresses that were given to the flash routines.
Whole ==
    /\ flash.addr \in kept \cup {Erased}
    /\ inUse \in {Default, Erased} \cup kept
    /\ ~faulted => /\ inUse \in {Default} \cup kept
                   /\ pc = "copy" => flash = Blank
                   /\ pc # "copy" => flash.addr \in kept

\* The addresses in use (main before its loop) are the default ones, those the
\* device came with or those a user saved, or erased ones after a fault.
THEOREM InUse == ConfigSpec => []InUseWasSet
  <1>1. ConfigInit => Whole
    BY DEF ConfigInit, Whole
  <1>2. Whole /\ [ConfigNext]_configVars => Whole'
    <2> SUFFICES ASSUME Whole, [ConfigNext]_configVars PROVE Whole'
      OBVIOUS
    <2>0. Blank.addr = Erased
      BY DEF Blank, Config
    <2>1. CASE SystemReset \/ PowerLoss
      BY <2>1 DEF SystemReset, PowerLoss, Boot, Whole, history
    <2>2. CASE Erase
      BY <2>0, <2>2 DEF Erase, Whole
    <2>3. CASE Copy
      BY <2>0, <2>3 DEF Copy, Copied, Whole
    <2>4. CASE Tick \/ Pass \/ Return \/ UNCHANGED configVars
      BY <2>4 DEF Tick, Pass, Return, configVars, store, writing, history, Whole
    <2>5. CASE Http
      <3>1. /\ UNCHANGED <<flash, inUse, kept, faulted>>
            /\ pc = "idle" /\ pc' \in {"idle", "erase"}
        BY <2>5 DEF Http, GetRoot, ChangePass, Login, IpSet, PassSet, StartWrite, Request, writing, history
      <3> QED
        BY <3>1 DEF Whole
    <2> QED
      BY <2>1, <2>2, <2>3, <2>4, <2>5 DEF ConfigNext, WriteFlash
  <1>3. Whole => InUseWasSet
    BY DEF Whole, InUseWasSet
  <1> QED
    BY <1>1, <1>2, <1>3, PTL DEF ConfigSpec

-----------------------------------------------------------------------------
LEMMA InitTypeOK == SetupInit => SetupTypeOK
  BY InitAssumption DEF SetupInit, SetupTypeOK, ActiveWait

LEMMA StepTypeOK == SetupTypeOK /\ [SetupNext]_setupVars => SetupTypeOK'
  <1> SUFFICES ASSUME SetupTypeOK, [SetupNext]_setupVars PROVE SetupTypeOK'
    OBVIOUS
  <1> USE InitAssumption DEF SetupTypeOK, ActiveWait, Commands
  <1>1. ASSUME NEW cmd \in Commands, serial_send(cmd) PROVE tx' \in Seq(Commands) /\ Len(tx') <= TxCap
    BY <1>1, SMTT(30) DEF serial_send
  <1>2. CASE Start
    <2>1. tx' \in Seq(Commands) /\ Len(tx') <= TxCap
      BY <1>1, <1>2 DEF Start
    <2> QED
      BY <1>2, <2>1 DEF Start, modem
  <1>3. CASE Accept
    <2>1. line' \in Seq(Chunks) /\ Len(line') <= MaxWire
      <3>1. <<"OK">> \in Seq(Chunks) /\ <<"O", "K">> \in Seq(Chunks)
        BY DEF Chunks
      <3>2. PICK chunks \in {<<"OK">>, <<"O", "K">>} : Answer(chunks)
        BY <1>3 DEF Accept
      <3>3. chunks \in Seq(Chunks)
        BY <3>1, <3>2
      <3>4. line \o chunks \in Seq(Chunks)
        BY <3>3
      <3> QED
        BY <3>2, <3>4 DEF Answer
    <2>2. splits' \in 0 .. MaxSplits
      BY <1>3 DEF Accept
    <2>3. Head(tx) \in Commands /\ Tail(tx) \in Seq(Commands) /\ Len(Tail(tx)) <= TxCap
      BY <1>3, SMTT(30) DEF Accept
    <2> QED
      BY <1>3, <2>1, <2>2, <2>3 DEF Accept
  <1>4. CASE Refuse
    <2>1. line' \in Seq(Chunks) /\ Len(line') <= MaxWire
      BY <1>4 DEF Refuse, Answer, Chunks
    <2> QED
      BY <1>4, <2>1, SMTT(30) DEF Refuse
  <1>5. CASE News
    <2>1. line' \in Seq(Chunks) /\ Len(line') <= MaxWire
      BY <1>5 DEF News, Answer, Chunks
    <2> QED
      BY <1>5, <2>1 DEF News
  <1>6. CASE Arrive
    BY <1>6, SMTT(30) DEF Arrive, modem
  <1>7. CASE Poll
    <2>1. CASE Advance
      <3>1. tx' \in Seq(Commands) /\ Len(tx') <= TxCap
        BY <1>1, <1>7, <2>1, SMTT(30) DEF Advance, Poll
      <3> QED
        BY <1>7, <2>1, <3>1 DEF Poll, Advance, modem
    <2>2. CASE Restart
      <3>1. tx' \in Seq(Commands) /\ Len(tx') <= TxCap
        BY <1>1, <2>2 DEF Restart
      <3> QED
        BY <1>7, <2>2, <3>1 DEF Poll, Restart, modem
    <2> QED
      BY <1>7, <2>1, <2>2 DEF Poll
  <1>8. CASE UNCHANGED setupVars
    BY <1>8 DEF setupVars, modem
  <1> QED
    BY <1>2, <1>3, <1>4, <1>5, <1>6, <1>7, <1>8 DEF SetupNext

\* Type correctness of the start of the radio.
THEOREM SetupTypeCorrect == SetupSpec => []SetupTypeOK
  BY InitTypeOK, StepTypeOK, PTL DEF SetupSpec

-----------------------------------------------------------------------------
\* The same by lengths, which the provers handle better.
Pending == ser \in Commands => Len(tx) + Len(line) + Len(rx) > 0

LEMMA StepPending == SetupTypeOK /\ Pending /\ [SetupNext]_setupVars => Pending'
  <1> SUFFICES ASSUME SetupTypeOK, Pending, [SetupNext]_setupVars PROVE Pending'
    OBVIOUS
  <1> USE InitAssumption DEF SetupTypeOK, Pending, Commands, ActiveWait
  <1>1. ASSUME NEW cmd, serial_send(cmd) PROVE Len(tx') > 0
    BY <1>1 DEF serial_send
  <1>2. CASE Start
    BY <1>1, <1>2 DEF Start, modem
  <1>3. CASE Accept
    <2>1. Len(line') > 0
      BY <1>3 DEF Accept, Answer
    <2>2. Len(tx') \in Nat /\ Len(rx') \in Nat
      BY <1>3 DEF Accept
    <2> QED
      BY <2>1, <2>2
  <1>4. CASE Refuse
    <2>1. Len(line') > 0
      BY <1>4 DEF Refuse, Answer
    <2>2. Len(tx') \in Nat /\ Len(rx') \in Nat
      BY <1>4 DEF Refuse
    <2> QED
      BY <2>1, <2>2
  <1>5. CASE News
    <2>1. Len(line') > 0
      BY <1>5 DEF News, Answer
    <2>2. Len(tx') \in Nat /\ Len(rx') \in Nat
      BY <1>5 DEF News
    <2> QED
      BY <2>1, <2>2
  <1>6. CASE Arrive
    <2>1. Len(rx') > 0
      BY <1>6 DEF Arrive
    <2>2. Len(tx') \in Nat /\ Len(line') \in Nat
      BY <1>6 DEF Arrive
    <2> QED
      BY <2>1, <2>2
  <1>7. CASE Poll
    <2>1. ser' \in Commands => Len(tx') > 0
      BY <1>1, <1>7 DEF Poll, Advance, Restart
    <2>2. Len(line') \in Nat /\ Len(rx') \in Nat
      BY <1>7 DEF Poll
    <2> QED
      BY <2>1, <2>2
  <1>8. CASE UNCHANGED setupVars
    BY <1>8 DEF setupVars, modem
  <1> QED
    BY <1>2, <1>3, <1>4, <1>5, <1>6, <1>7, <1>8 DEF SetupNext

\* The loop of radio_comm_init, which has no time-out, never waits for an
\* answer nobody owes, whatever the radio says and however it is split.
THEOREM NeverStuck == SetupSpec => []NeverWaitsForNothing
  <1>1. SetupInit => Pending
    BY DEF SetupInit, Pending, Commands
  <1>2. SetupTypeOK /\ Pending => NeverWaitsForNothing
    <2> SUFFICES ASSUME SetupTypeOK, Pending, ser \in Commands, tx \o line \o rx = <<>> PROVE FALSE
      BY DEF NeverWaitsForNothing
    <2>1. tx \o line \in Seq(Commands \cup Chunks) /\ Len(tx \o line) = Len(tx) + Len(line)
      BY DEF SetupTypeOK
    <2>2. Len((tx \o line) \o rx) = Len(tx) + Len(line) + Len(rx)
      BY <2>1 DEF SetupTypeOK
    <2> QED
      BY <2>2 DEF Pending
  <1> QED
    BY InitTypeOK, StepTypeOK, StepPending, <1>1, <1>2, PTL DEF SetupSpec

-----------------------------------------------------------------------------
\* With whole answers and no unasked lines one thing is under way at a time:
\* the command of this state, its answer on the line, or its answer read.
CommandOut == Len(tx) = 1 /\ tx[1] = ser /\ Len(line) = 0 /\ Len(rx) = 0
AnswerOut  == Len(tx) = 0 /\ Len(line) = 1 /\ Len(rx) = 0 /\ line[1] \in {"OK", "ERROR"}
                /\ (line[1] = "OK" => ser \in accepted)
AnswerIn   == Len(tx) = 0 /\ Len(line) = 0 /\ Len(rx) = 1 /\ rx[1] \in {"OK", "ERROR"}
                /\ (rx[1] = "OK" => ser \in accepted)

Turn ==
    /\ ser = 0 => Len(tx) = 0 /\ Len(line) = 0 /\ Len(rx) = 0
    /\ ser \in Commands => CommandOut \/ AnswerOut \/ AnswerIn
    /\ ser = ActiveWait => Len(tx) = 0 /\ Len(line) = 0 /\ Len(rx) = 0
    /\ \A cmd \in Commands : cmd < ser => cmd \in accepted

\* That holds as long as no answer was split and no line came unasked.
Plain == news = 0 /\ splits = 0

\* Without split answers and unasked lines radio_comm_init ends only after
\* the radio accepted every command, however often it refused before.
THEOREM ConfiguredAtTheEnd == SetupSpec => []Configured
  <1>1. SetupInit => (Plain => Turn)
    BY DEF SetupInit, Turn, Commands, ActiveWait
  <1>2. SetupTypeOK /\ (Plain => Turn) /\ [SetupNext]_setupVars => (Plain => Turn)'
    <2> SUFFICES ASSUME SetupTypeOK, Plain => Turn, [SetupNext]_setupVars, Plain' PROVE Turn'
      OBVIOUS
    <2> USE InitAssumption DEF SetupTypeOK, Commands, ActiveWait
    <2>0. Plain /\ Turn /\ UNCHANGED <<news, splits>>
      BY DEF SetupNext, Start, Accept, Refuse, News, Arrive, Poll, setupVars, modem, Plain
    <2>1. CASE Start
      <3>1. Len(tx') = 1 /\ tx'[1] = 1
        BY <2>0, <2>1 DEF Start, serial_send, Turn
      <3> QED
        BY <2>0, <2>1, <3>1 DEF Start, Turn, modem, CommandOut
    <2>2. CASE Accept
      <3>1. ser \in Commands /\ CommandOut
        BY <2>0, <2>2 DEF Accept, Turn, CommandOut, AnswerOut, AnswerIn
      <3>2. Len(tx') = 0 /\ Len(line') = 1 /\ line'[1] = "OK" /\ ser \in accepted' /\ accepted \subseteq accepted'
        BY <2>0, <2>2, <3>1 DEF Accept, Answer, CommandOut
      <3> QED
        BY <2>0, <2>2, <3>1, <3>2 DEF Accept, Turn, AnswerOut, CommandOut
    <2>3. CASE Refuse
      <3>1. ser \in Commands /\ CommandOut
        BY <2>0, <2>3 DEF Refuse, Turn, CommandOut, AnswerOut, AnswerIn
      <3>2. Len(tx') = 0 /\ Len(line') = 1 /\ line'[1] = "ERROR"
        BY <2>3, <3>1 DEF Refuse, Answer, CommandOut
      <3> QED
        BY <2>0, <2>3, <3>1, <3>2 DEF Refuse, Turn, AnswerOut, CommandOut
    <2>4. CASE Arrive
      <3>1. ser \in Commands /\ AnswerOut
        BY <2>0, <2>4 DEF Arrive, Turn, CommandOut, AnswerOut, AnswerIn
      <3>2. Len(line') = 0 /\ Len(rx') = 1 /\ rx'[1] = line[1]
        BY <2>4, <3>1 DEF Arrive, AnswerOut
      <3> QED
        BY <2>0, <2>4, <3>1, <3>2 DEF Arrive, Turn, AnswerOut, AnswerIn, modem
    <2>5. CASE Poll
      <3>1. ser \in Commands /\ AnswerIn
        BY <2>0, <2>5 DEF Poll, Turn, CommandOut, AnswerOut, AnswerIn
      <3>2. ~MayEndInOK(rx) /\ (EndsInOK(rx) <=> rx[1] = "OK")
        BY <3>1 DEF MayEndInOK, EndsInOK, AnswerIn
      <3>3. Len(rx') = 0 /\ Len(line') = 0 /\ accepted' = accepted
        BY <2>5, <3>1 DEF Poll, AnswerIn, modem
      <3>4. CASE Advance /\ rx[1] = "OK"
        <4>1. ser \in accepted /\ ser' = ser + 1
          BY <3>1, <3>4 DEF Advance, AnswerIn
        <4>2. CASE ser = 5
          BY <2>0, <3>1, <3>3, <3>4, <4>1, <4>2 DEF Advance, Turn, AnswerIn
        <4>3. CASE ser # 5
          <5>1. Len(tx') = 1 /\ tx'[1] = ser'
            BY <3>1, <3>4, <4>3 DEF Advance, AnswerIn, serial_send
          <5> QED
            BY <2>0, <3>1, <3>3, <4>1, <4>3, <5>1, SMTT(30) DEF Turn, CommandOut
        <4> QED
          BY <4>2, <4>3
      <3>5. CASE Restart
        <4>1. Len(tx') = 1 /\ tx'[1] = 1
          BY <3>1, <3>5 DEF Restart, AnswerIn, serial_send
        <4> QED
          BY <2>0, <3>3, <3>5, <4>1 DEF Restart, Turn, CommandOut
      <3> QED
        BY <2>5, <3>2, <3>4, <3>5 DEF Poll
    <2>6. CASE UNCHANGED setupVars
      BY <2>0, <2>6 DEF setupVars, modem, Turn, CommandOut, AnswerOut, AnswerIn
    <2> QED
      BY <2>1, <2>2, <2>3, <2>4, <2>5, <2>6, <2>0 DEF SetupNext, News
  <1>3. SetupTypeOK /\ (Plain => Turn) => Configured
    <2> SUFFICES ASSUME SetupTypeOK, Turn, ser = ActiveWait PROVE accepted = Commands
      BY DEF Configured, Plain
    <2>1. \A cmd \in Commands : cmd \in accepted
      BY DEF Turn, Commands, ActiveWait
    <2> QED
      BY <2>1 DEF SetupTypeOK
  <1> QED
    BY InitTypeOK, StepTypeOK, <1>1, <1>2, <1>3, PTL DEF SetupSpec

-----------------------------------------------------------------------------
\* HeardAll as a loop over q, of which f has done n turns.
HeardLoop(f, c, q, n) == f = [k \in 0 .. n |-> IF k = 0 THEN c ELSE Heard(f[k - 1], q[k])]

LEMMA HeardLoopExtends ==
  ASSUME NEW c, NEW q, NEW n \in Nat, NEW f, HeardLoop(f, c, q, n)
  PROVE  \E g : HeardLoop(g, c, q, n + 1)
  <1> DEFINE g == [k \in 0 .. n + 1 |-> IF k <= n THEN f[k] ELSE Heard(f[n], q[n + 1])]
             h == [k \in 0 .. n + 1 |-> IF k = 0 THEN c ELSE Heard(g[k - 1], q[k])]
  <1>1. \A k \in 0 .. n : f[k] = IF k = 0 THEN c ELSE Heard(f[k - 1], q[k])
    BY DEF HeardLoop
  <1>2. ASSUME NEW k \in 0 .. n + 1 PROVE g[k] = h[k]
    <2>1. CASE k = 0
      BY <1>1, <2>1
    <2>2. CASE k \in 1 .. n
      <3>1. k - 1 \in 0 .. n /\ k \in 0 .. n /\ k # 0
        BY <2>2
      <3>2. g[k - 1] = f[k - 1] /\ g[k] = f[k]
        BY <3>1
      <3> QED  BY <1>1, <3>1, <3>2
    <2>3. CASE k = n + 1
      <3>1. k - 1 = n /\ ~(k <= n) /\ n \in 0 .. n + 1 /\ k # 0 /\ n <= n
        BY <2>3
      <3>2. g[n] = f[n] /\ g[k] = Heard(f[n], q[k])
        BY <2>3, <3>1
      <3>3. h[k] = Heard(g[k - 1], q[k])
        BY <3>1
      <3> QED  BY <3>1, <3>2, <3>3
    <2> QED  BY <2>1, <2>2, <2>3
  <1>3. g = h
    BY <1>2
  <1> QED  BY <1>3 DEF HeardLoop

\* What HeardAll gives, by its turns.
LEMMA HeardAllIs ==
  ASSUME NEW c, NEW q, Len(q) \in Nat
  PROVE  \E f : HeardLoop(f, c, q, Len(q)) /\ HeardAll(c, q) = f[Len(q)]
  <1> DEFINE S == {n \in Nat : \E f : HeardLoop(f, c, q, n)}
             heard == CHOOSE f : f = [n \in 0 .. Len(q) |-> IF n = 0 THEN c ELSE Heard(f[n - 1], q[n])]
  <1>1. 0 \in S
    <2>1. HeardLoop([k \in 0 .. 0 |-> c], c, q, 0)
      BY DEF HeardLoop
    <2> QED  BY <2>1
  <1>2. \A n \in Nat : n \in S => n + 1 \in S
    BY HeardLoopExtends
  <1>3. Len(q) \in S
    <2> HIDE DEF S
    <2> QED  BY <1>1, <1>2, Induct
  <1>4. HeardLoop(heard, c, q, Len(q))
    BY <1>3 DEF HeardLoop
  <1>5. HeardAll(c, q) = heard[Len(q)]
    BY DEF HeardAll
  <1> HIDE DEF heard
  <1> QED  BY <1>4, <1>5

\* Two such loops agree as far as both go.
LEMMA HeardLoopsAgree ==
  ASSUME NEW c, NEW p, NEW q, NEW m \in Nat, NEW n \in Nat, NEW f, NEW g,
         HeardLoop(f, c, p, m), HeardLoop(g, c, q, n), m <= n, \A k \in 1 .. m : p[k] = q[k]
  PROVE  f[m] = g[m]
  <1> DEFINE S == {k \in Nat : k <= m => f[k] = g[k]}
  <1>1. \A k \in 0 .. m : f[k] = IF k = 0 THEN c ELSE Heard(f[k - 1], p[k])
    BY DEF HeardLoop
  <1>2. \A k \in 0 .. n : g[k] = IF k = 0 THEN c ELSE Heard(g[k - 1], q[k])
    BY DEF HeardLoop
  <1>3. 0 \in S
    BY <1>1, <1>2
  <1>4. ASSUME NEW k \in Nat, k \in S PROVE k + 1 \in S
    <2> SUFFICES ASSUME k + 1 <= m PROVE f[k + 1] = g[k + 1]
      OBVIOUS
    <2>1. k + 1 \in 0 .. m /\ k + 1 \in 0 .. n /\ k + 1 \in 1 .. m /\ k + 1 # 0 /\ (k + 1) - 1 = k
      OBVIOUS
    <2>2. f[k] = g[k]
      BY <1>4, <2>1
    <2>3. f[k + 1] = Heard(f[k], p[k + 1]) /\ g[k + 1] = Heard(g[k], q[k + 1])
      BY <1>1, <1>2, <2>1
    <2>4. p[k + 1] = q[k + 1]
      BY <2>1
    <2> QED  BY <2>2, <2>3, <2>4
  <1>5. m \in S
    <2> HIDE DEF S
    <2> QED  BY <1>3, <1>4, Induct
  <1> QED  BY <1>5

LEMMA HeardNothing == ASSUME NEW c PROVE HeardAll(c, <<>>) = c
  <1>1. PICK f : HeardLoop(f, c, <<>>, Len(<<>>)) /\ HeardAll(c, <<>>) = f[Len(<<>>)]
    BY HeardAllIs
  <1>2. Len(<<>>) = 0
    OBVIOUS
  <1> QED  BY <1>1, <1>2 DEF HeardLoop

\* One more piece at the end.
LEMMA HeardOneMore ==
  ASSUME NEW S, NEW c, NEW q \in Seq(S), NEW x \in S
  PROVE  HeardAll(c, Append(q, x)) = Heard(HeardAll(c, q), x)
  <1> DEFINE p == Append(q, x)
             n == Len(q)
  <1>1. n \in Nat /\ Len(p) = n + 1 /\ p[n + 1] = x /\ \A k \in 1 .. n : q[k] = p[k]
    OBVIOUS
  <1> HIDE DEF p, n
  <1>2. PICK f : HeardLoop(f, c, q, n) /\ HeardAll(c, q) = f[n]
    BY <1>1, HeardAllIs DEF n
  <1>3. PICK g : HeardLoop(g, c, p, n + 1) /\ HeardAll(c, p) = g[n + 1]
    BY <1>1, HeardAllIs
  <1>4. f[n] = g[n]
    BY <1>1, <1>2, <1>3, HeardLoopsAgree
  <1>5. g[n + 1] = Heard(g[n], p[n + 1])
    <2>1. n + 1 \in 0 .. n + 1 /\ n + 1 # 0 /\ (n + 1) - 1 = n
      BY <1>1
    <2> QED  BY <1>3, <2>1 DEF HeardLoop
  <1> QED  BY <1>1, <1>2, <1>3, <1>4, <1>5 DEF p

\* What is read in two parts.
LEMMA HeardInParts ==
  ASSUME NEW S, NEW c, NEW p \in Seq(S), NEW q \in Seq(S)
  PROVE  HeardAll(c, p \o q) = HeardAll(HeardAll(c, p), q)
  <1> DEFINE All(r) == HeardAll(c, p \o r) = HeardAll(HeardAll(c, p), r)
             N == {n \in Nat : \A r \in Seq(S) : Len(r) = n => All(r)}
  <1>1. 0 \in N
    <2> SUFFICES ASSUME NEW r \in Seq(S), Len(r) = 0 PROVE All(r)
      OBVIOUS
    <2>1. r = <<>> /\ p \o r = p
      OBVIOUS
    <2> QED  BY <2>1, HeardNothing
  <1>2. ASSUME NEW n \in Nat, n \in N PROVE n + 1 \in N
    <2> SUFFICES ASSUME NEW r \in Seq(S), Len(r) = n + 1 PROVE All(r)
      OBVIOUS
    <2> DEFINE s == SubSeq(r, 1, n)
               x == r[n + 1]
    <2>1. s \in Seq(S) /\ Len(s) = n /\ x \in S /\ r = Append(s, x)
      OBVIOUS
    <2> HIDE DEF s, x
    <2>2. p \o r = Append(p \o s, x) /\ p \o s \in Seq(S)
      BY <2>1
    <2>3. HeardAll(c, p \o s) = HeardAll(HeardAll(c, p), s)
      BY <1>2, <2>1
    <2>4. HeardAll(c, Append(p \o s, x)) = Heard(HeardAll(c, p \o s), x)
      <3> DEFINE t == p \o s
      <3>1. t \in Seq(S) /\ x \in S
        BY <2>1, <2>2
      <3> HIDE DEF t
      <3>2. HeardAll(c, Append(t, x)) = Heard(HeardAll(c, t), x)
        BY <3>1, HeardOneMore
      <3> QED  BY <3>2 DEF t
    <2>5. HeardAll(HeardAll(c, p), Append(s, x)) = Heard(HeardAll(HeardAll(c, p), s), x)
      BY <2>1, HeardOneMore
    <2> QED  BY <2>1, <2>2, <2>3, <2>4, <2>5
  <1>3. Len(q) \in N
    <2> HIDE DEF N
    <2> QED  BY <1>1, <1>2, Induct
  <1> QED  BY <1>3

-----------------------------------------------------------------------------
\* List p is what is left of list q when some of its elements are taken out;
\* g gives the places.
Places(g, p, q) ==
    /\ g \in [1 .. Len(p) -> 1 .. Len(q)]
    /\ \A k \in 1 .. Len(p) : p[k] = q[g[k]]
    /\ \A j, k \in 1 .. Len(p) : j < k => g[j] < g[k]
Within(p, q) == \E g : Places(g, p, q)

LEMMA WithinSelf == ASSUME NEW S, NEW q \in Seq(S) PROVE Within(q, q)
  <1> DEFINE g == [k \in 1 .. Len(q) |-> k]
  <1>1. Places(g, q, q)
    BY DEF Places
  <1> QED  BY <1>1 DEF Within

LEMMA WithinThrough ==
  ASSUME NEW p, NEW q, NEW r, Within(p, q), Within(q, r)
  PROVE  Within(p, r)
  <1>1. PICK g : Places(g, p, q)
    BY DEF Within
  <1>2. PICK h : Places(h, q, r)
    BY DEF Within
  <1> DEFINE f == [k \in 1 .. Len(p) |-> h[g[k]]]
  <1>3. Places(f, p, r)
    BY <1>1, <1>2 DEF Places
  <1> QED  BY <1>3 DEF Within

LEMMA WithinBoth ==
  ASSUME NEW S, NEW p \in Seq(S), NEW q \in Seq(S), NEW a \in Seq(S), NEW b \in Seq(S),
         Within(p, a), Within(q, b)
  PROVE  Within(p \o q, a \o b)
  <1>1. PICK g : Places(g, p, a)
    BY DEF Within
  <1>2. PICK h : Places(h, q, b)
    BY DEF Within
  <1> DEFINE m == Len(p)
             n == Len(a)
             x == p \o q
             y == a \o b
             f == [k \in 1 .. Len(x) |-> IF k <= m THEN g[k] ELSE n + h[k - m]]
  <1>3. m \in Nat /\ n \in Nat /\ Len(q) \in Nat /\ Len(b) \in Nat
    OBVIOUS
  <1>4. Len(x) = m + Len(q) /\ \A k \in 1 .. m + Len(q) : x[k] = IF k <= m THEN p[k] ELSE q[k - m]
    BY Concatenation
  <1>5. Len(y) = n + Len(b) /\ \A k \in 1 .. n + Len(b) : y[k] = IF k <= n THEN a[k] ELSE b[k - n]
    BY Concatenation
  <1> HIDE DEF x, y, m, n
  <1>6. \A k \in 1 .. m : g[k] \in 1 .. n /\ p[k] = a[g[k]]
    BY <1>1 DEF Places, m, n
  <1>7. \A k \in 1 .. Len(q) : h[k] \in 1 .. Len(b) /\ q[k] = b[h[k]]
    BY <1>2 DEF Places
  <1>8. ASSUME NEW k \in 1 .. Len(x) PROVE f[k] \in 1 .. Len(y) /\ x[k] = y[f[k]] /\ (k > m => f[k] > n) /\ (k <= m => f[k] <= n)
    <2>1. CASE k <= m
      <3>1. k \in 1 .. m /\ f[k] = g[k] /\ x[k] = p[k]
        BY <1>3, <1>4, <2>1
      <3>2. g[k] \in 1 .. n + Len(b) /\ g[k] <= n
        BY <1>3, <1>6, <3>1
      <3>3. y[g[k]] = a[g[k]]
        BY <1>5, <3>2
      <3> QED  BY <1>3, <1>5, <1>6, <2>1, <3>1, <3>2, <3>3, SMTT(30)
    <2>2. CASE k > m
      <3> DEFINE j == k - m
      <3>1. j \in 1 .. Len(q) /\ f[k] = n + h[j] /\ x[k] = q[j]
        BY <1>3, <1>4, <2>2
      <3> HIDE DEF j
      <3>2. n + h[j] \in 1 .. n + Len(b) /\ ~(n + h[j] <= n) /\ (n + h[j]) - n = h[j]
        BY <1>3, <1>7, <3>1, SMTT(30)
      <3>3. y[n + h[j]] = b[h[j]]
        BY <1>5, <3>2
      <3> QED  BY <1>3, <1>5, <1>7, <2>2, <3>1, <3>2, <3>3, SMTT(30)
    <2> QED  BY <1>3, <1>4, <2>1, <2>2
  <1>9. ASSUME NEW i \in 1 .. Len(x), NEW k \in 1 .. Len(x), i < k PROVE f[i] < f[k]
    <2>1. CASE k <= m
      <3>1. i \in 1 .. m /\ k \in 1 .. m /\ f[i] = g[i] /\ f[k] = g[k]
        BY <1>3, <1>4, <1>9, <2>1
      <3> QED  BY <1>1, <1>9, <3>1 DEF Places, m
    <2>2. CASE i > m
      <3>1. i - m \in 1 .. Len(q) /\ k - m \in 1 .. Len(q) /\ i - m < k - m /\ f[i] = n + h[i - m] /\ f[k] = n + h[k - m]
        BY <1>3, <1>4, <1>9, <2>2, SMTT(30)
      <3>2. h[i - m] < h[k - m] /\ h[i - m] \in 1 .. Len(b) /\ h[k - m] \in 1 .. Len(b)
        BY <1>2, <3>1 DEF Places
      <3> QED  BY <1>3, <3>1, <3>2, SMTT(30)
    <2>3. CASE i <= m /\ k > m
      <3>1. f[i] <= n /\ f[k] > n /\ f[i] \in Nat /\ f[k] \in Nat
        BY <1>3, <1>5, <1>8, <2>3, SMTT(30)
      <3> QED  BY <1>3, <3>1, SMTT(30)
    <2> QED  BY <1>3, <1>4, <2>1, <2>2, <2>3
  <1>10. Places(f, x, y)
    BY <1>8, <1>9 DEF Places
  <1> QED  BY <1>10 DEF Within, x, y

LEMMA WithinPart ==
  ASSUME NEW S, NEW q \in Seq(S)
  PROVE  /\ \A n \in 0 .. Len(q) : Within(SubSeq(q, 1, n), q)
         /\ q # <<>> => Within(Tail(q), q)
  <1>1. ASSUME NEW n \in 0 .. Len(q) PROVE Within(SubSeq(q, 1, n), q)
    <2> DEFINE p == SubSeq(q, 1, n)
               g == [k \in 1 .. n |-> k]
    <2>1. Len(p) = n /\ \A k \in 1 .. n : p[k] = q[k]
      OBVIOUS
    <2> HIDE DEF p
    <2>2. Places(g, p, q)
      BY <2>1 DEF Places
    <2> QED  BY <2>2 DEF Within, p
  <1>2. ASSUME q # <<>> PROVE Within(Tail(q), q)
    <2> DEFINE p == Tail(q)
               n == Len(q) - 1
               g == [k \in 1 .. n |-> k + 1]
    <2>1. n \in Nat /\ Len(q) = n + 1 /\ Len(p) = n /\ \A k \in 1 .. n : p[k] = q[k + 1]
      BY <1>2
    <2> HIDE DEF p, n
    <2>2. Places(g, p, q)
      BY <2>1 DEF Places
    <2> QED  BY <2>2 DEF Within, p
  <1> QED  BY <1>1, <1>2

\* Concatenations.
LEMMA Regrouped ==
  ASSUME NEW S, NEW a \in Seq(S), NEW b \in Seq(S), NEW c \in Seq(S)
  PROVE  (a \o b) \o c = a \o (b \o c)
  OBVIOUS

LEMMA HeadMoved ==
  ASSUME NEW S, NEW a \in Seq(S), NEW b \in Seq(S), b # <<>>
  PROVE  Append(a, Head(b)) \o Tail(b) = a \o b
  OBVIOUS

LEMMA TwoParts ==
  ASSUME NEW S, NEW q \in Seq(S), NEW n \in 0 .. Len(q)
  PROVE  SubSeq(q, 1, n) \o SubSeq(q, n + 1, Len(q)) = q
  <1> DEFINE a == SubSeq(q, 1, n)
             b == SubSeq(q, n + 1, Len(q))
             c == a \o b
  <1>1. a \in Seq(S) /\ Len(a) = n /\ \A k \in 1 .. n : a[k] = q[k]
    OBVIOUS
  <1>2. b \in Seq(S) /\ Len(b) = Len(q) - n /\ \A k \in 1 .. Len(q) - n : b[k] = q[n + k]
    OBVIOUS
  <1> HIDE DEF a, b
  <1>3. c \in Seq(S) /\ Len(c) = Len(a) + Len(b) /\ \A k \in 1 .. Len(a) + Len(b) : c[k] = IF k <= Len(a) THEN a[k] ELSE b[k - Len(a)]
    BY <1>1, <1>2, Concatenation
  <1> HIDE DEF c
  <1>4. Len(c) = Len(q) /\ Len(q) \in Nat
    BY <1>1, <1>2, <1>3
  <1>5. ASSUME NEW k \in 1 .. Len(q) PROVE c[k] = q[k]
    <2>1. CASE k <= n
      BY <1>1, <1>2, <1>3, <2>1
    <2>2. CASE k > n
      <3>1. k - n \in 1 .. Len(q) - n /\ n + (k - n) = k /\ ~(k <= n) /\ k \in 1 .. Len(a) + Len(b)
        BY <1>1, <1>2, <1>4, <2>2
      <3>2. c[k] = b[k - n]
        BY <1>1, <1>3, <3>1
      <3> QED  BY <1>2, <3>1, <3>2
    <2> QED  BY <2>1, <2>2
  <1>6. c = q
    BY <1>3, <1>4, <1>5
  <1> QED  BY <1>6 DEF a, b, c

\* The greedy search of Placed finds places for what is within sent.
PlaceLoop(f, q, n) == f = [k \in 0 .. n |-> IF k = 0 THEN 0 ELSE NextAt(f[k - 1], q[k])]

LEMMA PlaceLoopExtends ==
  ASSUME NEW q, NEW n \in Nat, NEW f, PlaceLoop(f, q, n)
  PROVE  \E g : PlaceLoop(g, q, n + 1)
  <1> DEFINE g == [k \in 0 .. n + 1 |-> IF k <= n THEN f[k] ELSE NextAt(f[n], q[n + 1])]
             h == [k \in 0 .. n + 1 |-> IF k = 0 THEN 0 ELSE NextAt(g[k - 1], q[k])]
  <1>1. \A k \in 0 .. n : f[k] = IF k = 0 THEN 0 ELSE NextAt(f[k - 1], q[k])
    BY DEF PlaceLoop
  <1>2. ASSUME NEW k \in 0 .. n + 1 PROVE g[k] = h[k]
    <2>1. CASE k = 0
      BY <1>1, <2>1
    <2>2. CASE k \in 1 .. n
      <3>1. k - 1 \in 0 .. n /\ k \in 0 .. n /\ k # 0
        BY <2>2
      <3>2. g[k - 1] = f[k - 1] /\ g[k] = f[k]
        BY <3>1
      <3> QED  BY <1>1, <3>1, <3>2
    <2>3. CASE k = n + 1
      <3>1. k - 1 = n /\ ~(k <= n) /\ n \in 0 .. n + 1 /\ k # 0 /\ n <= n
        BY <2>3
      <3>2. g[n] = f[n] /\ g[k] = NextAt(f[n], q[k])
        BY <2>3, <3>1
      <3>3. h[k] = NextAt(g[k - 1], q[k])
        BY <3>1
      <3> QED  BY <3>1, <3>2, <3>3
    <2> QED  BY <2>1, <2>2, <2>3
  <1>3. g = h
    BY <1>2
  <1> QED  BY <1>3 DEF PlaceLoop

LEMMA WithinPlaced ==
  ASSUME NEW S, NEW q \in Seq(S), sent \in Seq(S), Within(q, sent)
  PROVE  Placed(q) <= Len(sent)
  <1> DEFINE L == {n \in Nat : \E f : PlaceLoop(f, q, n)}
             place == CHOOSE f : f = [n \in 0 .. Len(q) |-> IF n = 0 THEN 0 ELSE NextAt(f[n - 1], q[n])]
  <1>1. 0 \in L
    <2>1. PlaceLoop([k \in 0 .. 0 |-> 0], q, 0)
      BY DEF PlaceLoop
    <2> QED  BY <2>1
  <1>2. \A n \in Nat : n \in L => n + 1 \in L
    BY PlaceLoopExtends
  <1>3. Len(q) \in L
    <2> HIDE DEF L
    <2> QED  BY <1>1, <1>2, Induct
  <1>4. PlaceLoop(place, q, Len(q))
    BY <1>3 DEF PlaceLoop
  <1>5. Placed(q) = place[Len(q)]
    BY DEF Placed
  <1> HIDE DEF place
  <1>6. \A k \in 0 .. Len(q) : place[k] = IF k = 0 THEN 0 ELSE NextAt(place[k - 1], q[k])
    BY <1>4 DEF PlaceLoop
  <1>7. PICK g : Places(g, q, sent)
    BY DEF Within
  <1> DEFINE At(k) == IF k = 0 THEN 0 ELSE g[k]
             N == {k \in Nat : k <= Len(q) => place[k] \in Nat /\ place[k] <= At(k)}
  <1>8. 0 \in N
    BY <1>6
  <1>9. ASSUME NEW k \in Nat, k \in N PROVE k + 1 \in N
    <2> SUFFICES ASSUME k + 1 <= Len(q) PROVE place[k + 1] \in Nat /\ place[k + 1] <= At(k + 1)
      OBVIOUS
    <2> DEFINE j == k + 1
               P == {i \in place[k] + 1 .. Len(sent) : sent[i] = q[j]}
    <2>1. j \in 1 .. Len(q) /\ j \in 0 .. Len(q) /\ j # 0 /\ j - 1 = k /\ At(j) = g[j]
      OBVIOUS
    <2>2. place[k] \in Nat /\ place[k] <= At(k)
      BY <1>9, <2>1
    <2>3. g[j] \in 1 .. Len(sent) /\ q[j] = sent[g[j]]
      BY <1>7, <2>1 DEF Places
    <2>4. At(k) < g[j] /\ At(k) \in Nat
      <3>1. CASE k = 0
        BY <2>3, <3>1
      <3>2. CASE k # 0
        <4>1. k \in 1 .. Len(q) /\ k < j
          BY <3>2
        <4> QED  BY <1>7, <2>1, <3>2, <4>1, SMTT(30) DEF Places
      <3> QED  BY <3>1, <3>2
    <2>5. g[j] \in P
      BY <2>2, <2>3, <2>4
    <2>6. P \subseteq Nat
      BY <2>2
    <2>7. Min(P) \in P /\ Min(P) <= g[j]
      BY <2>5, <2>6, MinOfNats
    <2>8. place[j] = Min(P)
      <3>1. place[j] = NextAt(place[k], q[j])
        BY <1>6, <2>1
      <3> QED  BY <2>5, <3>1 DEF NextAt
    <2> HIDE DEF P
    <2> QED  BY <2>1, <2>6, <2>7, <2>8
  <1>10. Len(q) \in N
    <2> HIDE DEF N
    <2> QED  BY <1>8, <1>9, Induct
  <1>11. place[Len(q)] \in Nat /\ place[Len(q)] <= At(Len(q))
    BY <1>10
  <1>12. At(Len(q)) \in 0 .. Len(sent)
    BY <1>7 DEF Places
  <1> QED  BY <1>5, <1>11, <1>12
-----------------------------------------------------------------------------
\* What is under way between the radio and the server.
Seen == forwarded \o buf \o rxring \o fifo \o wire

\* All that was said is under way or passed on, or what is left of it after a
\* loss; the call is what was heard of it so far, and that of the radio what it
\* said.
CallsInv ==
    /\ CallsTypeOK
    /\ Within(Seen, sent)
    /\ ~lost => Seen = sent
    /\ call = HeardAll(Idle, forwarded)
    /\ radio = HeardAll(Idle, sent)
    /\ radio.ser = "wait" => radio = Idle
    /\ radio.ser # "ptt" => radio.ssi2 = None /\ radio.adc = FALSE

LEMMA PiecesHeard ==
  ASSUME NEW c \in Calls, NEW x \in Pieces
  PROVE  Heard(c, x) \in Calls
  <1>1. x[2] \in Stations \cup {None}
    BY DEF Pieces, Keywords, NL, Text
  <1>2. x[1] \in {"CTICN", "CTXG"} => x[2] \in Stations
    BY DEF Pieces, Keywords, NL, Text
  <1> QED  BY <1>1, <1>2 DEF Heard, Calls

LEMMA AllHeard ==
  ASSUME NEW c \in Calls, NEW q \in Seq(Pieces)
  PROVE  HeardAll(c, q) \in Calls
  <1>1. PICK f : HeardLoop(f, c, q, Len(q)) /\ HeardAll(c, q) = f[Len(q)]
    BY HeardAllIs
  <1> DEFINE N == {k \in Nat : k <= Len(q) => f[k] \in Calls}
  <1>2. \A k \in 0 .. Len(q) : f[k] = IF k = 0 THEN c ELSE Heard(f[k - 1], q[k])
    BY <1>1 DEF HeardLoop
  <1>3. 0 \in N
    BY <1>2
  <1>4. ASSUME NEW k \in Nat, k \in N PROVE k + 1 \in N
    <2> SUFFICES ASSUME k + 1 <= Len(q) PROVE f[k + 1] \in Calls
      OBVIOUS
    <2>1. k + 1 \in 0 .. Len(q) /\ k + 1 \in 1 .. Len(q) /\ k + 1 # 0 /\ (k + 1) - 1 = k /\ f[k] \in Calls
      BY <1>4
    <2>2. q[k + 1] \in Pieces /\ f[k + 1] = Heard(f[k], q[k + 1])
      BY <1>2, <2>1
    <2> QED  BY <2>1, <2>2, PiecesHeard
  <1>5. Len(q) \in N
    <2> HIDE DEF N
    <2> QED  BY <1>3, <1>4, Induct
  <1> QED  BY <1>1, <1>5

LEMMA PipeTypes ==
  ASSUME CallsTypeOK
  PROVE  /\ forwarded \in Seq(Pieces) /\ buf \in Seq(Pieces) /\ rxring \in Seq(Pieces)
         /\ fifo \in Seq(Pieces) /\ wire \in Seq(Pieces) /\ sent \in Seq(Pieces)
         /\ forwarded \o buf \in Seq(Pieces) /\ forwarded \o buf \o rxring \in Seq(Pieces)
         /\ forwarded \o buf \o rxring \o fifo \in Seq(Pieces) /\ Seen \in Seq(Pieces)
  BY DEF CallsTypeOK, Seen

LEMMA CallsAtFirst == CallsInit => CallsInv
  <1> SUFFICES ASSUME CallsInit PROVE CallsInv
    OBVIOUS
  <1>1. /\ forwarded = <<>> /\ buf = <<>> /\ rxring = <<>> /\ fifo = <<>> /\ wire = <<>> /\ sent = <<>>
        /\ radio = Idle /\ call = Idle /\ lines = 0 /\ lost = FALSE
    BY DEF CallsInit
  <1>2. Idle \in Calls
    BY DEF Idle, Calls
  <1>3. CallsTypeOK
    <2>1. /\ <<>> \in Seq(Pieces) /\ Len(<<>>) = 0 /\ 0 \in 0 .. MaxLines
          /\ 0 <= FifoSize /\ 0 <= RingSize /\ 0 <= BufSize
      BY RadioAssumption
    <2>2. {<<>>, <<>>, <<>>} \subseteq Seq(Pieces)
      BY <2>1
    <2> QED  BY <1>1, <1>2, <2>1, <2>2 DEF CallsTypeOK
  <1>4. Seen = <<>>
    BY <1>1 DEF Seen
  <1>5. Within(Seen, sent)
    <2>1. <<>> \in Seq(Pieces)
      OBVIOUS
    <2> QED  BY <1>1, <1>4, <2>1, WithinSelf
  <1>6. HeardAll(Idle, <<>>) = Idle
    BY HeardNothing
  <1>7. Idle.ssi2 = None /\ Idle.adc = FALSE
    BY DEF Idle
  <1> QED  BY <1>1, <1>3, <1>4, <1>5, <1>6, <1>7 DEF CallsInv

\* The radio says something: it is under way, and will be heard as it was said.
LEMMA RadioStep == ASSUME CallsInv, Radio PROVE CallsInv'
  <1> DEFINE w(h) == <<h, NL>>
  <1>1. PICK head \in Pieces : Say(head) /\ radio' = Heard(radio, head)
          /\ (radio'.ser = "wait" => radio' = Idle)
          /\ (radio'.ser # "ptt" => radio'.ssi2 = None /\ radio'.adc = FALSE)
    <2> USE DEF CallsInv, CallsTypeOK
    <2>1. ASSUME NEW station \in Stations, Ring(station)
          PROVE  LET head == <<"CTICN", station>>
                 IN /\ head \in Pieces /\ Say(head) /\ radio' = Heard(radio, head)
                    /\ (radio'.ser = "wait" => radio' = Idle)
                    /\ (radio'.ser # "ptt" => radio'.ssi2 = None /\ radio'.adc = FALSE)
      BY <2>1 DEF Ring, Heard, Calls, Pieces, Keywords
    <2>2. ASSUME NEW station \in Stations, Press(station)
          PROVE  LET head == <<"CTXG", station>>
                 IN /\ head \in Pieces /\ Say(head) /\ radio' = Heard(radio, head)
                    /\ (radio'.ser = "wait" => radio' = Idle)
                    /\ (radio'.ser # "ptt" => radio'.ssi2 = None /\ radio'.adc = FALSE)
      BY <2>2 DEF Press, Heard, Calls, Pieces, Keywords
    <2>3. ASSUME Establish
          PROVE  LET head == <<"CTCC", None>>
                 IN /\ head \in Pieces /\ Say(head) /\ radio' = Heard(radio, head)
                    /\ (radio'.ser = "wait" => radio' = Idle)
                    /\ (radio'.ser # "ptt" => radio'.ssi2 = None /\ radio'.adc = FALSE)
      BY <2>3 DEF Establish, Heard, Calls, Pieces, Keywords
    <2>4. ASSUME Release
          PROVE  LET head == <<"CDTXC", None>>
                 IN /\ head \in Pieces /\ Say(head) /\ radio' = Heard(radio, head)
                    /\ (radio'.ser = "wait" => radio' = Idle)
                    /\ (radio'.ser # "ptt" => radio'.ssi2 = None /\ radio'.adc = FALSE)
      BY <2>4 DEF Release, Heard, Calls, Pieces, Keywords
    <2>5. ASSUME End
          PROVE  LET head == <<"CTCR", None>>
                 IN /\ head \in Pieces /\ Say(head) /\ radio' = Heard(radio, head)
                    /\ (radio'.ser = "wait" => radio' = Idle)
                    /\ (radio'.ser # "ptt" => radio'.ssi2 = None /\ radio'.adc = FALSE)
      <3>1. radio \in Calls /\ radio.ssi2 = None /\ radio.adc = FALSE /\ radio' = Idle
        BY <2>5 DEF End
      <3>2. Heard(radio, <<"CTCR", None>>) = Idle
        BY <3>1 DEF Heard, Calls, Idle
      <3>3. Idle.ssi2 = None /\ Idle.adc = FALSE
        BY DEF Idle
      <3> QED  BY <2>5, <3>1, <3>2, <3>3 DEF End, Pieces, Keywords
    <2>6. ASSUME Chatter
          PROVE  /\ Text \in Pieces /\ Say(Text) /\ radio' = Heard(radio, Text)
                 /\ (radio'.ser = "wait" => radio' = Idle)
                 /\ (radio'.ser # "ptt" => radio'.ssi2 = None /\ radio'.adc = FALSE)
      BY <2>6 DEF Chatter, Heard, Text, Pieces
    <2> QED  BY <2>1, <2>2, <2>3, <2>4, <2>5, <2>6 DEF Radio
  <1>2. NL \in Pieces /\ <<head, NL>> \in Seq(Pieces)
    BY DEF Pieces
  <1>3. /\ wire' = wire \o <<head, NL>> /\ sent' = sent \o <<head, NL>>
        /\ UNCHANGED <<fifo, rxring, buf, call, forwarded, lost>> /\ lines' \in 0 .. MaxLines
    <2>1. lines \in 0 .. MaxLines /\ MaxLines \in Nat
      BY RadioAssumption DEF CallsInv, CallsTypeOK
    <2>2. lines < MaxLines /\ lines' = lines + 1
      BY <1>1 DEF Say
    <2>3. lines' \in 0 .. MaxLines
      BY <2>1, <2>2
    <2> QED  BY <1>1, <2>3 DEF Say, pipe
  <1>4. radio' \in Calls
    BY <1>1, PiecesHeard DEF CallsInv, CallsTypeOK
  <1>5. CallsTypeOK'
    BY <1>2, <1>3, <1>4, PipeTypes DEF CallsInv, CallsTypeOK
  <1>6. Seen' = Seen \o <<head, NL>>
    <2> DEFINE a == forwarded \o buf \o rxring \o fifo
    <2>1. a \in Seq(Pieces) /\ wire \in Seq(Pieces) /\ Seen = a \o wire
      BY PipeTypes DEF CallsInv, Seen
    <2>2. Seen' = a \o (wire \o <<head, NL>>)
      BY <1>3 DEF Seen
    <2> HIDE DEF a
    <2> QED  BY <1>2, <2>1, <2>2, Regrouped
  <1>7. Within(Seen', sent')
    BY <1>2, <1>3, <1>6, WithinBoth, WithinSelf, PipeTypes DEF CallsInv
  <1>8. ~lost' => Seen' = sent'
    BY <1>3, <1>6 DEF CallsInv
  <1>9. radio' = HeardAll(Idle, sent')
    <2>1. sent \o <<head, NL>> = Append(Append(sent, head), NL) /\ Append(sent, head) \in Seq(Pieces)
      BY <1>2, PipeTypes DEF CallsInv
    <2>2. HeardAll(Idle, Append(sent, head)) = Heard(HeardAll(Idle, sent), head)
      <3>1. sent \in Seq(Pieces)
        BY PipeTypes DEF CallsInv
      <3> QED  BY <3>1, HeardOneMore
    <2>3. HeardAll(Idle, Append(Append(sent, head), NL)) = Heard(HeardAll(Idle, Append(sent, head)), NL)
      <3> DEFINE t == Append(sent, head)
      <3>1. t \in Seq(Pieces) /\ NL \in Pieces
        BY <1>2, <2>1
      <3> HIDE DEF t
      <3>2. HeardAll(Idle, Append(t, NL)) = Heard(HeardAll(Idle, t), NL)
        BY <3>1, HeardOneMore
      <3> QED  BY <3>2 DEF t
    <2>4. \A c : Heard(c, NL) = c
      BY DEF Heard, NL
    <2> QED  BY <1>1, <1>3, <2>1, <2>2, <2>3, <2>4 DEF CallsInv
  <1>10. call' = HeardAll(Idle, forwarded')
    BY <1>3 DEF CallsInv
  <1> QED  BY <1>1, <1>5, <1>7, <1>8, <1>9, <1>10 DEF CallsInv

\* What is lost on the way, or only moved.
LEMMA Onwards ==
  ASSUME CallsInv, UNCHANGED <<radio, sent>>, CallsTypeOK', Within(Seen', Seen),
         ~lost' => ~lost /\ Seen' = Seen, call' = HeardAll(Idle, forwarded')
  PROVE  CallsInv'
  <1>1. Within(Seen', sent')
    BY WithinThrough DEF CallsInv
  <1> QED  BY <1>1 DEF CallsInv

\* Small facts about sequences, for the provers.
LEMMA NothingMore == ASSUME NEW S, NEW s \in Seq(S) PROVE s \o <<>> = s
  OBVIOUS

LEMMA LenOfBoth ==
  ASSUME NEW S, NEW s \in Seq(S), NEW t \in Seq(S)
  PROVE  s \o t \in Seq(S) /\ Len(s \o t) = Len(s) + Len(t)
  OBVIOUS

LEMMA ReceiveStep == ASSUME CallsInv, Receive PROVE CallsInv'
  <1> DEFINE a == forwarded \o buf \o rxring
             h == Head(wire)
  <1>0. CallsTypeOK
    BY DEF CallsInv
  <1>1. /\ wire # <<>> /\ wire' = Tail(wire)
        /\ UNCHANGED <<radio, lines, rxring, buf, call, sent, forwarded>>
        /\ \/ Len(fifo) < FifoSize /\ fifo' = Append(fifo, h) /\ lost' = lost
           \/ lost' = TRUE /\ fifo' = fifo
    BY DEF Receive
  <1>2. /\ a \in Seq(Pieces) /\ fifo \in Seq(Pieces) /\ wire \in Seq(Pieces) /\ a \o fifo \in Seq(Pieces)
        /\ Seen = (a \o fifo) \o wire /\ Seen \in Seq(Pieces)
        /\ Seen' = (a \o fifo') \o Tail(wire)
    BY <1>0, <1>1, PipeTypes DEF Seen
  <1> HIDE DEF a
  <1>3. h \in Pieces /\ Tail(wire) \in Seq(Pieces)
    BY <1>1, <1>2
  <1>4. CallsTypeOK'
    <2>1. fifo' \in Seq(Pieces) /\ Len(fifo') <= FifoSize /\ lost' \in BOOLEAN
      <3>1. FifoSize \in Nat /\ Len(fifo) <= FifoSize /\ lost \in BOOLEAN
        BY <1>0, RadioAssumption DEF CallsTypeOK
      <3>2. Append(fifo, h) \in Seq(Pieces) /\ Len(Append(fifo, h)) = Len(fifo) + 1 /\ Len(fifo) \in Nat
        BY <1>2, <1>3
      <3>3. Len(fifo) < FifoSize => Len(fifo) + 1 <= FifoSize
        BY <3>1, <3>2
      <3> HIDE DEF h
      <3> QED  BY <1>1, <1>2, <3>1, <3>2, <3>3
    <2>2. {wire', sent', forwarded'} \subseteq Seq(Pieces)
      BY <1>0, <1>1, <1>3, PipeTypes
    <2> QED  BY <1>0, <1>1, <2>1, <2>2 DEF CallsTypeOK
  <1>5. CASE fifo' = Append(fifo, h) /\ lost' = lost
    <2>1. Seen' = Seen
      <3>1. Append(fifo, h) \o Tail(wire) = fifo \o wire
        BY <1>1, <1>2, HeadMoved
      <3> DEFINE x == Append(fifo, h)
                 y == Tail(wire)
      <3>2. (a \o x) \o y = a \o (x \o y)
        <4>1. x \in Seq(Pieces) /\ y \in Seq(Pieces)
          BY <1>2, <1>3
        <4> HIDE DEF x, y
        <4> QED  BY <1>2, <4>1, Regrouped, SMTT(30)
      <3>3. (a \o fifo) \o wire = a \o (fifo \o wire)
        BY <1>2, Regrouped, SMTT(30)
      <3> QED  BY <1>2, <1>5, <3>1, <3>2, <3>3
    <2>2. Within(Seen', Seen)
      BY <1>2, <2>1, WithinSelf
    <2> QED  BY <1>1, <1>4, <1>5, <2>1, <2>2, Onwards DEF CallsInv
  <1>6. CASE fifo' = fifo /\ lost' = TRUE
    <2>1. Seen' = (a \o fifo) \o Tail(wire)
      BY <1>2, <1>6
    <2>2. Within(Seen', Seen)
      <3>1. Within(Tail(wire), wire) /\ Within(a \o fifo, a \o fifo)
        BY <1>1, <1>2, WithinPart, WithinSelf
      <3> DEFINE b == a \o fifo
      <3>2. b \in Seq(Pieces)
        BY <1>2
      <3> HIDE DEF b
      <3>3. Within(b, b) => Within(b \o Tail(wire), b \o wire)
        BY <1>2, <1>3, <3>1, <3>2, WithinBoth
      <3> QED  BY <1>2, <2>1, <3>1, <3>3 DEF b
    <2> QED  BY <1>1, <1>4, <1>6, <2>2, Onwards DEF CallsInv
  <1> QED  BY <1>1, <1>5, <1>6

LEMMA InterruptStep == ASSUME CallsInv, UART1_IRQHandler PROVE CallsInv'
  <1> DEFINE a == forwarded \o buf
             n == Room(Len(fifo))
             p == SubSeq(fifo, 1, n)
  <1>0. CallsTypeOK
    BY DEF CallsInv
  <1>1. /\ rxring' = rxring \o p /\ lost' = (lost \/ n < Len(fifo)) /\ fifo' = <<>>
        /\ UNCHANGED <<radio, lines, wire, buf, call, sent, forwarded>>
    BY DEF UART1_IRQHandler
  <1>2. /\ a \in Seq(Pieces) /\ rxring \in Seq(Pieces) /\ fifo \in Seq(Pieces) /\ wire \in Seq(Pieces)
        /\ a \o rxring \in Seq(Pieces) /\ a \o rxring \o fifo \in Seq(Pieces)
        /\ Seen = ((a \o rxring) \o fifo) \o wire /\ Seen \in Seq(Pieces)
        /\ Seen' = ((a \o (rxring \o p)) \o <<>>) \o wire
    BY <1>0, <1>1, PipeTypes DEF Seen
  <1> HIDE DEF a
  <1>3. n \in 0 .. Len(fifo) /\ n <= RingSize - Len(rxring)
    <2>1. Len(fifo) \in Nat /\ Len(rxring) \in Nat
      BY <1>2
    <2>2. Len(rxring) <= RingSize /\ RingSize \in Nat
      BY <1>0, RadioAssumption DEF CallsTypeOK
    <2>3. n = IF Len(fifo) < RingSize - Len(rxring) THEN Len(fifo) ELSE RingSize - Len(rxring)
      BY DEF Room
    <2> DEFINE f == Len(fifo)
               q == Len(rxring)
    <2> HIDE DEF n, f, q
    <2>4. f \in Nat /\ q \in Nat /\ q <= RingSize /\ n = IF f < RingSize - q THEN f ELSE RingSize - q
      BY <2>1, <2>2, <2>3 DEF f, q
    <2>5. n \in 0 .. f /\ n <= RingSize - q
      BY <2>2, <2>4
    <2> QED  BY <2>5 DEF f, q
  <1>4. p \in Seq(Pieces) /\ Len(p) = n
    BY <1>2, <1>3
  <1>5. Within(p, fifo) /\ (n = Len(fifo) => p = fifo)
    <2>1. Within(p, fifo)
      BY <1>2, <1>3, WithinPart
    <2>2. SubSeq(fifo, 1, Len(fifo)) = fifo
      BY <1>2
    <2> QED  BY <2>1, <2>2
  <1> HIDE DEF n, p
  <1>6. CallsTypeOK'
    <2>1. rxring' \in Seq(Pieces) /\ Len(rxring') <= RingSize
      <3>1. rxring \o p \in Seq(Pieces) /\ Len(rxring \o p) = Len(rxring) + n
        BY <1>2, <1>4, LenOfBoth
      <3>2. RingSize \in Nat /\ Len(rxring) \in Nat /\ n \in Nat
        BY <1>2, <1>3, RadioAssumption
      <3>3. Len(rxring) + n <= RingSize
        BY <1>3, <3>2
      <3> QED  BY <1>1, <3>1, <3>3
    <2>2. fifo' \in Seq(Pieces) /\ Len(fifo') <= FifoSize
      BY <1>1, RadioAssumption
    <2>3. lost' \in BOOLEAN
      BY <1>1
    <2> QED  BY <1>0, <1>1, <2>1, <2>2, <2>3 DEF CallsTypeOK
  <1>7. Seen' = ((a \o rxring) \o p) \o wire
    <2>1. (a \o (rxring \o p)) \o <<>> = a \o (rxring \o p)
      <3> DEFINE s == a \o (rxring \o p)
      <3>1. s \in Seq(Pieces)
        BY <1>2, <1>4
      <3> HIDE DEF s
      <3>2. s \o <<>> = s
        BY <3>1, NothingMore
      <3> QED  BY <3>2 DEF s
    <2>2. (a \o rxring) \o p = a \o (rxring \o p)
      <3>1. a \in Seq(Pieces) /\ rxring \in Seq(Pieces) /\ p \in Seq(Pieces)
        BY <1>2, <1>4
      <3> QED  BY <3>1, Regrouped, SMTT(30)
    <2> QED  BY <1>2, <2>1, <2>2
  <1>8. Within(Seen', Seen)
    <2> DEFINE b == a \o rxring
               u == b \o p
               v == b \o fifo
    <2>1. b \in Seq(Pieces) /\ Within(b, b)
      BY <1>2, WithinSelf
    <2>2. Seen' = u \o wire /\ Seen = v \o wire
      BY <1>2, <1>7
    <2> HIDE DEF b
    <2>3. u \in Seq(Pieces) /\ v \in Seq(Pieces) /\ Within(u, v)
      BY <1>2, <1>4, <1>5, <2>1, WithinBoth
    <2> HIDE DEF u, v
    <2> QED  BY <1>2, <2>2, <2>3, WithinBoth, WithinSelf
  <1>9. ~lost' => ~lost /\ Seen' = Seen
    <2>1. ASSUME ~lost' PROVE ~lost /\ n = Len(fifo)
      <3>1. ~lost /\ ~(n < Len(fifo))
        BY <1>1, <2>1, Zenon
      <3> QED  BY <1>2, <1>3, <3>1
    <2> QED  BY <1>2, <1>5, <1>7, <2>1
  <1> QED  BY <1>1, <1>6, <1>8, <1>9, Onwards DEF CallsInv

LEMMA ReadStep == ASSUME CallsInv, radio_comm PROVE CallsInv'
  <1> DEFINE n == Readable
             p == SubSeq(rxring, 1, n)
             q == SubSeq(rxring, n + 1, Len(rxring))
             got == buf \o p
  <1>0. CallsTypeOK
    BY DEF CallsInv
  <1>1. /\ rxring' = q /\ UNCHANGED <<radio, lines, wire, fifo, sent, lost>>
        /\ \/ forwarded' = forwarded \o got /\ call' = HeardAll(call, got) /\ buf' = <<>>
           \/ buf' = got /\ call' = call /\ forwarded' = forwarded
    BY DEF radio_comm
  <1>2. /\ forwarded \in Seq(Pieces) /\ buf \in Seq(Pieces) /\ rxring \in Seq(Pieces)
        /\ fifo \in Seq(Pieces) /\ wire \in Seq(Pieces) /\ forwarded \o buf \in Seq(Pieces)
        /\ Seen = (((forwarded \o buf) \o rxring) \o fifo) \o wire /\ Seen \in Seq(Pieces)
        /\ Seen' = (((forwarded' \o buf') \o q) \o fifo) \o wire
    BY <1>0, <1>1, PipeTypes DEF Seen
  <1>3. n \in 0 .. Len(rxring) /\ n + Len(buf) <= BufSize
    <2>1. Len(buf) \in Nat /\ Len(rxring) \in Nat /\ BufSize \in Nat /\ Len(buf) <= BufSize
      <3>1. Len(buf) \in Nat /\ Len(rxring) \in Nat
        BY <1>2
      <3>2. BufSize \in Nat /\ Len(buf) <= BufSize
        BY <1>0, RadioAssumption DEF CallsTypeOK
      <3> QED  BY <3>1, <3>2
    <2> DEFINE f == Len(buf)
               k == Len(rxring)
    <2>2. n = IF k < BufSize - f THEN k ELSE BufSize - f
      BY DEF Readable
    <2> HIDE DEF n, f, k
    <2>3. n \in 0 .. k /\ n + f <= BufSize
      BY <2>1, <2>2 DEF f, k
    <2> QED  BY <2>3 DEF f, k
  <1>4. p \in Seq(Pieces) /\ q \in Seq(Pieces) /\ Len(p) = n /\ Len(q) <= Len(rxring) /\ rxring = p \o q
    <2>1. p \o q = rxring
      BY <1>2, <1>3, TwoParts
    <2>2. n \in 0 .. Len(rxring) /\ Len(rxring) \in Nat
      BY <1>2, <1>3
    <2> HIDE DEF n
    <2>3. p \in Seq(Pieces) /\ Len(p) = n
      BY <1>2, <2>2
    <2>4. q \in Seq(Pieces) /\ Len(q) = Len(rxring) - n
      BY <1>2, <2>2
    <2> HIDE DEF p, q
    <2>5. Len(q) <= Len(rxring)
      BY <2>2, <2>4
    <2> QED  BY <2>1, <2>3, <2>4, <2>5
  <1> HIDE DEF p, q, n
  <1>5. got \in Seq(Pieces) /\ Len(got) = Len(buf) + Len(p)
    BY <1>2, <1>4
  <1>6. (forwarded \o got) \o q = (forwarded \o buf) \o rxring
    <2>1. forwarded \o got = (forwarded \o buf) \o p
      <3>0. forwarded \in Seq(Pieces) /\ buf \in Seq(Pieces) /\ p \in Seq(Pieces)
        BY <1>2, <1>4
      <3>1. (forwarded \o buf) \o p = forwarded \o (buf \o p)
        BY <3>0, Regrouped, SMTT(30)
      <3> QED  BY <3>1
    <2> DEFINE a == forwarded \o buf
    <2>2. a \in Seq(Pieces)
      BY <1>2
    <2> HIDE DEF a
    <2>3. (a \o p) \o q = a \o (p \o q)
      BY <1>4, <2>2, Regrouped, SMTT(30)
    <2> QED  BY <1>4, <2>1, <2>3 DEF a
  <1> HIDE DEF got
  <1>7. forwarded' \o buf' = forwarded \o got
    <2>1. (forwarded \o got) \o <<>> = forwarded \o got
      <3> DEFINE s == forwarded \o got
      <3>1. s \in Seq(Pieces)
        BY <1>2, <1>5
      <3> HIDE DEF s
      <3>2. s \o <<>> = s
        BY <3>1, NothingMore
      <3> QED  BY <3>2 DEF s
    <2> QED  BY <1>1, <2>1
  <1>8. Seen' = Seen
    BY <1>2, <1>6, <1>7
  <1>9. Within(Seen', Seen)
    BY <1>2, <1>8, WithinSelf
  <1>10. call' = HeardAll(Idle, forwarded')
    <2>1. HeardAll(Idle, forwarded \o got) = HeardAll(HeardAll(Idle, forwarded), got)
      BY <1>2, <1>5, HeardInParts
    <2> QED  BY <1>1, <2>1 DEF CallsInv
  <1>11. CallsTypeOK'
    <2>1. call' \in Calls
      BY <1>0, <1>1, <1>5, AllHeard DEF CallsTypeOK
    <2>2. buf' \in Seq(Pieces) /\ Len(buf') <= BufSize
      <3>1. BufSize \in Nat /\ Len(buf) \in Nat /\ n \in Nat
        BY <1>2, <1>3, RadioAssumption
      <3>2. Len(got) <= BufSize
        <4>1. Len(got) = Len(buf) + n
          BY <1>4, <1>5
        <4> QED  BY <1>3, <3>1, <4>1
      <3>3. <<>> \in Seq(Pieces) /\ Len(<<>>) = 0
        OBVIOUS
      <3>4. buf' = got \/ buf' = <<>>
        BY <1>1
      <3>5. 0 <= BufSize
        BY <3>1
      <3> QED  BY <1>5, <3>2, <3>3, <3>4, <3>5
    <2>3. forwarded' \in Seq(Pieces)
      <3>1. forwarded \o got \in Seq(Pieces)
        BY <1>2, <1>5, LenOfBoth
      <3> QED  BY <1>1, <1>2, <3>1
    <2>4. rxring' \in Seq(Pieces) /\ Len(rxring') <= RingSize
      BY <1>0, <1>1, <1>2, <1>4, RadioAssumption, SMTT(30) DEF CallsTypeOK
    <2> QED  BY <1>0, <1>1, <2>1, <2>2, <2>3, <2>4 DEF CallsTypeOK
  <1> QED  BY <1>1, <1>8, <1>9, <1>10, <1>11, Onwards

\* The invariant of the radio's messages: what is under way, passed on and
\* heard is, in order, what was said, less what UART and ring lost.
THEOREM CallsInvariance == CallsSpec => []CallsInv
  <1>1. CallsInv /\ [CallsNext]_callsVars => CallsInv'
    <2> SUFFICES ASSUME CallsInv, [CallsNext]_callsVars PROVE CallsInv'
      OBVIOUS
    <2>1. CASE UNCHANGED callsVars
      BY <2>1 DEF callsVars, pipe, callsHistory, CallsInv, CallsTypeOK, Seen
    <2> QED  BY <2>1, RadioStep, ReceiveStep, InterruptStep, ReadStep DEF CallsNext
  <1> QED  BY <1>1, CallsAtFirst, PTL DEF CallsSpec

\* The server gets what the radio said, each piece once and in order, wherever
\* FIFO, ring and line buffer cut it; pieces are missing only after an overrun
\* (UART1_IRQHandler, serial_read, radio_comm).
THEOREM ForwardedInOrder == CallsSpec => []InOrder
  <1>1. CallsInv => InOrder
    <2> SUFFICES ASSUME CallsInv PROVE InOrder
      OBVIOUS
    <2>1. Seen \in Seq(Pieces) /\ sent \in Seq(Pieces)
      BY PipeTypes DEF CallsInv
    <2>2. Placed(Seen) <= Len(sent)
      BY <2>1, WithinPlaced DEF CallsInv
    <2> QED  BY <2>2 DEF InOrder, Seen, CallsInv
  <1> QED  BY <1>1, CallsInvariance, PTL

\* Once all of it is through, the state of the call, the numbers and the
\* converter are what the radio has, if nothing was lost (radio_comm).
THEOREM FollowsTheRadio == CallsSpec => []CallFollowsRadio
  <1>1. CallsInv => CallFollowsRadio
    <2> SUFFICES ASSUME CallsInv PROVE CallFollowsRadio
      OBVIOUS
    <2>1. CallsTypeOK
      BY DEF CallsInv
    <2>2. ASSUME ~lost, wire \o fifo \o rxring \o buf = <<>> PROVE call = radio
      <3>1. wire = <<>> /\ fifo = <<>> /\ rxring = <<>> /\ buf = <<>>
        <4> DEFINE a == wire \o fifo
                   b == a \o rxring
        <4>1. a \in Seq(Pieces) /\ b \in Seq(Pieces) /\ b \o buf = <<>>
          BY <2>1, <2>2, PipeTypes
        <4>2. \A x, y \in Seq(Pieces) : x \o y = <<>> => x = <<>> /\ y = <<>>
          OBVIOUS
        <4>3. b = <<>> /\ buf = <<>>
          BY <2>1, <4>1, <4>2, PipeTypes
        <4>4. a = <<>> /\ rxring = <<>>
          BY <2>1, <4>1, <4>2, <4>3, PipeTypes
        <4> QED  BY <2>1, <4>2, <4>3, <4>4, PipeTypes
      <3>2. Seen = forwarded
        BY <2>1, <3>1, PipeTypes DEF Seen
      <3> QED  BY <2>2, <3>2 DEF CallsInv
    <2> QED  BY <2>1, <2>2 DEF CallFollowsRadio
  <1> QED  BY <1>1, CallsInvariance, PTL

-----------------------------------------------------------------------------
(* Addresses and groups *)

(***************************************************************************)
(* The inductive invariant.  Holding an address, the client has at least   *)
(* as much of the lease left as the way to giving up takes: the calls of   *)
(* dhcp_coarse_tmr up to T2, and then the tries of dhcp_rebind.            *)
(***************************************************************************)
States == {"OFF", "SELECTING", "REQUESTING", "CHECKING", "BOUND", "RENEWING",
           "REBINDING", "REBOOTING", "BACKING_OFF"}
Kinds == {"discover", "request", "decline", "release"}
Requests == [kind : Kinds, ip : Leasable \cup {NoAddr}, age : 0 .. MaxDelay]
Client == [state : States, tries : 0 .. TriesMod - 1, rto : Nat,
           t1 : 0 .. TimerMod - 1, t2 : 0 .. TimerMod - 1, timed : BOOLEAN,
           offered : Leasable \cup {NoAddr}, ip : Leasable \cup {NoAddr}, up : BOOLEAN,
           asked : SUBSET Requests]

Typed ==
    /\ dhcp \in Client /\ dhcpPhase \in 0 .. Coarse /\ dhcpFaults \in 0 .. MaxFaults
    /\ server \in [ip : Leasable \cup {NoAddr}, left : Nat]

\* The address asked for is the one the server has offered last.
OfferedKept ==
    dhcp.state \in {"REQUESTING", "CHECKING", "BOUND", "RENEWING", "REBINDING", "REBOOTING"} =>
        dhcp.offered = server.ip

Holding(d) == d.up /\ d.ip # NoAddr
Holds ==
    Holding(dhcp) => dhcp.state \in {"BOUND", "RENEWING", "REBINDING"} /\ dhcp.ip = server.ip

\* What all tries of dhcp_rebind but the first take, and all.
LastTries(tries) == (RebindTries + 1 - tries) * LongestWait

UntilT2(d) ==
    Holding(d) /\ d.state \in {"BOUND", "RENEWING"} =>
        /\ d.t2 >= 1
        /\ server.left >= Coarse * d.t2 - dhcpPhase + LastTries(0)

UntilGivingUp(d) ==
    Holding(d) /\ d.state = "REBINDING" =>
        /\ d.tries \in 1 .. RebindTries + 1 /\ d.rto \in 1 .. LongestWait
        /\ server.left >= d.rto + LastTries(d.tries)

\* dhcp_check waits twice, and what it has then is enough.
UntilBound(d) ==
    d.state = "CHECKING" =>
        /\ d.timed /\ d.tries \in 1 .. 2 /\ d.rto = 1
        /\ server.left >= Lease - MaxDelay - (d.tries - 1)

LeaseInv == Typed /\ OfferedKept /\ Holds /\ UntilT2(dhcp) /\ UntilGivingUp(dhcp) /\ UntilBound(dhcp)

-----------------------------------------------------------------------------
\* A timer of the lease is at least one call.
LEMMA RoundedTimes ==
  ASSUME NEW t \in Nat
  PROVE  Rounded(t) \in Nat /\ Rounded(t) >= 1 /\ Rounded(0) = 1
  <1>1. Coarse \in Nat \ {0}
    BY DhcpAssumption
  <1>2. (t + Coarse \div 2) \div Coarse \in Nat /\ (0 + Coarse \div 2) \div Coarse = 0
    BY <1>1
  <1> QED
    BY <1>2, MaxOfTwo DEF Rounded

\* Later times are not rounded to earlier ones.
LEMMA RoundedInOrder ==
  ASSUME NEW t \in Nat, NEW u \in Nat, t <= u
  PROVE  Rounded(t) <= Rounded(u)
  <1> DEFINE r(x) == (x + Coarse \div 2) \div Coarse
  <1>1. Coarse \in Nat \ {0}
    BY DhcpAssumption
  <1>2. r(t) \in Nat /\ r(u) \in Nat /\ r(t) <= r(u)
    BY <1>1
  <1>3. Rounded(t) = Max({r(t), 1}) /\ Rounded(u) = Max({r(u), 1})
    BY DEF Rounded
  <1> HIDE DEF r
  <1> QED
    BY <1>2, <1>3, MaxOfTwo

LEMMA WaitRange ==
  ASSUME NEW tries \in 0 .. TriesMod - 1
  PROVE  /\ \A state \in States \ {"BOUND"} : Wait(state, tries) \in Nat
         /\ tries >= 1 => Wait("REBINDING", tries) \in 1 .. LongestWait
         /\ Wait("CHECKING", tries) = 1
  <1>1. LongestWait \in Nat \ {0} /\ BackOff \in Nat \ {0} /\ TriesMod \in Nat
    BY DhcpAssumption
  <1>2. Doubled(tries) \in Nat
    <2>1. CASE tries < 6
      <3>1. tries \in 0 .. 5 /\ <<1, 2, 4, 8, 16, 32>>[tries + 1] \in Nat
        BY <1>1, <2>1
      <3> QED
        BY <1>1, <2>1, <3>1, MinOfTwo DEF Doubled
    <2>2. CASE ~(tries < 6)
      BY <1>1, <2>2 DEF Doubled
    <2> QED
      BY <2>1, <2>2
  <1>3. Min({2 * tries, LongestWait}) \in Nat /\ Min({tries, LongestWait}) \in Nat
    BY <1>1, MinOfTwo
  <1>4. tries >= 1 => Min({tries, LongestWait}) \in 1 .. LongestWait
    BY <1>1, MinOfTwo
  <1>5. Wait("SELECTING", tries) = Doubled(tries) /\ Wait("REQUESTING", tries) = Doubled(tries)
    BY DEF Wait
  <1>6. Wait("RENEWING", tries) = Min({2 * tries, LongestWait}) /\ Wait("BACKING_OFF", tries) = BackOff
    BY DEF Wait
  <1>7. /\ Wait("REBINDING", tries) = Min({tries, LongestWait})
        /\ Wait("REBOOTING", tries) = Min({tries, LongestWait})
        /\ Wait("OFF", tries) = Min({tries, LongestWait})
    BY DEF Wait
  <1>8. Wait("CHECKING", tries) = 1
    BY DEF Wait
  <1> QED
    BY <1>1, <1>2, <1>3, <1>4, <1>5, <1>6, <1>7, <1>8 DEF States

\* What stays as it is when something is sent.
SameLease(r, d) == r.ip = d.ip /\ r.up = d.up /\ r.timed = d.timed /\ r.t1 = d.t1 /\ r.t2 = d.t2

LEMMA StateSet ==
  ASSUME NEW d \in Client, NEW state \in States
  PROVE  LET r == dhcp_set_state(d, state)
         IN /\ r \in Client /\ r.state = state /\ SameLease(r, d) /\ r.offered = d.offered
            /\ r.tries = (IF d.state = state THEN d.tries ELSE 0)
            /\ r.rto = (IF d.state = state THEN d.rto ELSE 0)
            /\ r.asked = d.asked
  <1> DEFINE d1 == [d EXCEPT !.state = state]
             d2 == [d1 EXCEPT !.tries = 0]
             d3 == [d2 EXCEPT !.rto = 0]
  <1>1. TriesMod \in Nat /\ TriesMod >= 1
    BY DhcpAssumption
  <1>2. d1 \in Client /\ d1.state = state /\ SameLease(d1, d) /\ d1.offered = d.offered /\ d1.asked = d.asked
    BY DEF Client, SameLease
  <1> HIDE DEF d1
  <1>3. d2 \in Client /\ d2.state = state /\ SameLease(d2, d) /\ d2.offered = d.offered /\ d2.tries = 0 /\ d2.asked = d.asked
    BY <1>1, <1>2 DEF Client, SameLease
  <1> HIDE DEF d2
  <1>4. /\ d3 \in Client /\ d3.state = state /\ SameLease(d3, d) /\ d3.offered = d.offered
        /\ d3.tries = 0 /\ d3.rto = 0 /\ d3.asked = d.asked
    BY <1>3 DEF Client, SameLease
  <1>5. dhcp_set_state(d, state) = IF d.state = state THEN d ELSE d3
    BY DEF dhcp_set_state, d1, d2, d3
  <1> HIDE DEF d3
  <1> QED
    BY <1>4, <1>5 DEF SameLease

\* What sending changes: the state, the tries and the timer.
Asks(r, d, state) ==
    /\ r \in Client /\ r.state = state /\ SameLease(r, d) /\ r.offered = d.offered
    /\ r.tries = (IF d.state = state THEN (d.tries + 1) % TriesMod ELSE 1)
    /\ r.rto = Wait(state, r.tries)

LEMMA Asking ==
  ASSUME NEW d \in Client, NEW state \in States \ {"BOUND"}, NEW kind \in Kinds,
         NEW ip \in Leasable \cup {NoAddr}, NEW fails \in BOOLEAN
  PROVE  Asks(Ask(d, state, kind, ip, fails), d, state)
  <1> DEFINE e     == dhcp_set_state(d, state)
             tries == (e.tries + 1) % TriesMod
             asked == IF e.tries = 0 THEN {} ELSE e.asked
             e1    == [e EXCEPT !.tries = tries]
             e2    == [e1 EXCEPT !.rto = Wait(state, tries)]
             told  == IF fails THEN e2.asked ELSE asked \cup {Message(kind, ip)}
             e3    == [e2 EXCEPT !.asked = told]
  <1>1. TriesMod \in Nat /\ TriesMod >= 3 /\ MaxDelay \in Nat
    BY DhcpAssumption
  <1>2. /\ e \in Client /\ e.state = state /\ SameLease(e, d) /\ e.offered = d.offered
        /\ e.tries = (IF d.state = state THEN d.tries ELSE 0)
    BY StateSet
  <1> HIDE DEF e
  <1>3. tries \in 0 .. TriesMod - 1
    BY <1>1, <1>2 DEF Client
  <1>4. tries = IF d.state = state THEN (d.tries + 1) % TriesMod ELSE 1
    BY <1>1, <1>2
  <1>5. asked \cup {Message(kind, ip)} \subseteq Requests /\ asked \subseteq Requests
    BY <1>1, <1>2 DEF Client, Message, Requests
  <1>6. Wait(state, tries) \in Nat
    BY <1>3, WaitRange
  <1> HIDE DEF tries, asked
  <1>7. e1 \in Client /\ e1.state = state /\ SameLease(e1, d) /\ e1.offered = d.offered /\ e1.tries = tries
    BY <1>2, <1>3 DEF Client, SameLease
  <1> HIDE DEF e1
  <1>8. /\ e2 \in Client /\ e2.state = state /\ SameLease(e2, d) /\ e2.offered = d.offered
        /\ e2.tries = tries /\ e2.rto = Wait(state, tries)
    BY <1>6, <1>7 DEF Client, SameLease
  <1> HIDE DEF e2
  <1>9. told \subseteq Requests
    BY <1>5, <1>8 DEF Client
  <1>10. Ask(d, state, kind, ip, fails) = e3
    BY DEF Ask, e, tries, asked, e1, e2, e3
  <1> HIDE DEF told
  <1>11. /\ e3 \in Client /\ e3.state = state /\ SameLease(e3, d) /\ e3.offered = d.offered
         /\ e3.tries = tries /\ e3.rto = Wait(state, tries)
    BY <1>8, <1>9 DEF Client, SameLease
  <1> HIDE DEF e3
  <1> QED
    BY <1>4, <1>10, <1>11 DEF Asks

\* dhcp_discover: the search goes on, or starts again.
LEMMA Discovering ==
  ASSUME NEW d \in Client, NEW fails \in BOOLEAN
  PROVE  LET r == dhcp_discover(d, fails)
         IN r \in Client /\ r.state = "SELECTING" /\ SameLease(r, d)
  <1> DEFINE e == [d EXCEPT !.offered = NoAddr]
  <1>1. e \in Client /\ SameLease(e, d)
    BY DEF Client, SameLease
  <1> HIDE DEF e
  <1> DEFINE r == Ask(e, "SELECTING", "discover", NoAddr, fails)
  <1>2. "SELECTING" \in States \ {"BOUND"} /\ "discover" \in Kinds
    BY DEF States, Kinds
  <1>3. r \in Client /\ r.state = "SELECTING" /\ SameLease(r, e)
    BY <1>1, <1>2, Asking DEF Asks
  <1>4. dhcp_discover(d, fails) = r
    BY DEF dhcp_discover, e
  <1> HIDE DEF r
  <1> QED
    BY <1>1, <1>3, <1>4 DEF SameLease

\* dhcp_release and dhcp_discover: the address is given up.
LEMMA StartingAgain ==
  ASSUME NEW d \in Client, NEW fails \in BOOLEAN
  PROVE  LET r == StartAgain(d, fails)
         IN r \in Client /\ r.state = "SELECTING" /\ ~r.up /\ r.ip = NoAddr
  <1> DEFINE e1 == [d EXCEPT !.offered = NoAddr]
             e2 == [e1 EXCEPT !.timed = FALSE]
             e3 == [e2 EXCEPT !.ip = NoAddr]
             e4 == [e3 EXCEPT !.up = FALSE]
             e  == Ask(e4, "OFF", "release", NoAddr, fails)
  <1>1. e1 \in Client
    BY DEF Client
  <1> HIDE DEF e1
  <1>2. e2 \in Client
    BY <1>1 DEF Client
  <1> HIDE DEF e2
  <1>3. e3 \in Client /\ e3.ip = NoAddr
    BY <1>2 DEF Client
  <1> HIDE DEF e3
  <1>4. e4 \in Client /\ e4.ip = NoAddr /\ e4.up = FALSE
    BY <1>3 DEF Client
  <1>5. dhcp_release(d, fails) = e
    BY DEF dhcp_release, e4, e3, e2, e1
  <1> HIDE DEF e4
  <1>6. e \in Client /\ e.ip = NoAddr /\ e.up = FALSE
    <2>1. "OFF" \in States \ {"BOUND"} /\ "release" \in Kinds /\ NoAddr \in Leasable \cup {NoAddr}
      BY DEF States, Kinds
    <2>2. Asks(e, e4, "OFF")
      BY <1>4, <2>1, Asking
    <2> HIDE DEF e
    <2>3. e \in Client /\ SameLease(e, e4)
      BY <2>2 DEF Asks
    <2> QED
      BY <1>4, <2>3 DEF SameLease
  <1> HIDE DEF e
  <1> QED
    BY <1>5, <1>6, Discovering DEF StartAgain, SameLease

LEMMA HandlingNak ==
  ASSUME NEW d \in Client, NEW fails \in BOOLEAN
  PROVE  LET r == dhcp_handle_nak(d, fails)
         IN r \in Client /\ r.state = "SELECTING" /\ ~r.up /\ r.ip = NoAddr
  <1> DEFINE e1 == [d EXCEPT !.ip = NoAddr]
             e2 == [e1 EXCEPT !.up = FALSE]
             e  == dhcp_set_state(e2, "BACKING_OFF")
  <1>1. e1 \in Client /\ e1.ip = NoAddr
    BY DEF Client
  <1> HIDE DEF e1
  <1>2. e2 \in Client /\ e2.ip = NoAddr /\ e2.up = FALSE
    BY <1>1 DEF Client
  <1>3. dhcp_handle_nak(d, fails) = dhcp_discover(e, fails)
    BY DEF dhcp_handle_nak, e1, e2
  <1> HIDE DEF e2
  <1>4. e \in Client /\ e.ip = NoAddr /\ e.up = FALSE
    BY <1>2, StateSet DEF States, SameLease
  <1> HIDE DEF e
  <1> QED
    BY <1>3, <1>4, Discovering DEF SameLease

\* dhcp_check: once more, or for the first time.
LEMMA Checking ==
  ASSUME NEW d \in Client, d.state = "CHECKING" => d.tries <= 1
  PROVE  LET r == dhcp_check(d)
         IN /\ r \in Client /\ r.state = "CHECKING" /\ SameLease(r, d) /\ r.offered = d.offered
            /\ r.tries = (IF d.state = "CHECKING" THEN d.tries + 1 ELSE 1) /\ r.rto = 1
  <1> DEFINE e  == dhcp_set_state(d, "CHECKING")
             w  == Wait("CHECKING", e.tries + 1)
             e1 == [e EXCEPT !.tries = @ + 1]
             e2 == [e1 EXCEPT !.rto = w]
  <1>1. TriesMod \in Nat /\ TriesMod >= 3
    BY DhcpAssumption
  <1>2. /\ e \in Client /\ e.state = "CHECKING" /\ SameLease(e, d) /\ e.offered = d.offered
        /\ e.tries = (IF d.state = "CHECKING" THEN d.tries ELSE 0)
    BY StateSet DEF States
  <1> HIDE DEF e
  <1>3. e.tries + 1 \in 0 .. TriesMod - 1
    BY <1>1, <1>2 DEF Client
  <1>4. w = 1
    BY <1>3, WaitRange
  <1> HIDE DEF w
  <1>5. e1 \in Client /\ e1.state = "CHECKING" /\ SameLease(e1, d) /\ e1.offered = d.offered /\ e1.tries = e.tries + 1
    BY <1>2, <1>3 DEF Client, SameLease
  <1> HIDE DEF e1
  <1>6. /\ e2 \in Client /\ e2.state = "CHECKING" /\ SameLease(e2, d) /\ e2.offered = d.offered
        /\ e2.tries = e.tries + 1 /\ e2.rto = 1
    BY <1>4, <1>5 DEF Client, SameLease
  <1>7. dhcp_check(d) = e2
    BY DEF dhcp_check, e, w, e1, e2
  <1> HIDE DEF e2
  <1> QED
    BY <1>2, <1>6, <1>7

\* dhcp_bind: the address is used, and T2 is at most that of the lease.
LEMMA Binding ==
  ASSUME NEW d \in Client, d.state # "BOUND"
  PROVE  LET r == dhcp_bind(d)
         IN /\ r \in Client /\ r.state = "BOUND" /\ r.ip = d.offered /\ r.offered = d.offered
            /\ r.t2 >= 1 /\ r.t2 <= Rounded(T2)
  <1> DEFINE t1 == Rounded(IF d.timed THEN T1 ELSE 0)
             t2 == Rounded(IF d.timed THEN T2 ELSE 0)
             e1 == [d EXCEPT !.t1 = IF t1 >= t2 THEN 0 ELSE t1]
             e2 == [e1 EXCEPT !.t2 = t2]
             e3 == [e2 EXCEPT !.ip = d.offered]
             e4 == [e3 EXCEPT !.up = TRUE]
  <1>1. T1 \in Nat /\ T2 \in Nat /\ TimerMod \in Nat /\ Rounded(T2) < TimerMod /\ T1 <= T2
    BY DhcpAssumption
  <1>2. /\ t2 \in Nat /\ t2 >= 1 /\ t2 <= Rounded(T2) /\ Rounded(T2) \in Nat
        /\ t1 \in Nat /\ t1 <= Rounded(T2)
    BY <1>1, RoundedTimes, RoundedInOrder
  <1> HIDE DEF t1, t2
  <1>3. e1 \in Client /\ e1.offered = d.offered /\ e1.state = d.state
    BY <1>1, <1>2 DEF Client
  <1> HIDE DEF e1
  <1>4. e2 \in Client /\ e2.offered = d.offered /\ e2.t2 = t2 /\ e2.state = d.state
    BY <1>1, <1>2, <1>3 DEF Client
  <1> HIDE DEF e2
  <1>5. e3 \in Client /\ e3.offered = d.offered /\ e3.t2 = t2 /\ e3.ip = d.offered /\ e3.state = d.state
    BY <1>4 DEF Client
  <1> HIDE DEF e3
  <1>6. e4 \in Client /\ e4.offered = d.offered /\ e4.t2 = t2 /\ e4.ip = d.offered /\ e4.state = d.state
    BY <1>5 DEF Client
  <1>7. dhcp_bind(d) = dhcp_set_state(e4, "BOUND")
    BY DEF dhcp_bind, t1, t2, e4, e3, e2, e1
  <1> HIDE DEF e4
  <1> QED
    BY <1>2, <1>6, <1>7, StateSet DEF States, SameLease

-----------------------------------------------------------------------------
\* The steps.  Without an address in use only the offered one matters.
LEMMA NotHolding ==
  ASSUME Typed', OfferedKept', ~Holding(dhcp)', dhcp'.state # "CHECKING"
  PROVE  LeaseInv'
  BY DEF LeaseInv, Holds, UntilT2, UntilGivingUp, UntilBound, Holding

LEMMA Numbers ==
  /\ Coarse \in Nat \ {0} /\ MaxDelay \in Nat /\ Lease \in Nat /\ MaxFaults \in Nat
  /\ TriesMod \in Nat /\ TriesMod >= 3 /\ TimerMod \in Nat /\ TimerMod >= 1
  /\ LongestWait \in Nat \ {0} /\ RebindTries \in Nat \ {0} /\ RebindTries + 1 < TriesMod
  /\ Rounded(T2) \in Nat
  /\ Lease >= MaxDelay + 2 + Coarse * Rounded(T2) + (RebindTries + 1) * LongestWait
  <1>1. T2 \in Nat
    BY DhcpAssumption
  <1>2. Rounded(T2) \in Nat /\ Rounded(T2) >= 1
    BY <1>1, RoundedTimes
  <1> QED
    BY <1>2, DhcpAssumption

LEMMA Tries ==
  /\ LastTries(0) \in Nat /\ LastTries(0) >= 1 /\ LastTries(0) = (RebindTries + 1) * LongestWait
  /\ LastTries(0) = LongestWait + LastTries(1)
  /\ \A n \in 1 .. RebindTries + 1 : LastTries(n) \in Nat
  /\ \A n \in 1 .. RebindTries : LastTries(n) = LongestWait + LastTries(n + 1)
  <1>1. LongestWait \in Nat \ {0} /\ RebindTries \in Nat \ {0}
    BY Numbers
  <1>2. \A a, b \in Nat : a * b \in Nat /\ (a + 1) * b = b + a * b
    OBVIOUS
  <1>3. \A n \in 0 .. RebindTries + 1 : RebindTries + 1 - n \in Nat
    BY <1>1
  <1>4. \A n \in 0 .. RebindTries : RebindTries + 1 - n = (RebindTries + 1 - (n + 1)) + 1
    BY <1>1
  <1>5. \A n \in 0 .. RebindTries + 1 : LastTries(n) \in Nat
    BY <1>1, <1>2, <1>3 DEF LastTries
  <1>6. \A n \in 0 .. RebindTries : LastTries(n) = LongestWait + LastTries(n + 1)
    <2> TAKE n \in 0 .. RebindTries
    <2> DEFINE k == RebindTries + 1 - (n + 1)
    <2>1. k \in Nat /\ LastTries(n + 1) = k * LongestWait
      BY <1>1, <1>3 DEF LastTries
    <2>2. LastTries(n) = (k + 1) * LongestWait
      BY <1>4 DEF LastTries
    <2> HIDE DEF k
    <2> QED
      BY <1>1, <1>2, <2>1, <2>2
  <1>7. LastTries(0) = (RebindTries + 1) * LongestWait
    BY <1>1 DEF LastTries
  <1>8. 0 \in 0 .. RebindTries /\ 0 \in 0 .. RebindTries + 1 /\ 1 .. RebindTries \subseteq 0 .. RebindTries
        /\ 1 \in 0 .. RebindTries + 1 /\ 1 .. RebindTries + 1 \subseteq 0 .. RebindTries + 1 /\ 0 + 1 = 1
    BY <1>1
  <1>9. LastTries(0) = LongestWait + LastTries(1)
    BY <1>6, <1>8
  <1>10. LastTries(0) >= 1
    BY <1>1, <1>5, <1>8, <1>9
  <1> QED
    BY <1>5, <1>6, <1>7, <1>8, <1>9, <1>10

\* Bound with enough of the lease left.
LEMMA BindKeeps ==
  ASSUME LeaseInv, Typed', NEW d \in Client, d.state # "BOUND", dhcp' = dhcp_bind(d),
         d.offered = server'.ip, server'.left >= Lease - MaxDelay - 2
  PROVE  LeaseInv'
  <1>1. /\ dhcp'.state = "BOUND" /\ dhcp'.ip = server'.ip /\ dhcp'.offered = server'.ip
        /\ dhcp'.t2 >= 1 /\ dhcp'.t2 <= Rounded(T2)
    BY Binding
  <1>2. dhcp'.t2 \in Nat /\ dhcpPhase' \in 0 .. Coarse /\ server'.left \in Nat
    BY Numbers DEF Typed, Client
  <1>3. Coarse * dhcp'.t2 <= Coarse * Rounded(T2) /\ Coarse * dhcp'.t2 \in Nat /\ Coarse * Rounded(T2) \in Nat
    BY <1>1, <1>2, Numbers
  <1>4. server'.left >= Coarse * dhcp'.t2 - dhcpPhase' + LastTries(0)
    BY <1>2, <1>3, Numbers, Tries
  <1> QED
    BY <1>1, <1>4 DEF LeaseInv, OfferedKept, Holds, UntilT2, UntilGivingUp, UntilBound

LEMMA FineTimer ==
  ASSUME LeaseInv, NEW fails \in BOOLEAN, dhcp_fine_tmr(fails)
  PROVE  LeaseInv'
  <1> DEFINE asked == Aged(dhcp.asked)
             rto   == Max({dhcp.rto - 1, 0})
             d1    == [dhcp EXCEPT !.asked = asked]
             d     == [d1 EXCEPT !.rto = rto]
  <1>1. /\ dhcp \in Client /\ dhcpPhase \in 0 .. Coarse /\ dhcpFaults \in 0 .. MaxFaults
        /\ server \in [ip : Leasable \cup {NoAddr}, left : Nat] /\ dhcp.rto \in Nat /\ dhcp.tries \in Nat
    BY Numbers DEF LeaseInv, Typed, Client
  <1>2. asked \subseteq Requests
    <2> SUFFICES ASSUME NEW m \in asked PROVE m \in Requests
      OBVIOUS
    <2>1. PICK n \in dhcp.asked : n.age < MaxDelay /\ m = [n EXCEPT !.age = @ + 1]
      BY DEF Aged
    <2>2. n \in Requests
      BY <1>1 DEF Client
    <2> QED
      BY <2>1, <2>2, Numbers DEF Requests
  <1>3. rto \in Nat /\ rto = IF dhcp.rto = 0 THEN 0 ELSE dhcp.rto - 1
    BY <1>1, MaxOfTwo
  <1>4. /\ dhcpPhase < Coarse /\ dhcpPhase' = dhcpPhase + 1
        /\ server' = [server EXCEPT !.left = Max({@ - 1, 0})]
        /\ dhcp' = (IF dhcp.rto = 1 THEN dhcp_timeout(d, fails) ELSE d)
        /\ dhcpFaults' \in 0 .. MaxFaults
    BY <1>1, Numbers DEF dhcp_fine_tmr, Fault
  <1> HIDE DEF asked, rto
  <1>5. d1 \in Client /\ d1.state = dhcp.state /\ SameLease(d1, dhcp) /\ d1.offered = dhcp.offered /\ d1.tries = dhcp.tries
    BY <1>1, <1>2 DEF Client, SameLease
  <1> HIDE DEF d1
  <1>6. /\ d \in Client /\ d.state = dhcp.state /\ SameLease(d, dhcp) /\ d.offered = dhcp.offered
        /\ d.tries = dhcp.tries /\ d.rto = rto
    BY <1>3, <1>5 DEF Client, SameLease
  <1> HIDE DEF d
  <1>7. /\ server' \in [ip : Leasable \cup {NoAddr}, left : Nat] /\ server'.ip = server.ip
        /\ server'.left \in Nat /\ server.left \in Nat /\ server'.left >= server.left - 1
    <2>1. server.left \in Nat
      BY <1>1
    <2>2. Max({server.left - 1, 0}) \in Nat /\ Max({server.left - 1, 0}) >= server.left - 1
      BY <2>1, MaxOfTwo
    <2> QED
      BY <1>1, <1>4, <2>1, <2>2
  <1>8. dhcpPhase' \in 0 .. Coarse
    BY <1>1, <1>4, Numbers
  <1>9. Holding(d) <=> Holding(dhcp)
    BY <1>6 DEF Holding, SameLease
  <1>10. OfferedKept /\ Holds /\ UntilT2(dhcp) /\ UntilGivingUp(dhcp) /\ UntilBound(dhcp)
    BY DEF LeaseInv
  <1>11. CASE dhcp' = d /\ (dhcp.rto # 1 \/ dhcp.state \in {"BOUND", "OFF"})
    <2>1. Typed'
      BY <1>4, <1>6, <1>7, <1>8, <1>11 DEF Typed
    <2>2. OfferedKept' /\ Holds'
      BY <1>6, <1>7, <1>9, <1>10, <1>11 DEF OfferedKept, Holds, Holding, SameLease
    <2>3. UntilT2(dhcp)'
      <3> SUFFICES ASSUME Holding(dhcp), dhcp.state \in {"BOUND", "RENEWING"}
                   PROVE  d.t2 >= 1 /\ server'.left >= Coarse * d.t2 - dhcpPhase' + LastTries(0)
        BY <1>6, <1>9, <1>11 DEF UntilT2, Holding
      <3>1. d.t2 = dhcp.t2 /\ dhcp.t2 \in Nat
        BY <1>1, <1>6, Numbers DEF SameLease, Client
      <3>2. dhcp.t2 >= 1 /\ server.left >= Coarse * dhcp.t2 - dhcpPhase + LastTries(0)
        BY <1>10 DEF UntilT2
      <3>3. Coarse * dhcp.t2 \in Nat
        BY <3>1, Numbers
      <3> QED
        BY <1>1, <1>4, <1>7, <3>1, <3>2, <3>3, Numbers, Tries
    <2>4. UntilGivingUp(dhcp)'
      <3> SUFFICES ASSUME Holding(dhcp), dhcp.state = "REBINDING"
                   PROVE  /\ d.tries \in 1 .. RebindTries + 1 /\ d.rto \in 1 .. LongestWait
                          /\ server'.left >= d.rto + LastTries(d.tries)
        BY <1>6, <1>9, <1>11 DEF UntilGivingUp, Holding
      <3>1. /\ dhcp.tries \in 1 .. RebindTries + 1 /\ dhcp.rto \in 1 .. LongestWait
            /\ server.left >= dhcp.rto + LastTries(dhcp.tries)
        BY <1>10 DEF UntilGivingUp
      <3>2. dhcp.rto # 1 /\ d.rto = dhcp.rto - 1
        BY <1>1, <1>3, <1>6, <1>11, <3>1
      <3> QED
        BY <1>6, <1>7, <3>1, <3>2, Numbers, Tries
    <2>5. UntilBound(dhcp)'
      BY <1>6, <1>10, <1>11 DEF UntilBound
    <2> QED
      BY <2>1, <2>2, <2>3, <2>4, <2>5 DEF LeaseInv
  <1>12. CASE dhcp' = dhcp_timeout(d, fails) /\ dhcp.rto = 1
    <2>1. dhcp' \in Client => Typed'
      BY <1>4, <1>7, <1>8 DEF Typed
    <2>2. CASE d.state \in {"BACKING_OFF", "SELECTING"}
      <3>1. dhcp' = dhcp_discover(d, fails)
        BY <1>12, <2>2 DEF dhcp_timeout
      <3>2. dhcp' \in Client /\ dhcp'.state = "SELECTING" /\ SameLease(dhcp', d)
        BY <1>6, <3>1, Discovering
      <3>3. ~Holding(dhcp)'
        BY <1>6, <1>9, <1>10, <2>2, <3>2 DEF Holds, Holding, SameLease
      <3> QED
        BY <2>1, <3>2, <3>3, NotHolding DEF OfferedKept
    <2>3. CASE d.state = "REQUESTING" /\ d.tries <= RequestTries
      <3>1. dhcp' = Ask(d, "REQUESTING", "request", d.offered, fails)
        BY <1>12, <2>3 DEF dhcp_timeout, dhcp_select
      <3>2. "REQUESTING" \in States \ {"BOUND"} /\ "request" \in Kinds /\ d.offered \in Leasable \cup {NoAddr}
        BY <1>6 DEF States, Kinds, Client
      <3>3. dhcp' \in Client /\ dhcp'.state = "REQUESTING" /\ SameLease(dhcp', d) /\ dhcp'.offered = d.offered
        BY <1>6, <3>1, <3>2, Asking DEF Asks
      <3>4. ~Holding(dhcp)'
        BY <1>6, <1>9, <1>10, <2>3, <3>3 DEF Holds, Holding, SameLease
      <3>5. OfferedKept'
        BY <1>6, <1>7, <1>10, <2>3, <3>3 DEF OfferedKept
      <3> QED
        BY <2>1, <3>3, <3>4, <3>5, NotHolding
    <2>4. CASE \/ d.state = "REQUESTING" /\ ~(d.tries <= RequestTries)
               \/ d.state = "REBINDING" /\ ~(d.tries <= RebindTries)
      <3>1. dhcp' = StartAgain(d, fails)
        <4>1. CASE d.state = "REQUESTING"
          BY <1>12, <2>4, <4>1 DEF dhcp_timeout
        <4>2. CASE d.state = "REBINDING"
          BY <1>12, <2>4, <4>2 DEF dhcp_timeout
        <4> QED
          BY <2>4, <4>1, <4>2
      <3>2. dhcp' \in Client /\ dhcp'.state = "SELECTING" /\ ~dhcp'.up
        BY <1>6, <3>1, StartingAgain
      <3> QED
        BY <2>1, <3>2, NotHolding DEF OfferedKept, Holding
    <2>5. CASE d.state = "CHECKING" /\ d.tries <= 1
      <3>1. dhcp' = dhcp_check(d)
        BY <1>12, <2>5 DEF dhcp_timeout
      <3>2. /\ dhcp' \in Client /\ dhcp'.state = "CHECKING" /\ SameLease(dhcp', d) /\ dhcp'.offered = d.offered
            /\ dhcp'.tries = d.tries + 1 /\ dhcp'.rto = 1
        BY <1>6, <2>5, <3>1, Checking
      <3>3. dhcp.timed /\ dhcp.tries = 1 /\ server.left >= Lease - MaxDelay - (dhcp.tries - 1)
        BY <1>1, <1>6, <1>10, <2>5 DEF UntilBound
      <3>4. UntilBound(dhcp)'
        BY <1>6, <1>7, <3>2, <3>3, Numbers DEF UntilBound, SameLease
      <3>5. ~Holding(dhcp)'
        BY <1>6, <1>9, <1>10, <2>5, <3>2 DEF Holds, Holding, SameLease
      <3>6. OfferedKept'
        BY <1>6, <1>7, <1>10, <2>5, <3>2 DEF OfferedKept
      <3> QED
        BY <2>1, <3>2, <3>4, <3>5, <3>6 DEF LeaseInv, Holds, UntilT2, UntilGivingUp, Holding
    <2>6. CASE d.state = "CHECKING" /\ ~(d.tries <= 1)
      <3>1. dhcp' = dhcp_bind(d)
        BY <1>12, <2>6 DEF dhcp_timeout
      <3>2. server.left >= Lease - MaxDelay - 1
        BY <1>1, <1>6, <1>7, <1>10, <2>6, Numbers DEF UntilBound
      <3>3. server'.left >= Lease - MaxDelay - 2
        BY <1>7, <3>2, Numbers
      <3>4. d.offered = server'.ip
        BY <1>6, <1>7, <1>10, <2>6 DEF OfferedKept
      <3>5. d.state # "BOUND"
        BY <2>6
      <3>6. dhcp' \in Client
        BY <1>6, <3>1, <3>5, Binding
      <3> QED
        BY <1>6, <2>1, <3>1, <3>3, <3>4, <3>5, <3>6, BindKeeps
    <2>7. CASE d.state = "RENEWING"
      <3>1. dhcp' = Ask(d, "RENEWING", "request", d.ip, fails)
        BY <1>12, <2>7 DEF dhcp_timeout, dhcp_renew
      <3>2. "RENEWING" \in States \ {"BOUND"} /\ "request" \in Kinds /\ d.ip \in Leasable \cup {NoAddr}
        BY <1>6 DEF States, Kinds, Client
      <3>3. dhcp' \in Client /\ dhcp'.state = "RENEWING" /\ SameLease(dhcp', d) /\ dhcp'.offered = d.offered
        BY <1>6, <3>1, <3>2, Asking, SMTT(30) DEF Asks
      <3>4. OfferedKept' /\ Holds'
        BY <1>6, <1>7, <1>9, <1>10, <2>7, <3>3 DEF OfferedKept, Holds, Holding, SameLease
      <3>5. UntilT2(dhcp)'
        <4> SUFFICES ASSUME Holding(dhcp)
                     PROVE  dhcp'.t2 >= 1 /\ server'.left >= Coarse * dhcp'.t2 - dhcpPhase' + LastTries(0)
          BY <1>6, <3>3 DEF UntilT2, Holding, SameLease
        <4>1. dhcp'.t2 = dhcp.t2 /\ dhcp.t2 \in Nat
          BY <1>1, <1>6, <3>3, Numbers DEF SameLease, Client
        <4>2. dhcp.t2 >= 1 /\ server.left >= Coarse * dhcp.t2 - dhcpPhase + LastTries(0)
          BY <1>6, <1>10, <2>7 DEF UntilT2
        <4>3. Coarse * dhcp.t2 \in Nat
          BY <4>1, Numbers
        <4> QED
          BY <1>1, <1>4, <1>7, <4>1, <4>2, <4>3, Numbers, Tries
      <3> QED
        BY <2>1, <3>3, <3>4, <3>5 DEF LeaseInv, UntilGivingUp, UntilBound
    <2>8. CASE d.state = "REBINDING" /\ d.tries <= RebindTries
      <3>1. dhcp' = Ask(d, "REBINDING", "request", d.ip, fails)
        BY <1>12, <2>8 DEF dhcp_timeout, dhcp_rebind
      <3>2. "REBINDING" \in States \ {"BOUND"} /\ "request" \in Kinds /\ d.ip \in Leasable \cup {NoAddr}
        BY <1>6 DEF States, Kinds, Client
      <3>3. /\ dhcp' \in Client /\ dhcp'.state = "REBINDING" /\ SameLease(dhcp', d) /\ dhcp'.offered = d.offered
            /\ dhcp'.tries = (d.tries + 1) % TriesMod /\ dhcp'.rto = Wait("REBINDING", dhcp'.tries)
        <4>1. d \in Client
          BY <1>6
        <4> QED
          BY <2>8, <3>1, <3>2, <4>1, Asking DEF Asks
      <3>4. OfferedKept' /\ Holds'
        BY <1>6, <1>7, <1>9, <1>10, <2>8, <3>3 DEF OfferedKept, Holds, Holding, SameLease
      <3>5. UntilGivingUp(dhcp)'
        <4> SUFFICES ASSUME Holding(dhcp)
                     PROVE  /\ dhcp'.tries \in 1 .. RebindTries + 1 /\ dhcp'.rto \in 1 .. LongestWait
                            /\ server'.left >= dhcp'.rto + LastTries(dhcp'.tries)
          BY <1>6, <3>3 DEF UntilGivingUp, Holding, SameLease
        <4>1. /\ dhcp.tries \in 1 .. RebindTries + 1
              /\ server.left >= 1 + LastTries(dhcp.tries)
          BY <1>6, <1>10, <1>12, <2>8 DEF UntilGivingUp
        <4>2. dhcp'.tries = dhcp.tries + 1 /\ dhcp.tries \in 1 .. RebindTries
          BY <1>6, <2>8, <3>3, <4>1, Numbers
        <4>3. dhcp'.rto \in 1 .. LongestWait
          <5>1. dhcp'.tries \in 0 .. TriesMod - 1 /\ dhcp'.tries >= 1
            BY <4>2, Numbers
          <5> QED
            BY <3>3, <5>1, WaitRange
        <4>4. LastTries(dhcp.tries) = LongestWait + LastTries(dhcp'.tries) /\ LastTries(dhcp'.tries) \in Nat
          BY <4>2, Numbers, Tries
        <4> QED
          BY <1>7, <4>1, <4>2, <4>3, <4>4, Numbers
      <3> QED
        BY <2>1, <3>3, <3>4, <3>5 DEF LeaseInv, UntilT2, UntilBound
    <2>9. CASE d.state = "REBOOTING"
      <3>1. ~Holding(d)
        BY <1>6, <1>9, <1>10, <2>9 DEF Holds
      <3>2. CASE d.tries < RebootTries
        <4>1. dhcp' = Ask(d, "REBOOTING", "request", d.offered, fails)
          BY <1>12, <2>9, <3>2 DEF dhcp_timeout, dhcp_reboot
        <4>2. "REBOOTING" \in States \ {"BOUND"} /\ "request" \in Kinds /\ d.offered \in Leasable \cup {NoAddr}
          BY <1>6 DEF States, Kinds, Client
        <4>3. dhcp' \in Client /\ dhcp'.state = "REBOOTING" /\ SameLease(dhcp', d) /\ dhcp'.offered = d.offered
          <5>1. d \in Client
            BY <1>6
          <5> QED
            BY <4>1, <4>2, <5>1, Asking DEF Asks
        <4>4. ~Holding(dhcp)' /\ OfferedKept'
          BY <1>6, <1>7, <1>10, <2>9, <3>1, <4>3 DEF OfferedKept, Holding, SameLease
        <4> QED
          BY <2>1, <4>3, <4>4, NotHolding
      <3>3. CASE ~(d.tries < RebootTries)
        <4>1. dhcp' = dhcp_discover(d, fails)
          BY <1>12, <2>9, <3>3 DEF dhcp_timeout
        <4>2. dhcp' \in Client /\ dhcp'.state = "SELECTING" /\ SameLease(dhcp', d)
          BY <1>6, <4>1, Discovering
        <4>3. ~Holding(dhcp)'
          BY <3>1, <4>2 DEF Holding, SameLease
        <4> QED
          BY <2>1, <4>2, <4>3, NotHolding DEF OfferedKept
      <3> QED
        BY <3>2, <3>3
    <2>10. CASE d.state \in {"OFF", "BOUND"}
      <3>1. dhcp' = d
        BY <1>12, <2>10 DEF dhcp_timeout
      <3> QED
        BY <1>6, <1>11, <2>10, <3>1
    <2> QED
      BY <1>6, <2>2, <2>3, <2>4, <2>5, <2>6, <2>7, <2>8, <2>9, <2>10 DEF Client, States
  <1> QED
    BY <1>4, <1>11, <1>12

LEMMA CoarseTimer ==
  ASSUME LeaseInv, NEW fails \in BOOLEAN, dhcp_coarse_tmr(fails)
  PROVE  LeaseInv'
  <1> DEFINE d2 == [dhcp EXCEPT !.t2 = Down(@)]
             d1 == [d2 EXCEPT !.t1 = Down(@)]
  <1>1. /\ dhcp \in Client /\ dhcpPhase \in 0 .. Coarse /\ dhcpFaults \in 0 .. MaxFaults
        /\ server \in [ip : Leasable \cup {NoAddr}, left : Nat] /\ server.left \in Nat
        /\ dhcp.t1 \in 0 .. TimerMod - 1 /\ dhcp.t2 \in 0 .. TimerMod - 1 /\ dhcp.t2 \in Nat
    BY Numbers DEF LeaseInv, Typed, Client
  <1>2. /\ dhcpPhase = Coarse /\ dhcpPhase' = 0 /\ server' = server /\ dhcpFaults' \in 0 .. MaxFaults
        /\ dhcp' = CASE dhcp.t2 = 1 /\ dhcp.state \in Renewable -> dhcp_rebind(d2, fails)
                      [] dhcp.t2 = 1 /\ dhcp.state \notin Renewable -> d2
                      [] dhcp.t2 # 1 /\ dhcp.t1 = 1 /\ dhcp.state \in Renewable -> dhcp_renew(d1, fails)
                      [] OTHER -> d1
    BY <1>1, Numbers DEF dhcp_coarse_tmr, Fault
  <1>3. \A t \in 0 .. TimerMod - 1 : Down(t) \in 0 .. TimerMod - 1 /\ (t >= 1 => Down(t) = t - 1)
    BY Numbers DEF Down
  <1>4. /\ d2 \in Client /\ d2.state = dhcp.state /\ d2.ip = dhcp.ip /\ d2.up = dhcp.up /\ d2.offered = dhcp.offered
        /\ d2.timed = dhcp.timed /\ d2.tries = dhcp.tries /\ d2.rto = dhcp.rto /\ d2.t2 = Down(dhcp.t2) /\ d2.t1 = dhcp.t1
    BY <1>1, <1>3 DEF Client
  <1> HIDE DEF d2
  <1>5. /\ d1 \in Client /\ d1.state = dhcp.state /\ d1.ip = dhcp.ip /\ d1.up = dhcp.up /\ d1.offered = dhcp.offered
        /\ d1.timed = dhcp.timed /\ d1.tries = dhcp.tries /\ d1.rto = dhcp.rto /\ d1.t2 = Down(dhcp.t2)
    BY <1>1, <1>3, <1>4 DEF Client
  <1> HIDE DEF d1
  <1>6. (Holding(d2) <=> Holding(dhcp)) /\ (Holding(d1) <=> Holding(dhcp))
    BY <1>4, <1>5 DEF Holding
  <1>7. OfferedKept /\ Holds /\ UntilT2(dhcp) /\ UntilGivingUp(dhcp) /\ UntilBound(dhcp)
    BY DEF LeaseInv
  <1>8. dhcp' \in Client => Typed'
    BY <1>1, <1>2, Numbers DEF Typed
  \* The time up to T2 goes on in full calls.
  <1>9. ASSUME Holding(dhcp), dhcp.state \in {"BOUND", "RENEWING"}, dhcp.t2 # 1
        PROVE  Down(dhcp.t2) >= 1 /\ server.left >= Coarse * Down(dhcp.t2) - 0 + LastTries(0)
    <2>1. dhcp.t2 >= 1 /\ server.left >= Coarse * dhcp.t2 - Coarse + LastTries(0)
      BY <1>2, <1>7, <1>9 DEF UntilT2
    <2>2. Down(dhcp.t2) = dhcp.t2 - 1 /\ Down(dhcp.t2) >= 1
      BY <1>1, <1>3, <1>9, <2>1
    <2>3. Coarse * (dhcp.t2 - 1) = Coarse * dhcp.t2 - Coarse /\ Coarse * dhcp.t2 \in Nat
      BY <1>1, Numbers
    <2>4. LastTries(0) \in Nat
      BY Tries
    <2> HIDE DEF d1, d2
    <2> QED
      BY <1>1, <2>1, <2>2, <2>3, <2>4, Numbers
  <1>10. CASE dhcp.t2 = 1 /\ dhcp.state \in Renewable
    <2>1. dhcp' = Ask(d2, "REBINDING", "request", d2.ip, fails)
      BY <1>2, <1>10 DEF dhcp_rebind
    <2>2. "REBINDING" \in States \ {"BOUND"} /\ "request" \in Kinds /\ d2.ip \in Leasable \cup {NoAddr} /\ d2 \in Client
      BY <1>4 DEF States, Kinds, Client
    <2>3. d2.state # "REBINDING"
      BY <1>4, <1>10 DEF Renewable
    <2>4. /\ dhcp' \in Client /\ dhcp'.state = "REBINDING" /\ SameLease(dhcp', d2) /\ dhcp'.offered = d2.offered
          /\ dhcp'.tries = 1 /\ dhcp'.rto = Wait("REBINDING", dhcp'.tries)
      <3>1. Asks(dhcp', d2, "REBINDING")
        BY <2>1, <2>2, Asking
      <3> QED
        BY <2>3, <3>1 DEF Asks
    <2>5. dhcp'.rto \in 1 .. LongestWait
      <3>1. dhcp'.tries \in 0 .. TriesMod - 1 /\ dhcp'.tries >= 1
        BY <2>4, Numbers
      <3> QED
        BY <2>4, <3>1, WaitRange
    <2>6. OfferedKept' /\ Holds'
      BY <1>2, <1>4, <1>6, <1>7, <1>10, <2>4 DEF OfferedKept, Holds, Holding, SameLease, Renewable
    <2>7. UntilGivingUp(dhcp)'
      <3> SUFFICES ASSUME Holding(dhcp)
                   PROVE  /\ dhcp'.tries \in 1 .. RebindTries + 1 /\ dhcp'.rto \in 1 .. LongestWait
                          /\ server'.left >= dhcp'.rto + LastTries(dhcp'.tries)
        BY <1>4, <2>4 DEF UntilGivingUp, Holding, SameLease
      <3>1. server.left >= Coarse * 1 - Coarse + LastTries(0)
        BY <1>2, <1>7, <1>10 DEF UntilT2, Holds, Renewable
      <3>2. LastTries(0) = LongestWait + LastTries(1) /\ LastTries(1) \in Nat
        BY Numbers, Tries
      <3>3. server.left >= LongestWait + LastTries(1)
        BY <1>1, <3>1, <3>2, Numbers
      <3>4. dhcp'.tries \in 1 .. RebindTries + 1
        BY <2>4, Numbers
      <3>5. server'.left >= dhcp'.rto + LastTries(dhcp'.tries)
        BY <1>1, <1>2, <2>4, <2>5, <3>2, <3>3, Numbers
      <3> QED
        BY <2>5, <3>4, <3>5
    <2> QED
      BY <1>8, <2>4, <2>6, <2>7 DEF LeaseInv, UntilT2, UntilBound
  <1>11. CASE dhcp.t2 # 1 /\ dhcp.t1 = 1 /\ dhcp.state \in Renewable
    <2>1. dhcp' = Ask(d1, "RENEWING", "request", d1.ip, fails)
      BY <1>2, <1>11 DEF dhcp_renew
    <2>2. "RENEWING" \in States \ {"BOUND"} /\ "request" \in Kinds /\ d1.ip \in Leasable \cup {NoAddr} /\ d1 \in Client
      BY <1>5 DEF States, Kinds, Client
    <2>3. dhcp' \in Client /\ dhcp'.state = "RENEWING" /\ SameLease(dhcp', d1) /\ dhcp'.offered = d1.offered
      <3>1. Asks(dhcp', d1, "RENEWING")
        BY <2>1, <2>2, Asking
      <3> QED
        BY <3>1 DEF Asks
    <2>4. OfferedKept' /\ Holds'
      BY <1>2, <1>5, <1>6, <1>7, <1>11, <2>3 DEF OfferedKept, Holds, Holding, SameLease, Renewable
    <2>5. UntilT2(dhcp)'
      <3> SUFFICES ASSUME Holding(dhcp)
                   PROVE  dhcp'.t2 >= 1 /\ server'.left >= Coarse * dhcp'.t2 - dhcpPhase' + LastTries(0)
        BY <1>5, <2>3 DEF UntilT2, Holding, SameLease
      <3>1. dhcp'.t2 = Down(dhcp.t2)
        BY <1>5, <2>3 DEF SameLease
      <3>2. dhcp.state \in {"BOUND", "RENEWING"}
        BY <1>7, <1>11 DEF Holds, Renewable
      <3> QED
        BY <1>2, <1>9, <1>11, <3>1, <3>2
    <2> QED
      BY <1>8, <2>3, <2>4, <2>5 DEF LeaseInv, UntilGivingUp, UntilBound
  <1>12. ASSUME NEW d \in {d1, d2}, dhcp' = d, dhcp.t2 = 1 => dhcp.state \notin Renewable PROVE LeaseInv'
    <2>1. /\ d \in Client /\ d.state = dhcp.state /\ d.ip = dhcp.ip /\ d.up = dhcp.up /\ d.offered = dhcp.offered
          /\ d.timed = dhcp.timed /\ d.tries = dhcp.tries /\ d.rto = dhcp.rto /\ d.t2 = Down(dhcp.t2)
      BY <1>4, <1>5, <1>12
    <2>2. OfferedKept' /\ Holds'
      BY <1>2, <1>7, <1>12, <2>1 DEF OfferedKept, Holds, Holding
    <2>3. UntilT2(dhcp)'
      <3> SUFFICES ASSUME Holding(dhcp), dhcp.state \in {"BOUND", "RENEWING"}
                   PROVE  d.t2 >= 1 /\ server'.left >= Coarse * d.t2 - dhcpPhase' + LastTries(0)
        BY <1>12, <2>1 DEF UntilT2, Holding
      <3>1. dhcp.t2 # 1
        BY <1>12 DEF Renewable
      <3> QED
        BY <1>2, <1>9, <2>1, <3>1
    <2>4. UntilGivingUp(dhcp)' /\ UntilBound(dhcp)'
      BY <1>2, <1>7, <1>12, <2>1 DEF UntilGivingUp, UntilBound, Holding
    <2> QED
      BY <1>8, <1>12, <2>1, <2>2, <2>3, <2>4 DEF LeaseInv
  <1>13. CASE dhcp.t2 = 1 /\ dhcp.state \notin Renewable
    BY <1>2, <1>12, <1>13
  <1>14. CASE dhcp.t2 # 1 /\ ~(dhcp.t1 = 1 /\ dhcp.state \in Renewable)
    <2>1. dhcp' = d1
      BY <1>2, <1>14
    <2> QED
      BY <1>12, <1>14, <2>1
  <1> QED
    BY <1>10, <1>11, <1>13, <1>14

LEMMA Offered ==
  ASSUME LeaseInv, NEW ip \in Leasable, NEW fails \in BOOLEAN, Offer(ip, fails)
  PROVE  LeaseInv'
  <1> DEFINE d1 == [dhcp EXCEPT !.offered = ip]
             d  == [d1 EXCEPT !.rto = 0]
  <1>1. /\ dhcp \in Client /\ dhcpPhase' \in 0 .. Coarse /\ dhcpFaults' \in 0 .. MaxFaults
        /\ server' \in [ip : Leasable \cup {NoAddr}, left : Nat] /\ server'.ip = ip
        /\ dhcp.state = "SELECTING" /\ dhcp' = dhcp_select(d, fails)
    BY Numbers DEF LeaseInv, Typed, Offer, Fault
  <1>2. d1 \in Client /\ d1.offered = ip /\ d1.ip = dhcp.ip /\ d1.up = dhcp.up
    BY <1>1 DEF Client
  <1> HIDE DEF d1
  <1>3. d \in Client /\ d.offered = ip /\ d.ip = dhcp.ip /\ d.up = dhcp.up
    BY <1>2 DEF Client
  <1> HIDE DEF d
  <1>4. "REQUESTING" \in States \ {"BOUND"} /\ "request" \in Kinds /\ d.offered \in Leasable \cup {NoAddr} /\ d \in Client
    BY <1>3 DEF States, Kinds
  <1>5. dhcp' \in Client /\ dhcp'.state = "REQUESTING" /\ SameLease(dhcp', d) /\ dhcp'.offered = d.offered
    <2>1. Asks(dhcp', d, "REQUESTING")
      BY <1>1, <1>4, Asking DEF dhcp_select
    <2> QED
      BY <2>1 DEF Asks
  <1>6. ~Holding(dhcp)' /\ OfferedKept'
    BY <1>1, <1>3, <1>5 DEF LeaseInv, Holds, Holding, SameLease, OfferedKept
  <1> QED
    BY <1>1, <1>5, <1>6, NotHolding DEF Typed

LEMMA Acknowledged ==
  ASSUME LeaseInv, NEW m \in dhcp.asked, Acknowledge(m)
  PROVE  LeaseInv'
  <1>1. /\ dhcp \in Client /\ dhcpPhase' \in 0 .. Coarse /\ dhcpFaults' \in 0 .. MaxFaults
        /\ server \in [ip : Leasable \cup {NoAddr}, left : Nat] /\ server.left \in Nat
        /\ dhcp.state \in {"REQUESTING", "REBOOTING", "REBINDING", "RENEWING"}
        /\ dhcp' = Ack(m) /\ m.ip = server.ip
        /\ server' = [server EXCEPT !.left = Max({@, Lease - m.age})]
    BY DEF LeaseInv, Typed, Acknowledge
  <1>2. m.ip \in Leasable \cup {NoAddr} /\ m.age \in 0 .. MaxDelay
    BY <1>1 DEF Client, Requests
  <1>3. Max({server.left, Lease - m.age}) \in Nat /\ Max({server.left, Lease - m.age}) >= Lease - MaxDelay
    <2>1. Lease - m.age \in Int /\ Lease - m.age >= Lease - MaxDelay
      BY <1>2, Numbers
    <2>2. Max({server.left, Lease - m.age}) = IF server.left >= Lease - m.age THEN server.left ELSE Lease - m.age
      BY <1>1, <2>1, MaxOfTwo
    <2> QED
      BY <1>1, <2>1, <2>2, Numbers
  <1>4. /\ server' \in [ip : Leasable \cup {NoAddr}, left : Nat] /\ server'.ip = server.ip
        /\ server'.left \in Nat /\ server'.left >= Lease - MaxDelay
    BY <1>1, <1>3
  <1>5. dhcp' \in Client => Typed'
    BY <1>1, <1>4 DEF Typed
  <1>6. CASE dhcp.state = "REQUESTING"
    <2> DEFINE d1 == [dhcp EXCEPT !.offered = m.ip]
               d  == [d1 EXCEPT !.timed = TRUE]
    <2>1. d1 \in Client /\ d1.offered = m.ip /\ d1.ip = dhcp.ip /\ d1.up = dhcp.up /\ d1.state = dhcp.state
      BY <1>1, <1>2 DEF Client
    <2> HIDE DEF d1
    <2>2. d \in Client /\ d.offered = m.ip /\ d.ip = dhcp.ip /\ d.up = dhcp.up /\ d.state = dhcp.state /\ d.timed
      BY <2>1 DEF Client
    <2>3. dhcp' = dhcp_check(d)
      BY <1>1, <1>6 DEF Ack, d1
    <2> HIDE DEF d
    <2>4. d.state # "CHECKING"
      BY <1>6, <2>2
    <2>5. /\ dhcp' \in Client /\ dhcp'.state = "CHECKING" /\ SameLease(dhcp', d) /\ dhcp'.offered = d.offered
          /\ dhcp'.tries = 1 /\ dhcp'.rto = 1
      BY <2>2, <2>3, <2>4, Checking
    <2>6. UntilBound(dhcp)'
      BY <1>4, <2>2, <2>5, Numbers DEF UntilBound, SameLease
    <2>7. ~Holding(dhcp)' /\ OfferedKept'
      BY <1>1, <1>4, <1>6, <2>2, <2>5 DEF LeaseInv, Holds, Holding, SameLease, OfferedKept
    <2> QED
      BY <1>5, <2>5, <2>6, <2>7 DEF LeaseInv, Holds, UntilT2, UntilGivingUp, Holding
  <1>7. CASE dhcp.state # "REQUESTING"
    <2>1. dhcp' = dhcp_bind(dhcp) /\ dhcp.state # "BOUND"
      BY <1>1, <1>7 DEF Ack
    <2>2. dhcp.offered = server'.ip
      BY <1>1, <1>4, <1>7 DEF LeaseInv, OfferedKept
    <2>3. dhcp' \in Client
      BY <1>1, <2>1, Binding
    <2>4. server'.left >= Lease - MaxDelay - 2
      BY <1>4, Numbers
    <2> QED
      BY <1>1, <1>5, <2>1, <2>2, <2>3, <2>4, BindKeeps
  <1> QED
    BY <1>6, <1>7

LEMMA Refused ==
  ASSUME LeaseInv, NEW fails \in BOOLEAN, Nak(fails)
  PROVE  LeaseInv'
  <1>1. /\ dhcp \in Client /\ dhcpPhase' \in 0 .. Coarse /\ dhcpFaults' \in 0 .. MaxFaults
        /\ server' \in [ip : Leasable \cup {NoAddr}, left : Nat] /\ dhcp' = dhcp_handle_nak(dhcp, fails)
    BY Numbers DEF LeaseInv, Typed, Nak
  <1>2. dhcp' \in Client /\ dhcp'.state = "SELECTING" /\ ~dhcp'.up
    BY <1>1, HandlingNak
  <1> QED
    BY <1>1, <1>2, NotHolding DEF Typed, Holding, OfferedKept

LEMMA InUseElsewhere ==
  ASSUME LeaseInv, ArpReply
  PROVE  LeaseInv'
  <1>1. /\ dhcp \in Client /\ dhcpPhase' \in 0 .. Coarse /\ dhcpFaults' \in 0 .. MaxFaults
        /\ server' \in [ip : Leasable \cup {NoAddr}, left : Nat] /\ dhcp.state = "CHECKING"
        /\ dhcp' = Ask(dhcp, "BACKING_OFF", "decline", dhcp.ip, FALSE)
    BY Numbers DEF LeaseInv, Typed, ArpReply, Fault, dhcp_decline
  <1>2. "BACKING_OFF" \in States \ {"BOUND"} /\ "decline" \in Kinds /\ dhcp.ip \in Leasable \cup {NoAddr}
    BY <1>1 DEF States, Kinds, Client
  <1>3. dhcp' \in Client /\ dhcp'.state = "BACKING_OFF" /\ SameLease(dhcp', dhcp)
    <2>1. Asks(dhcp', dhcp, "BACKING_OFF")
      BY <1>1, <1>2, Asking
    <2> QED
      BY <2>1 DEF Asks
  <1>4. ~Holding(dhcp)'
    BY <1>1, <1>3 DEF LeaseInv, Holds, Holding, SameLease
  <1> QED
    BY <1>1, <1>3, <1>4, NotHolding DEF Typed, OfferedKept

LEMMA LinkChanges ==
  ASSUME LeaseInv, dhcp_network_changed
  PROVE  LeaseInv'
  <1> DEFINE d == [dhcp EXCEPT !.tries = 0]
             e == [d EXCEPT !.up = FALSE]
  <1>1. /\ dhcp \in Client /\ dhcpPhase' \in 0 .. Coarse /\ dhcpFaults' \in 0 .. MaxFaults
        /\ server' \in [ip : Leasable \cup {NoAddr}, left : Nat] /\ server' = server
    BY Numbers DEF LeaseInv, Typed, dhcp_network_changed, Fault
  <1>2. d \in Client /\ d.ip = dhcp.ip /\ d.up = dhcp.up /\ d.offered = dhcp.offered /\ d.state = dhcp.state
    BY <1>1, Numbers DEF Client
  <1>3. dhcp' = CASE dhcp.state \in {"REBINDING", "RENEWING", "BOUND", "REBOOTING"} -> dhcp_reboot(e, FALSE)
                  [] dhcp.state = "OFF" -> dhcp
                  [] OTHER -> dhcp_discover(d, FALSE)
    BY DEF dhcp_network_changed
  <1> HIDE DEF d
  <1>4. e \in Client /\ e.up = FALSE /\ e.offered = dhcp.offered
    BY <1>2 DEF Client
  <1> HIDE DEF e
  <1>5. dhcp' \in Client => Typed'
    BY <1>1 DEF Typed
  <1>6. CASE dhcp.state \in {"REBINDING", "RENEWING", "BOUND", "REBOOTING"}
    <2>1. dhcp' = Ask(e, "REBOOTING", "request", e.offered, FALSE)
      BY <1>3, <1>6 DEF dhcp_reboot
    <2>2. "REBOOTING" \in States \ {"BOUND"} /\ "request" \in Kinds /\ e.offered \in Leasable \cup {NoAddr}
      BY <1>4 DEF States, Kinds, Client
    <2>3. dhcp' \in Client /\ dhcp'.state = "REBOOTING" /\ SameLease(dhcp', e) /\ dhcp'.offered = e.offered
      <3>1. Asks(dhcp', e, "REBOOTING")
        BY <1>4, <2>1, <2>2, Asking
      <3> QED
        BY <3>1 DEF Asks
    <2>4. ~Holding(dhcp)' /\ OfferedKept'
      BY <1>1, <1>4, <1>6, <2>3 DEF LeaseInv, Holding, SameLease, OfferedKept
    <2> QED
      BY <1>5, <2>3, <2>4, NotHolding
  <1>7. CASE dhcp.state = "OFF"
    <2>1. dhcp' = dhcp
      BY <1>3, <1>7
    <2> QED
      BY <1>1, <1>5, <1>7, <2>1, NotHolding DEF LeaseInv, Holds, Holding, OfferedKept
  <1>8. CASE dhcp.state \notin {"REBINDING", "RENEWING", "BOUND", "REBOOTING", "OFF"}
    <2>1. dhcp' = dhcp_discover(d, FALSE)
      BY <1>3, <1>8
    <2>2. dhcp' \in Client /\ dhcp'.state = "SELECTING" /\ SameLease(dhcp', d)
      BY <1>2, <2>1, Discovering
    <2>3. ~Holding(dhcp)'
      BY <1>2, <1>8, <2>2 DEF LeaseInv, Holds, Holding, SameLease
    <2> QED
      BY <1>5, <2>2, <2>3, NotHolding DEF OfferedKept
  <1> QED
    BY <1>6, <1>7, <1>8

LEMMA InitLeaseInv == DhcpInit => LeaseInv
  <1> SUFFICES ASSUME DhcpInit PROVE LeaseInv
    OBVIOUS
  <1> DEFINE d == [state |-> "OFF", tries |-> 0, rto |-> 0, t1 |-> 0, t2 |-> 0, timed |-> FALSE,
                   offered |-> NoAddr, ip |-> NoAddr, up |-> TRUE, asked |-> {}]
  <1>1. d \in Client /\ d.ip = NoAddr
    BY Numbers DEF Client, States
  <1>2. dhcp = dhcp_discover(d, FALSE)
    BY DEF DhcpInit
  <1> HIDE DEF d
  <1>3. dhcp \in Client /\ dhcp.state = "SELECTING" /\ dhcp.ip = NoAddr
    BY <1>1, <1>2, Discovering DEF SameLease
  <1>4. /\ dhcpPhase \in 0 .. Coarse /\ dhcpFaults \in 0 .. MaxFaults
        /\ server \in [ip : Leasable \cup {NoAddr}, left : Nat]
    BY Numbers DEF DhcpInit
  <1> QED
    BY <1>3, <1>4 DEF LeaseInv, Typed, OfferedKept, Holds, UntilT2, UntilGivingUp, UntilBound, Holding

LEMMA StepLeaseInv == LeaseInv /\ [DhcpNext]_dhcpVars => LeaseInv'
  <1> SUFFICES ASSUME LeaseInv, [DhcpNext]_dhcpVars PROVE LeaseInv'
    OBVIOUS
  <1>1. CASE UNCHANGED dhcpVars
    BY <1>1 DEF dhcpVars, LeaseInv, Typed, OfferedKept, Holds, UntilT2, UntilGivingUp, UntilBound, Holding
  <1>2. CASE DhcpNext
    BY <1>2, FineTimer, CoarseTimer, Offered, Acknowledged, Refused, InUseElsewhere, LinkChanges DEF DhcpNext
  <1> QED
    BY <1>1, <1>2

LEMMA LeaseInvHolds == LeaseInv => LeaseHeld
  <1> SUFFICES ASSUME LeaseInv PROVE LeaseHeld
    OBVIOUS
  <1>1. DhcpTypeOK
    BY DEF LeaseInv, Typed, Client, States, DhcpTypeOK
  <1>2. ASSUME Holding(dhcp) PROVE server.left > 0 /\ dhcp.ip = server.ip
    <2>1. /\ dhcp.t2 \in Nat /\ dhcpPhase \in 0 .. Coarse /\ server.left \in Nat /\ dhcp.rto \in Nat
      BY Numbers DEF LeaseInv, Typed, Client
    <2>2. CASE dhcp.state \in {"BOUND", "RENEWING"}
      <3>1. dhcp.t2 >= 1 /\ server.left >= Coarse * dhcp.t2 - dhcpPhase + LastTries(0)
        BY <1>2, <2>2 DEF LeaseInv, UntilT2
      <3>2. Coarse * dhcp.t2 >= Coarse /\ Coarse * dhcp.t2 \in Nat
        BY <2>1, <3>1, Numbers
      <3>3. server.left > 0
        BY <2>1, <3>1, <3>2, Numbers, Tries
      <3> QED
        BY <1>2, <3>3 DEF LeaseInv, Holds
    <2>3. CASE dhcp.state = "REBINDING"
      <3>1. /\ dhcp.tries \in 1 .. RebindTries + 1 /\ dhcp.rto \in 1 .. LongestWait
            /\ server.left >= dhcp.rto + LastTries(dhcp.tries)
        BY <1>2, <2>3 DEF LeaseInv, UntilGivingUp
      <3>2. LastTries(dhcp.tries) \in Nat
        BY <3>1, Tries
      <3>3. server.left > 0
        BY <2>1, <3>1, <3>2, Numbers
      <3> QED
        BY <1>2, <3>3 DEF LeaseInv, Holds
    <2> QED
      BY <1>2, <2>2, <2>3 DEF LeaseInv, Holds
  <1> QED
    BY <1>1, <1>2 DEF LeaseHeld, Holding

\* The timers, dhcp_recv, dhcp_arp_reply and dhcp_network_changed leave a client
\* that holds an address the time it takes to give it up.
THEOREM LeaseInvariance == DhcpSpec => []LeaseInv
  BY InitLeaseInv, StepLeaseInv, PTL DEF DhcpSpec

-----------------------------------------------------------------------------
\* Whatever is lost, late or refused, the interface uses no address but the one
\* the server keeps for it, and not beyond its lease: dhcp_timeout gives it up
\* after the tries of dhcp_rebind (dhcp.c:441), if T2 leaves the time for them.
THEOREM LeaseIsHeld == DhcpSpec => []LeaseHeld
  BY LeaseInvariance, LeaseInvHolds, PTL

-----------------------------------------------------------------------------
(***************************************************************************)
(* AutoIP.  A pair of hosts is told apart by frames: the one with the      *)
(* fewer probes has sent no more of them than frames were lost, or one     *)
(* more, and then the frame that shows it the other is under way.          *)
(***************************************************************************)
\* How far a host has come with its address: the probes sent, and all of them from
\* the announcements on.
Prog(a) == IF a.state = "PROBING" THEN a.sent_num ELSE ProbeNum

\* Who is past the probes and the first announcement has the address, nobody else is
\* up, and a host that runs is after an address.
HostOK(a) ==
    /\ a.state # "OFF" => a.llipaddr # NoIp
    /\ a.up => a.state \in {"ANNOUNCING", "BOUND"} /\ ~Early(a)
    /\ a.state # "OFF" /\ ~Early(a) => a.up /\ a.ip = a.llipaddr

\* Two hosts after the same address.  One of them has come no further than frames were
\* lost, or by one probe, and a frame that will show it the other is under way.
Rivals(a, b) == a.state # "OFF" /\ b.state # "OFF" /\ a.link /\ b.link /\ a.llipaddr = b.llipaddr
Behind(a, b, n) == Prog(a) <= n \/ Prog(b) <= n
Coming(x, y) == \E f \in frames : /\ f.from = x /\ f.to = y
                                  /\ \/ f.sip = autoip[y].llipaddr
                                     \/ f.request /\ f.dip = autoip[y].llipaddr
PairOK(x, y) ==
    Rivals(autoip[x], autoip[y]) =>
        \/ Behind(autoip[x], autoip[y], lostFrames)
        \/ /\ Behind(autoip[x], autoip[y], lostFrames + 1)
           /\ Early(autoip[x]) \/ Early(autoip[y])
           /\ Coming(x, y) \/ Coming(y, x)

HostsOK == \A x \in Hosts : HostOK(autoip[x])
PairsOK == \A x, y \in Hosts : x # y => PairOK(x, y)

AutoInv == AutoipTypeOK /\ HostsOK /\ PairsOK

-----------------------------------------------------------------------------
LEMMA ConstantsAre ==
  /\ \A h \in Hosts : Seed[h] \in Nat /\ Seed[h] < 65536
  /\ \A wait \in FirstWaits \cup ProbeWaits : wait \in Nat
  /\ AnnounceWait \in Nat /\ AnnounceInterval \in Nat /\ RateLimitInterval \in Nat
  /\ DefendInterval \in Nat /\ MaxLost \in Nat /\ MaxChanges \in Nat /\ ProbeNum \in Nat
  <1>1. Seed \in [Hosts -> Nat] /\ \A h \in Hosts : Seed[h] < 65536
    BY AutoipAssumption
  <1>2. FirstWaits \cup ProbeWaits \subseteq Nat
    BY AutoipAssumption
  <1>3. /\ AnnounceWait \in Nat /\ AnnounceInterval \in Nat /\ RateLimitInterval \in Nat
        /\ DefendInterval \in Nat /\ MaxLost \in Nat /\ MaxChanges \in Nat
    BY AutoipAssumption
  <1>4. ProbeNum \in Nat
    BY AutoipAssumption
  <1> QED  BY <1>1, <1>2, <1>3, <1>4

LEMMA InvGivesOneUser == AutoInv => OneUser
  <1> SUFFICES ASSUME AutoInv, lostFrames < ProbeNum, NEW x \in Hosts, NEW y \in Hosts,
                      autoip[x].up, autoip[x].link, autoip[y].up, autoip[y].link,
                      autoip[x].ip = autoip[y].ip, x # y
               PROVE  FALSE
    BY DEF OneUser
  <1>1. /\ autoip[x] \in HostType /\ autoip[y] \in HostType /\ lostFrames \in Nat /\ ProbeNum \in Nat
        /\ HostOK(autoip[x]) /\ HostOK(autoip[y]) /\ PairOK(x, y)
    BY ConstantsAre DEF AutoInv, AutoipTypeOK, HostsOK, PairsOK
  <1>2. /\ autoip[x].state \in {"ANNOUNCING", "BOUND"} /\ ~Early(autoip[x])
        /\ autoip[y].state \in {"ANNOUNCING", "BOUND"} /\ ~Early(autoip[y])
        /\ autoip[x].llipaddr = autoip[y].llipaddr
    BY <1>1 DEF HostOK
  <1>3. Rivals(autoip[x], autoip[y])
    BY <1>2 DEF Rivals
  <1>4. Prog(autoip[x]) = ProbeNum /\ Prog(autoip[y]) = ProbeNum
    BY <1>2 DEF Prog
  <1>5. Behind(autoip[x], autoip[y], lostFrames)
    BY <1>1, <1>2, <1>3 DEF PairOK
  <1> QED  BY <1>1, <1>4, <1>5 DEF Behind

-----------------------------------------------------------------------------
(* The functions of the code, on the record of one host. *)

Begun(b) == b.state = "PROBING" /\ b.sent_num = 0 /\ ~b.up /\ b.llipaddr # NoIp

LEMMA BegunOK ==
  ASSUME NEW b \in HostType, Begun(b)
  PROVE  HostOK(b) /\ Prog(b) = 0
  BY DEF Begun, HostOK, Early, Prog

LEMMA StartProbingIs ==
  ASSUME NEW a \in HostType, NEW wait \in FirstWaits
  PROVE  LET b == autoip_start_probing(a, wait) IN
         b \in HostType /\ b.state = "PROBING" /\ b.sent_num = 0
         /\ b.up = a.up /\ b.link = a.link /\ b.llipaddr = a.llipaddr
  <1> DEFINE w == IF a.tried_llipaddr > MaxConflicts THEN RateLimitInterval ELSE wait
  <1>1. w \in Nat
    BY ConstantsAre
  <1>2. autoip_start_probing(a, wait) = [a EXCEPT !.state = "PROBING", !.sent_num = 0, !.ttw = w]
    BY DEF autoip_start_probing
  <1> HIDE DEF w
  <1> DEFINE b == [a EXCEPT !.state = "PROBING", !.sent_num = 0, !.ttw = w]
  <1>3. b.state = "PROBING" /\ b.sent_num = 0
    BY DEF HostType
  <1>4. b.up = a.up /\ b.link = a.link
    BY DEF HostType
  <1>5. b.llipaddr = a.llipaddr
    BY DEF HostType
  <1>6. b \in HostType
    BY <1>1 DEF HostType
  <1> QED  BY <1>2, <1>3, <1>4, <1>5, <1>6

LEMMA AddressIsLinkLocal ==
  ASSUME NEW h \in Hosts, NEW tried \in 0 .. 255
  PROVE  autoip_create_addr(h, tried) \in LinkLocal /\ autoip_create_addr(h, tried) # NoIp
  <1>1. Seed[h] \in Nat /\ Seed[h] < 65536
    BY ConstantsAre
  <1> DEFINE addr == (256 + Seed[h] + tried) % 65536
  <1>2. addr \in Nat /\ addr < 65536
    BY <1>1
  <1>3. autoip_create_addr(h, tried)
            = IF addr < 256 THEN addr + 65024 ELSE IF addr > 65279 THEN addr - 65024 ELSE addr
    BY DEF autoip_create_addr
  <1> HIDE DEF addr
  <1> QED  BY <1>2, <1>3 DEF LinkLocal, NoIp

LEMMA StartIs ==
  ASSUME NEW h \in Hosts, NEW a \in HostType, NEW wait \in FirstWaits
  PROVE  LET b == autoip_start(h, a, wait) IN b \in HostType /\ Begun(b) /\ b.link = a.link
  <1> DEFINE addr == autoip_create_addr(h, a.tried_llipaddr)
             c == [a EXCEPT !.up = FALSE, !.ip = NoIp, !.lastconflict = 0, !.llipaddr = addr]
  <1>1. addr \in LinkLocal /\ addr # NoIp
    BY AddressIsLinkLocal DEF HostType
  <1>2. NoIp \in LinkLocal /\ 0 \in 0 .. DefendInterval
    BY ConstantsAre DEF LinkLocal, NoIp
  <1>3. autoip_start(h, a, wait) = autoip_start_probing(c, wait)
    BY DEF autoip_start
  <1> HIDE DEF addr
  <1>4. c \in HostType /\ c.up = FALSE /\ c.link = a.link
    BY <1>1, <1>2 DEF HostType
  <1>5. c.llipaddr # NoIp
    BY <1>1 DEF HostType
  <1> HIDE DEF c
  <1> QED  BY <1>3, <1>4, <1>5, StartProbingIs DEF Begun

LEMMA RestartIs ==
  ASSUME NEW h \in Hosts, NEW a \in HostType, NEW wait \in FirstWaits
  PROVE  LET b == autoip_restart(h, a, wait) IN b \in HostType /\ Begun(b) /\ b.link = a.link
  <1> DEFINE n == (a.tried_llipaddr + 1) % 256
             c == [a EXCEPT !.tried_llipaddr = n]
  <1>1. n \in 0 .. 255
    BY DEF HostType
  <1>2. autoip_restart(h, a, wait) = autoip_start(h, c, wait)
    BY DEF autoip_restart
  <1> HIDE DEF n
  <1>3. c \in HostType /\ c.link = a.link
    BY <1>1 DEF HostType
  <1> HIDE DEF c
  <1> QED  BY <1>2, <1>3, StartIs

\* What autoip_tmr and an answered conflict leave of a host.
Alike(a, b) ==
    /\ b.state = a.state /\ b.sent_num = a.sent_num /\ b.llipaddr = a.llipaddr
    /\ b.ip = a.ip /\ b.up = a.up /\ b.link = a.link

LEMMA LaterIs ==
  ASSUME NEW a \in HostType
  PROVE  LET b == Later(a) IN b \in HostType /\ Alike(a, b) /\ b.ttw = a.ttw
  <1> DEFINE n == IF a.lastconflict > 0 THEN a.lastconflict - 1 ELSE 0
  <1>1. n \in 0 .. DefendInterval
    BY ConstantsAre DEF HostType
  <1>2. Later(a) = [a EXCEPT !.lastconflict = n]
    BY DEF Later
  <1> HIDE DEF n
  <1> QED  BY <1>1, <1>2 DEF HostType, Alike

LEMMA AlikeOK ==
  ASSUME NEW a \in HostType, NEW b \in HostType, Alike(a, b)
  PROVE  (HostOK(a) => HostOK(b)) /\ Prog(b) = Prog(a) /\ (Early(b) <=> Early(a))
  BY DEF Alike, HostOK, Prog, Early
-----------------------------------------------------------------------------
(* Pairs of hosts. *)

LEMMA PairSymmetric ==
  ASSUME NEW x, NEW y, PairOK(x, y)
  PROVE  PairOK(y, x)
  BY DEF PairOK, Rivals, Behind

\* The step of one host: the pairs it is not in stay as they are.
LEMMA HostSteps ==
  ASSUME AutoInv, NEW x \in Hosts, NEW b \in HostType, HostOK(b),
         autoip' = [autoip EXCEPT ![x] = b],
         lostFrames' \in Nat, lostFrames' >= lostFrames,
         \A f \in frames : f.to # x => f \in frames',
         \A y \in Hosts \ {x} : PairOK(x, y)'
  PROVE  HostsOK' /\ PairsOK' /\ autoip' \in [Hosts -> HostType]
  <1>0. autoip \in [Hosts -> HostType] /\ HostsOK /\ PairsOK /\ lostFrames \in Nat
    BY ConstantsAre DEF AutoInv, AutoipTypeOK
  <1>1. /\ autoip' \in [Hosts -> HostType] /\ autoip'[x] = b
        /\ \A y \in Hosts \ {x} : autoip'[y] = autoip[y]
    BY <1>0
  <1>2. HostsOK'
    BY <1>0, <1>1 DEF HostsOK
  <1>3. ASSUME NEW y \in Hosts, NEW z \in Hosts, y # z PROVE PairOK(y, z)'
    <2>1. CASE y = x
      BY <2>1, <1>3
    <2>2. CASE z = x
      <3>1. PairOK(z, y)'
        BY <2>2, <1>3
      <3> QED  BY <3>1 DEF PairOK, Rivals, Behind
    <2>3. CASE y # x /\ z # x
      <3>1. autoip'[y] = autoip[y] /\ autoip'[z] = autoip[z] /\ PairOK(y, z)
        BY <1>0, <1>1, <1>3, <2>3 DEF PairsOK
      <3>2. (Coming(y, z) => Coming(y, z)') /\ (Coming(z, y) => Coming(z, y)')
        BY <2>3, <3>1 DEF Coming
      <3>3. Prog(autoip[y]) \in Nat /\ Prog(autoip[z]) \in Nat
        BY <1>0, ConstantsAre DEF Prog, HostType
      <3>4. \A n \in Nat : Behind(autoip[y], autoip[z], n) => \A m \in Nat : m >= n => Behind(autoip[y], autoip[z], m)
        BY <3>3 DEF Behind
      <3>5. Rivals(autoip[y], autoip[z]) =>
              \/ Behind(autoip[y], autoip[z], lostFrames')
              \/ /\ Behind(autoip[y], autoip[z], lostFrames' + 1)
                 /\ Early(autoip[y]) \/ Early(autoip[z])
                 /\ Coming(y, z)' \/ Coming(z, y)'
        <4>1. CASE Behind(autoip[y], autoip[z], lostFrames)
          BY <4>1, <3>4, <1>0
        <4>2. CASE /\ Behind(autoip[y], autoip[z], lostFrames + 1)
                   /\ Early(autoip[y]) \/ Early(autoip[z])
                   /\ Coming(y, z) \/ Coming(z, y)
          <5>1. lostFrames + 1 \in Nat /\ lostFrames' + 1 \in Nat /\ lostFrames' + 1 >= lostFrames + 1
            <6> DEFINE m == lostFrames
                       n == lostFrames'
            <6>1. m \in Nat /\ n \in Nat /\ n >= m
              BY <1>0
            <6> HIDE DEF m, n
            <6>2. m + 1 \in Nat /\ n + 1 \in Nat /\ n + 1 >= m + 1
              BY <6>1
            <6> QED  BY <6>2 DEF m, n
          <5> QED  BY <4>2, <3>2, <3>4, <5>1
        <4> QED  BY <3>1, <4>1, <4>2 DEF PairOK
      <3> QED  BY <3>1, <3>5 DEF PairOK
    <2> QED  BY <2>1, <2>2, <2>3
  <1> QED  BY <1>1, <1>2, <1>3 DEF PairsOK

\* The same for a host that begins, is stopped, or loses its link.
LEMMA HostBegins ==
  ASSUME AutoInv, NEW x \in Hosts, NEW b \in HostType, HostOK(b),
         b.state = "OFF" \/ ~b.link \/ Prog(b) = 0,
         autoip' = [autoip EXCEPT ![x] = b],
         lostFrames' \in Nat, lostFrames' >= lostFrames,
         \A f \in frames : f.to # x => f \in frames'
  PROVE  HostsOK' /\ PairsOK' /\ autoip' \in [Hosts -> HostType]
  <1>1. autoip'[x] = b
    BY DEF AutoInv, AutoipTypeOK
  <1>2. ASSUME NEW y \in Hosts \ {x} PROVE PairOK(x, y)'
    BY <1>1 DEF PairOK, Rivals, Behind
  <1> QED  BY <1>2, HostSteps
-----------------------------------------------------------------------------
(* The steps. *)

\* What is sent is made of frames, one for each other host with a link.
LEMMA SentIs ==
  ASSUME AutoInv, NEW h \in Hosts, NEW sip \in LinkLocal, NEW dip \in LinkLocal, NEW request \in BOOLEAN
  PROVE  /\ Sent(h, sip, dip, request) \subseteq FrameType
         /\ autoip[h].link => \A y \in Hosts \ {h} : autoip[y].link =>
                \E f \in Sent(h, sip, dip, request) :
                    f.from = h /\ f.to = y /\ f.sip = sip /\ f.dip = dip /\ f.request = request
  <1>1. \A y \in Hosts : Frame(h, y, sip, dip, request) \in FrameType
    BY DEF Frame, FrameType
  <1>2. \A y \in Hosts : LET f == Frame(h, y, sip, dip, request) IN
            f.from = h /\ f.to = y /\ f.sip = sip /\ f.dip = dip /\ f.request = request
    BY DEF Frame
  <1> QED  BY <1>1, <1>2 DEF Sent

LEMMA InitAuto == AutoipInit => AutoInv
  <1> SUFFICES ASSUME AutoipInit PROVE AutoInv
    OBVIOUS
  <1> DEFINE a == [state |-> "OFF", sent_num |-> 0, ttw |-> 0, lastconflict |-> 0, tried_llipaddr |-> 0,
                   llipaddr |-> NoIp, ip |-> NoIp, up |-> FALSE, link |-> TRUE]
  <1>1. NoIp \in LinkLocal /\ 0 \in 0 .. DefendInterval /\ 0 \in 0 .. MaxLost /\ 0 \in 0 .. MaxChanges
    BY ConstantsAre DEF LinkLocal, NoIp
  <1>2. a \in HostType /\ a.state = "OFF" /\ ~a.up
    BY <1>1 DEF HostType
  <1>3. autoip = [h \in Hosts |-> a]
    BY DEF AutoipInit
  <1> HIDE DEF a
  <1>4. AutoipTypeOK
    BY <1>1, <1>2, <1>3 DEF AutoipInit, AutoipTypeOK
  <1>5. HostsOK
    BY <1>2, <1>3 DEF HostsOK, HostOK, Early
  <1>6. PairsOK
    BY <1>2, <1>3 DEF PairsOK, PairOK, Rivals
  <1> QED  BY <1>4, <1>5, <1>6 DEF AutoInv

\* What an action does about frames, in so far as it is counted.
LEMMA SendCounts ==
  ASSUME AutoInv, NEW fails \in BOOLEAN, fails => lostFrames < MaxLost,
         lostFrames' = lostFrames + (IF fails THEN 1 ELSE 0)
  PROVE  /\ lostFrames \in Nat /\ lostFrames' \in Nat /\ lostFrames' \in 0 .. MaxLost /\ lostFrames' >= lostFrames
         /\ fails => lostFrames' = lostFrames + 1
         /\ ~fails => lostFrames' = lostFrames
  <1>1. lostFrames \in 0 .. MaxLost /\ MaxLost \in Nat
    BY ConstantsAre DEF AutoInv, AutoipTypeOK
  <1>2. CASE fails = TRUE
    BY <1>1, <1>2
  <1>3. CASE fails = FALSE
    BY <1>1, <1>3
  <1> QED  BY <1>2, <1>3

\* A step in which no frame is under way and no host comes further.
LEMMA QuietStep ==
  ASSUME AutoInv, NEW x \in Hosts, NEW b \in HostType, HostOK(b),
         frames = {}, autoip' = [autoip EXCEPT ![x] = b],
         lostFrames' \in Nat, lostFrames' >= lostFrames,
         b.state # "OFF" => /\ autoip[x].state # "OFF" /\ (Prog(b) <= Prog(autoip[x]) \/ Prog(b) <= lostFrames')
                            /\ b.llipaddr = autoip[x].llipaddr /\ b.link = autoip[x].link
  PROVE  HostsOK' /\ PairsOK' /\ autoip' \in [Hosts -> HostType]
  <1>0. autoip \in [Hosts -> HostType] /\ PairsOK /\ lostFrames \in Nat /\ ProbeNum \in Nat
    BY ConstantsAre DEF AutoInv, AutoipTypeOK
  <1>1. autoip'[x] = b /\ \A y \in Hosts \ {x} : autoip'[y] = autoip[y]
    BY <1>0
  <1>2. ASSUME NEW y \in Hosts \ {x}, Rivals(b, autoip[y]) PROVE Behind(b, autoip[y], lostFrames')
    <2>1. Rivals(autoip[x], autoip[y])
      BY <1>2 DEF Rivals
    <2>2. ~Coming(x, y) /\ ~Coming(y, x)
      BY DEF Coming
    <2>3. Behind(autoip[x], autoip[y], lostFrames)
      BY <2>1, <2>2, <1>0 DEF PairsOK, PairOK
    <2>4. Prog(b) <= Prog(autoip[x]) \/ Prog(b) <= lostFrames'
      BY <1>2 DEF Rivals
    <2>5. Prog(b) \in Nat /\ Prog(autoip[x]) \in Nat /\ Prog(autoip[y]) \in Nat
      BY <1>0 DEF Prog, HostType
    <2> QED  BY <2>3, <2>4, <2>5, <1>0 DEF Behind
  <1>3. ASSUME NEW y \in Hosts \ {x} PROVE PairOK(x, y)'
    BY <1>1, <1>2 DEF PairOK
  <1> QED  BY <1>3, HostSteps

LEMMA CountKeeps ==
  ASSUME AutoInv, NEW h \in Hosts, Count(h)
  PROVE  AutoInv'
  <1> DEFINE a0 == autoip[h]
             a == Later(a0)
             t == IF a.state \in {"OFF", "BOUND"} THEN a.ttw ELSE a.ttw - 1
             b == [a EXCEPT !.ttw = t]
  <1>1. /\ frames = {} /\ autoip' = [autoip EXCEPT ![h] = b] /\ UNCHANGED <<frames, lostFrames, hostChanges>>
        /\ a.ttw > 0 \/ a.state \in {"OFF", "BOUND"}
    BY DEF Count
  <1>2. a0 \in HostType /\ HostOK(a0) /\ lostFrames \in Nat
    BY ConstantsAre DEF AutoInv, AutoipTypeOK, HostsOK
  <1>3. a \in HostType /\ Alike(a0, a)
    BY <1>2, LaterIs
  <1>4. t \in Nat
    BY <1>1, <1>3 DEF HostType
  <1> HIDE DEF t, a
  <1>5. b \in HostType /\ Alike(a, b)
    BY <1>3, <1>4 DEF HostType, Alike
  <1> HIDE DEF b
  <1>6. Alike(a0, b)
    BY <1>3, <1>5 DEF Alike
  <1>7. HostOK(b) /\ Prog(b) = Prog(a0)
    BY <1>2, <1>5, <1>6, AlikeOK
  <1>8. Prog(b) \in Nat /\ lostFrames' \in Nat /\ lostFrames' >= lostFrames
    BY <1>1, <1>2, <1>5, ConstantsAre DEF Prog, HostType
  <1>9. b.state = a0.state /\ b.llipaddr = a0.llipaddr /\ b.link = a0.link /\ Prog(b) <= Prog(a0)
    BY <1>6, <1>7, <1>8 DEF Alike
  <1>10. HostsOK' /\ PairsOK' /\ autoip' \in [Hosts -> HostType]
    BY <1>1, <1>5, <1>7, <1>8, <1>9, QuietStep
  <1> QED  BY <1>1, <1>10 DEF AutoInv, AutoipTypeOK

LEMMA ProbedKeeps ==
  ASSUME AutoInv, NEW h \in Hosts, Probed(h)
  PROVE  AutoInv'
  <1> DEFINE a0 == autoip[h]
             a == Later(a0)
             b == [a EXCEPT !.state = "ANNOUNCING", !.sent_num = 0, !.ttw = AnnounceWait]
  <1>1. /\ frames = {} /\ autoip' = [autoip EXCEPT ![h] = b] /\ UNCHANGED <<frames, lostFrames, hostChanges>>
        /\ a.state = "PROBING" /\ a.sent_num >= ProbeNum
    BY DEF Probed
  <1>2. a0 \in HostType /\ HostOK(a0) /\ lostFrames \in Nat
    BY ConstantsAre DEF AutoInv, AutoipTypeOK, HostsOK
  <1>3. a \in HostType /\ Alike(a0, a)
    BY <1>2, LaterIs
  <1> HIDE DEF a
  <1>4. b \in HostType /\ b.state = "ANNOUNCING" /\ b.sent_num = 0 /\ b.llipaddr = a.llipaddr
    <2>1. b.state = "ANNOUNCING" /\ b.sent_num = 0
      BY <1>3 DEF HostType
    <2>2. b.llipaddr = a.llipaddr
      BY <1>3 DEF HostType
    <2>3. AnnounceWait \in Nat
      BY ConstantsAre
    <2>4. b \in HostType
      BY <1>3, <2>3 DEF HostType
    <2> QED  BY <2>1, <2>2, <2>4
  <1>5. b.up = a.up /\ b.link = a.link
    BY <1>3 DEF HostType
  <1> HIDE DEF b
  <1>6. a0.state = "PROBING" /\ ~a0.up /\ b.up = a0.up /\ b.link = a0.link /\ b.llipaddr = a0.llipaddr
    BY <1>1, <1>2, <1>3, <1>4, <1>5 DEF Alike, HostOK
  <1>7. HostOK(b)
    BY <1>2, <1>4, <1>6 DEF HostOK, Early
  <1>8. Prog(b) <= Prog(a0)
    <2>1. a0.sent_num = a.sent_num
      BY <1>3 DEF Alike
    <2> QED  BY <2>1, <1>1, <1>4, <1>6 DEF Prog
  <1>9. lostFrames' \in Nat /\ lostFrames' >= lostFrames
    BY <1>1, <1>2
  <1>10. HostsOK' /\ PairsOK' /\ autoip' \in [Hosts -> HostType]
    BY <1>1, <1>4, <1>6, <1>7, <1>8, <1>9, QuietStep
  <1> QED  BY <1>1, <1>10 DEF AutoInv, AutoipTypeOK

LEMMA AnnounceKeeps ==
  ASSUME AutoInv, NEW h \in Hosts, NEW fails \in BOOLEAN, Announce(h, fails)
  PROVE  AutoInv'
  <1> DEFINE a0 == autoip[h]
             a == Later(a0)
             c == Bound(a)
             b == Announced(c)
  <1>1. /\ frames = {} /\ autoip' = [autoip EXCEPT ![h] = b] /\ UNCHANGED hostChanges
        /\ a.state = "ANNOUNCING" /\ Send(AnnounceOf(h, a), fails)
    BY DEF Announce
  <1>2. a0 \in HostType /\ HostOK(a0) /\ lostFrames \in Nat
    BY ConstantsAre DEF AutoInv, AutoipTypeOK, HostsOK
  <1>3. a \in HostType /\ Alike(a0, a)
    BY <1>2, LaterIs
  <1>4. HostOK(a)
    BY <1>2, <1>3, AlikeOK
  <1> HIDE DEF a
  <1>5. /\ c \in HostType /\ c.state = "ANNOUNCING" /\ c.sent_num = a.sent_num /\ c.llipaddr = a.llipaddr
        /\ c.link = a.link /\ c.up /\ c.ip = c.llipaddr
    <2>1. CASE a.sent_num = 0
      <3>1. c = [a EXCEPT !.ip = a.llipaddr, !.up = TRUE]
        BY <2>1 DEF Bound
      <3>2. a.llipaddr \in LinkLocal
        BY <1>3 DEF HostType
      <3> QED  BY <3>1, <3>2, <1>1, <1>3, ZenonT(60) DEF HostType
    <2>2. CASE a.sent_num # 0
      <3>1. c = a
        BY <2>2 DEF Bound
      <3> QED  BY <3>1, <2>2, <1>1, <1>3, <1>4 DEF HostOK, Early
    <2> QED  BY <2>1, <2>2
  <1> HIDE DEF c
  <1>6. /\ b \in HostType /\ b.llipaddr = c.llipaddr /\ b.link = c.link /\ b.up /\ b.ip = c.ip
        /\ \/ b.state = "BOUND"
           \/ b.state = "ANNOUNCING" /\ b.sent_num # 0
    <2>1. CASE c.sent_num + 1 >= AnnounceNum
      <3>1. b = [c EXCEPT !.state = "BOUND", !.sent_num = 0, !.ttw = 0]
        BY <2>1 DEF Announced
      <3>2. b.state = "BOUND"
        BY <3>1, <1>5 DEF HostType
      <3>3. b.llipaddr = c.llipaddr /\ b.ip = c.ip
        BY <3>1, <1>5 DEF HostType
      <3>4. b.link = c.link /\ b.up = c.up
        BY <3>1, <1>5 DEF HostType
      <3>5. c \in HostType
        BY <1>5
      <3>6. b \in HostType
        <4> HIDE DEF b
        <4> QED  BY <3>1, <3>5, ZenonT(40) DEF HostType
      <3> QED  BY <3>2, <3>3, <3>4, <3>6, <1>5
    <2>2. CASE ~(c.sent_num + 1 >= AnnounceNum)
      <3> DEFINE n == c.sent_num + 1
      <3>1. n \in Nat /\ n # 0
        BY <1>5 DEF HostType
      <3>2. b = [c EXCEPT !.sent_num = n, !.ttw = AnnounceInterval]
        BY <2>2 DEF Announced
      <3> HIDE DEF n
      <3>3. AnnounceInterval \in Nat
        BY ConstantsAre
      <3>4. b.state = c.state /\ b.sent_num = n
        BY <3>2, <1>5 DEF HostType
      <3>5. b.llipaddr = c.llipaddr /\ b.ip = c.ip
        BY <3>2, <1>5 DEF HostType
      <3>6. b.link = c.link /\ b.up = c.up
        BY <3>2, <1>5 DEF HostType
      <3>7. c \in HostType
        BY <1>5
      <3>8. b \in HostType
        <4> HIDE DEF b
        <4> QED  BY <3>1, <3>2, <3>3, <3>7 DEF HostType
      <3> QED  BY <3>1, <3>4, <3>5, <3>6, <3>8, <1>5
    <2> QED  BY <2>1, <2>2
  <1> HIDE DEF b
  <1>7. HostOK(b) /\ Prog(b) = ProbeNum
    BY <1>1, <1>4, <1>5, <1>6 DEF HostOK, Early, Prog
  <1>8. a0.state = "ANNOUNCING" /\ Prog(a0) = ProbeNum /\ b.llipaddr = a0.llipaddr /\ b.link = a0.link
    BY <1>1, <1>3, <1>5, <1>6 DEF Alike, Prog
  <1>9. /\ lostFrames' \in Nat /\ lostFrames' >= lostFrames /\ lostFrames' \in 0 .. MaxLost
    BY <1>1, SendCounts DEF Send
  <1>10. Prog(b) <= Prog(a0)
    BY <1>7, <1>8, ConstantsAre
  <1>11. HostsOK' /\ PairsOK' /\ autoip' \in [Hosts -> HostType]
    BY <1>1, <1>6, <1>7, <1>8, <1>9, <1>10, QuietStep
  <1>12. frames' \subseteq FrameType
    <2>1. a.llipaddr \in LinkLocal
      BY <1>3 DEF HostType
    <2>2. AnnounceOf(h, a) \subseteq FrameType
      BY <2>1, SentIs DEF AnnounceOf
    <2> QED  BY <2>2, <1>1 DEF Send
  <1> QED  BY <1>1, <1>9, <1>11, <1>12 DEF AutoInv, AutoipTypeOK

\* A probe: whoever has the address, or is after it, gets it and shows it, unless it
\* is lost.
LEMMA ProbeKeeps ==
  ASSUME AutoInv, NEW h \in Hosts, NEW fails \in BOOLEAN, Probe(h, fails)
  PROVE  AutoInv'
  <1> DEFINE a0 == autoip[h]
             a == Later(a0)
             n == a.sent_num + 1
  <1>1. PICK wait \in ProbeWaits :
        /\ frames = {} /\ UNCHANGED hostChanges
        /\ autoip' = [autoip EXCEPT ![h] = [a EXCEPT !.sent_num = n, !.ttw = wait]]
        /\ a.state = "PROBING" /\ Send(ProbeOf(h, a), fails)
    BY DEF Probe
  <1> DEFINE b == [a EXCEPT !.sent_num = n, !.ttw = wait]
  <1>2. a0 \in HostType /\ HostOK(a0) /\ lostFrames \in Nat
    BY ConstantsAre DEF AutoInv, AutoipTypeOK, HostsOK
  <1>3. a \in HostType /\ Alike(a0, a)
    BY <1>2, LaterIs
  <1>4. n \in Nat /\ n = a0.sent_num + 1 /\ wait \in Nat
    BY <1>3, ConstantsAre DEF HostType, Alike
  <1> HIDE DEF a, n
  <1>5. b \in HostType /\ b.state = a.state /\ b.sent_num = n /\ b.llipaddr = a.llipaddr
    BY <1>3, <1>4 DEF HostType
  <1>6. b.up = a.up /\ b.link = a.link
    BY <1>3, <1>4 DEF HostType
  <1> HIDE DEF b
  <1>7. /\ a0.state = "PROBING" /\ b.state = "PROBING" /\ b.llipaddr = a0.llipaddr /\ b.link = a0.link
        /\ ~b.up /\ Early(b)
    BY <1>1, <1>2, <1>3, <1>5, <1>6 DEF Alike, HostOK, Early
  <1>8. HostOK(b) /\ Prog(b) = Prog(a0) + 1 /\ Prog(a0) \in Nat
    BY <1>2, <1>4, <1>5, <1>7 DEF HostOK, Early, Prog, HostType
  <1>9. /\ lostFrames' \in Nat /\ lostFrames' >= lostFrames /\ lostFrames' \in 0 .. MaxLost
        /\ fails => lostFrames' = lostFrames + 1
        /\ ~fails => lostFrames' = lostFrames
        /\ ~fails => frames' = ProbeOf(h, a)
    BY <1>1, SendCounts DEF Send
  <1>10. a.llipaddr \in LinkLocal /\ NoIp \in LinkLocal /\ a.llipaddr = a0.llipaddr
    BY <1>3 DEF HostType, LinkLocal, NoIp, Alike
  <1>11. ASSUME NEW y \in Hosts \ {h} PROVE PairOK(h, y)'
    <2>1. autoip'[h] = b /\ autoip'[y] = autoip[y] /\ autoip[y] \in HostType
      BY <1>1 DEF AutoInv, AutoipTypeOK, b
    <2>2. SUFFICES ASSUME Rivals(b, autoip[y])
                   PROVE  \/ Behind(b, autoip[y], lostFrames')
                          \/ Behind(b, autoip[y], lostFrames' + 1) /\ Coming(h, y)'
      BY <2>1, <1>7 DEF PairOK
    <2>3. Rivals(a0, autoip[y])
      BY <2>2, <1>7 DEF Rivals
    <2>4. ~Coming(h, y) /\ ~Coming(y, h)
      BY <1>1 DEF Coming
    <2>5. Behind(a0, autoip[y], lostFrames)
      BY <2>3, <2>4 DEF AutoInv, PairsOK, PairOK
    <2>6. Prog(autoip[y]) \in Nat
      BY <2>1, ConstantsAre DEF Prog, HostType
    <2>7. Behind(b, autoip[y], lostFrames + 1)
      BY <2>5, <2>6, <1>2, <1>8 DEF Behind
    <2>8. CASE fails
      BY <2>7, <2>8, <1>9
    <2>9. CASE ~fails
      <3>1. autoip[h].link /\ autoip[y].link /\ autoip[y].llipaddr = a.llipaddr
        BY <2>3, <1>10 DEF Rivals
      <3>2. \E f \in ProbeOf(h, a) : f.from = h /\ f.to = y /\ f.dip = a.llipaddr /\ f.request
        <4>1. \A r \in BOOLEAN : \E f \in Sent(h, NoIp, a.llipaddr, r) :
                    f.from = h /\ f.to = y /\ f.dip = a.llipaddr /\ f.request = r
          BY <3>1, <1>10, SentIs
        <4>2. TRUE \in BOOLEAN
          OBVIOUS
        <4>3. \E f \in Sent(h, NoIp, a.llipaddr, TRUE) :
                    f.from = h /\ f.to = y /\ f.dip = a.llipaddr /\ f.request = TRUE
          BY <4>1, <4>2, Zenon
        <4> QED  BY <4>3 DEF ProbeOf
      <3>3. Coming(h, y)'
        BY <3>1, <3>2, <2>1, <2>9, <1>9 DEF Coming
      <3> QED  BY <3>3, <2>7, <2>9, <1>9
    <2> QED  BY <2>8, <2>9
  <1>12. HostsOK' /\ PairsOK' /\ autoip' \in [Hosts -> HostType]
    <2>1. autoip' = [autoip EXCEPT ![h] = b]
      BY <1>1 DEF b
    <2> QED  BY <2>1, <1>1, <1>5, <1>8, <1>9, <1>11, HostSteps
  <1>13. frames' \subseteq FrameType
    <2>1. ProbeOf(h, a) \subseteq FrameType
      BY <1>10, SentIs DEF ProbeOf
    <2> QED  BY <2>1, <1>1 DEF Send
  <1> QED  BY <1>1, <1>9, <1>12, <1>13 DEF AutoInv, AutoipTypeOK

\* An announcement of what the host has chosen, and an answer to a request.
LEMMA AnnounceIs ==
  ASSUME AutoInv, NEW h \in Hosts, NEW a \in HostType
  PROVE  /\ AnnounceOf(h, a) \subseteq FrameType
         /\ autoip[h].link => \A y \in Hosts \ {h} : autoip[y].link =>
                \E f \in AnnounceOf(h, a) : f.from = h /\ f.to = y /\ f.sip = a.llipaddr
  <1>1. a.llipaddr \in LinkLocal
    BY DEF HostType
  <1>2. \A r \in BOOLEAN :
            /\ Sent(h, a.llipaddr, a.llipaddr, r) \subseteq FrameType
            /\ autoip[h].link => \A y \in Hosts \ {h} : autoip[y].link =>
                 \E f \in Sent(h, a.llipaddr, a.llipaddr, r) : f.from = h /\ f.to = y /\ f.sip = a.llipaddr
    BY <1>1, SentIs
  <1>3. TRUE \in BOOLEAN
    OBVIOUS
  <1> QED  BY <1>2, <1>3, Zenon DEF AnnounceOf

LEMMA ReplyIs ==
  ASSUME AutoInv, NEW h \in Hosts, NEW a \in HostType, NEW f \in FrameType
  PROVE  /\ Reply(h, a, f) \subseteq FrameType
         /\ f.request /\ a.ip # NoIp /\ f.dip = a.ip /\ autoip[h].link =>
                \A y \in Hosts \ {h} : autoip[y].link =>
                    \E g \in Reply(h, a, f) : g.from = h /\ g.to = y /\ g.sip = a.ip
  <1>1. a.ip \in LinkLocal /\ f.sip \in LinkLocal
    BY DEF HostType, FrameType
  <1>2. \A r \in BOOLEAN :
            /\ Sent(h, a.ip, f.sip, r) \subseteq FrameType
            /\ autoip[h].link => \A y \in Hosts \ {h} : autoip[y].link =>
                 \E g \in Sent(h, a.ip, f.sip, r) : g.from = h /\ g.to = y /\ g.sip = a.ip
    BY <1>1, SentIs
  <1>3. FALSE \in BOOLEAN
    OBVIOUS
  <1>4. /\ Sent(h, a.ip, f.sip, FALSE) \subseteq FrameType
        /\ autoip[h].link => \A y \in Hosts \ {h} : autoip[y].link =>
             \E g \in Sent(h, a.ip, f.sip, FALSE) : g.from = h /\ g.to = y /\ g.sip = a.ip
    BY <1>2, <1>3, Zenon
  <1>5. CASE f.request /\ a.ip # NoIp /\ f.dip = a.ip
    <2>1. Reply(h, a, f) = Sent(h, a.ip, f.sip, FALSE)
      BY <1>5 DEF Reply
    <2> QED  BY <1>4, <2>1, Zenon
  <1>6. CASE ~(f.request /\ a.ip # NoIp /\ f.dip = a.ip)
    <2>1. Reply(h, a, f) = {}
      BY <1>6 DEF Reply
    <2> QED  BY <1>6, <2>1
  <1> QED  BY <1>5, <1>6

\* A lost frame is counted, whatever it would have shown.
LEMMA LoseFrameKeeps ==
  ASSUME AutoInv, NEW f \in frames, LoseFrame(f)
  PROVE  AutoInv'
  <1> DEFINE m == lostFrames
             n == lostFrames'
  <1>1. /\ autoip' = autoip /\ hostChanges' = hostChanges /\ frames' = frames \ {f}
        /\ n = m + 1 /\ m < MaxLost
    BY DEF LoseFrame
  <1>2. m \in 0 .. MaxLost /\ MaxLost \in Nat
    BY ConstantsAre DEF AutoInv, AutoipTypeOK
  <1> HIDE DEF m, n
  <1>3. n \in 0 .. MaxLost /\ m \in Nat /\ n \in Nat
    BY <1>1, <1>2
  <1>4. ASSUME NEW x \in Hosts, NEW y \in Hosts, x # y PROVE PairOK(x, y)'
    <2>1. Prog(autoip[x]) \in Nat /\ Prog(autoip[y]) \in Nat
      BY ConstantsAre DEF Prog, HostType, AutoInv, AutoipTypeOK
    <2>2. Behind(autoip[x], autoip[y], m) => Behind(autoip[x], autoip[y], m + 1)
      BY <2>1, <1>3 DEF Behind
    <2>3. Rivals(autoip[x], autoip[y]) => Behind(autoip[x], autoip[y], m + 1)
      BY <2>2, <1>4 DEF m, AutoInv, PairsOK, PairOK
    <2> QED  BY <2>3, <1>1 DEF PairOK, n
  <1>5. HostsOK' /\ AutoipTypeOK'
    BY <1>1, <1>3 DEF n, AutoInv, HostsOK, AutoipTypeOK
  <1> QED  BY <1>4, <1>5 DEF AutoInv, PairsOK

\* A frame that is no conflict: a request for an address in use is answered, which
\* shows the asking host who has it.
LEMMA NoConflictKeeps ==
  ASSUME AutoInv, NEW f \in frames, FrameArrives(f, FALSE), ~Conflict(autoip[f.to], f)
  PROVE  HostsOK' /\ PairsOK' /\ autoip' \in [Hosts -> HostType] /\ frames' \subseteq FrameType
  <1> DEFINE h == f.to
             a == autoip[h]
  <1>1. f \in FrameType /\ frames \subseteq FrameType /\ autoip \in [Hosts -> HostType]
    BY DEF AutoInv, AutoipTypeOK
  <1>2. h \in Hosts /\ a \in HostType
    BY <1>1 DEF FrameType
  <1>3. HostOK(a)
    BY <1>2 DEF AutoInv, HostsOK
  <1>4. autoip' = [autoip EXCEPT ![h] = a]
    BY DEF FrameArrives
  <1>5. autoip' = autoip /\ autoip'[h] = a
    BY <1>1, <1>2, <1>4
  <1>6. frames' = (frames \ {f}) \cup Reply(h, a, f)
    BY <1>5 DEF FrameArrives
  <1>7. lostFrames' = lostFrames /\ lostFrames \in Nat
    BY ConstantsAre DEF FrameArrives, AutoInv, AutoipTypeOK
  <1>8. ASSUME NEW y \in Hosts \ {h} PROVE PairOK(h, y)'
    <2>1. PairOK(h, y)
      BY <1>2 DEF AutoInv, PairsOK
    <2>2. SUFFICES ASSUME Rivals(a, autoip[y]), Coming(h, y) \/ Coming(y, h)
                   PROVE  Coming(h, y)' \/ Coming(y, h)'
      BY <2>1, <1>5, <1>7 DEF PairOK
    <2>3. CASE Coming(h, y)
      BY <2>3, <1>5, <1>6 DEF Coming
    <2>4. CASE Coming(y, h)
      <3>1. PICK g \in frames : /\ g.from = y /\ g.to = h
                                /\ g.sip = a.llipaddr \/ (g.request /\ g.dip = a.llipaddr)
        BY <2>4 DEF Coming
      <3>2. CASE g # f
        BY <3>1, <3>2, <1>5, <1>6 DEF Coming
      <3>3. CASE g = f
        <4>1. a.state # "OFF" /\ a.link /\ autoip[y].link /\ autoip[y].llipaddr = a.llipaddr
          BY <2>2 DEF Rivals
        <4>2. f.request /\ f.dip = a.llipaddr /\ ~Early(a)
          BY <3>1, <3>3, <4>1 DEF Conflict
        <4>3. a.ip = a.llipaddr /\ a.llipaddr # NoIp
          BY <4>1, <4>2, <1>3 DEF HostOK
        <4>4. PICK r \in Reply(h, a, f) : r.from = h /\ r.to = y /\ r.sip = a.ip
          BY <4>1, <4>2, <4>3, <1>1, <1>2, ReplyIs
        <4> QED  BY <4>1, <4>3, <4>4, <1>5, <1>6 DEF Coming
      <3> QED  BY <3>2, <3>3
    <2> QED  BY <2>2, <2>3, <2>4
  <1>9. \A g \in frames : g.to # h => g \in frames'
    BY <1>6
  <1>10. lostFrames' \in Nat /\ lostFrames' >= lostFrames
    BY <1>7
  <1> HIDE DEF h, a
  <1>11. HostsOK' /\ PairsOK' /\ autoip' \in [Hosts -> HostType]
    BY <1>2, <1>3, <1>4, <1>8, <1>9, <1>10, HostSteps
  <1>12. frames' \subseteq FrameType
    BY <1>1, <1>2, <1>6, ReplyIs
  <1> QED  BY <1>11, <1>12

\* A conflict that makes the host look for another address.
LEMMA RetreatKeeps ==
  ASSUME AutoInv, NEW f \in frames, FrameArrives(f, FALSE),
         Conflict(autoip[f.to], f), Retreats(autoip[f.to])
  PROVE  HostsOK' /\ PairsOK' /\ autoip' \in [Hosts -> HostType] /\ frames' \subseteq FrameType
  <1> DEFINE h == f.to
             a == autoip[h]
  <1>1. f \in FrameType /\ frames \subseteq FrameType /\ autoip \in [Hosts -> HostType]
    BY DEF AutoInv, AutoipTypeOK
  <1>2. h \in Hosts /\ a \in HostType
    BY <1>1 DEF FrameType
  <1>3. PICK wait \in FirstWaits : autoip' = [autoip EXCEPT ![h] = autoip_restart(h, a, wait)]
    BY DEF FrameArrives
  <1> DEFINE b == autoip_restart(h, a, wait)
  <1>4. b \in HostType /\ Begun(b)
    BY <1>2, RestartIs
  <1>5. autoip'[h] = b
    BY <1>1, <1>2, <1>3
  <1>6. frames' = (frames \ {f}) \cup Reply(h, b, f)
    BY <1>5 DEF FrameArrives
  <1>7. lostFrames' \in Nat /\ lostFrames' >= lostFrames
    <2>1. lostFrames' = lostFrames /\ lostFrames \in Nat
      BY ConstantsAre DEF FrameArrives, AutoInv, AutoipTypeOK
    <2> QED  BY <2>1
  <1>8. \A g \in frames : g.to # h => g \in frames'
    BY <1>6
  <1> HIDE DEF b, h, a
  <1>9. HostOK(b) /\ Prog(b) = 0
    BY <1>4, BegunOK
  <1>10. autoip' = [autoip EXCEPT ![h] = b]
    BY <1>3 DEF b
  <1>11. HostsOK' /\ PairsOK' /\ autoip' \in [Hosts -> HostType]
    BY <1>2, <1>4, <1>7, <1>8, <1>9, <1>10, HostBegins
  <1>12. frames' \subseteq FrameType
    BY <1>1, <1>2, <1>4, <1>6, ReplyIs
  <1> QED  BY <1>11, <1>12

\* A conflict that is answered with an announcement, or with one that is lost.
LEMMA DefendKeeps ==
  ASSUME AutoInv, NEW f \in frames, NEW fails \in BOOLEAN, FrameArrives(f, fails),
         Conflict(autoip[f.to], f), ~Retreats(autoip[f.to])
  PROVE  HostsOK' /\ PairsOK' /\ autoip' \in [Hosts -> HostType] /\ frames' \subseteq FrameType
  <1> DEFINE h == f.to
             a == autoip[h]
             b == Defended(a)
  <1>1. f \in FrameType /\ frames \subseteq FrameType /\ autoip \in [Hosts -> HostType]
    BY DEF AutoInv, AutoipTypeOK
  <1>2. h \in Hosts /\ a \in HostType
    BY <1>1 DEF FrameType
  <1>3. HostOK(a) /\ ~Early(a)
    BY <1>2 DEF AutoInv, HostsOK, Retreats
  <1>4. autoip' = [autoip EXCEPT ![h] = b]
    BY DEF FrameArrives
  <1>5. b \in HostType /\ Alike(a, b)
    <2>1. DefendInterval \in 0 .. DefendInterval
      BY ConstantsAre
    <2> HIDE DEF a
    <2> QED  BY <2>1, <1>2 DEF Defended, HostType, Alike
  <1> HIDE DEF b
  <1>6. HostOK(b) /\ Prog(b) = Prog(a)
    BY <1>2, <1>3, <1>5, AlikeOK
  <1>7. autoip'[h] = b /\ \A y \in Hosts \ {h} : autoip'[y] = autoip[y]
    BY <1>1, <1>2, <1>4
  <1>8. frames' = (frames \ {f}) \cup Reply(h, b, f) \cup (IF ~fails THEN AnnounceOf(h, a) ELSE {})
    BY <1>7 DEF FrameArrives
  <1>9. /\ lostFrames \in Nat /\ lostFrames' \in Nat /\ lostFrames' >= lostFrames
        /\ fails => lostFrames' = lostFrames + 1
        /\ ~fails => lostFrames' = lostFrames
    BY SendCounts DEF FrameArrives
  <1>10. ASSUME NEW y \in Hosts \ {h} PROVE PairOK(h, y)'
    <2>1. PairOK(h, y)
      BY <1>2 DEF AutoInv, PairsOK
    <2>2. SUFFICES ASSUME Rivals(a, autoip[y])
                   PROVE  \/ Behind(b, autoip[y], lostFrames')
                          \/ Behind(b, autoip[y], lostFrames' + 1) /\ Early(autoip[y]) /\ Coming(h, y)'
      BY <1>5, <1>7 DEF PairOK, Rivals, Alike
    <2>3. \/ Behind(b, autoip[y], lostFrames)
          \/ Behind(b, autoip[y], lostFrames + 1) /\ Early(autoip[y])
      BY <2>1, <2>2, <1>3, <1>6 DEF PairOK, Behind
    <2>4. CASE fails
      <3>1. Prog(b) \in Nat /\ Prog(autoip[y]) \in Nat
        BY <1>1, <1>5, ConstantsAre DEF Prog, HostType
      <3> QED  BY <2>3, <2>4, <3>1, <1>9 DEF Behind
    <2>5. CASE ~fails
      <3>1. autoip[h].link /\ autoip[y].link /\ autoip[y].llipaddr = a.llipaddr
        BY <2>2 DEF Rivals
      <3>2. \E g \in AnnounceOf(h, a) : g.from = h /\ g.to = y /\ g.sip = a.llipaddr
        BY <3>1, <1>2, AnnounceIs
      <3>3. AnnounceOf(h, a) \subseteq frames'
        BY <2>5, <1>8
      <3>4. Coming(h, y)'
        BY <3>1, <3>2, <3>3, <1>7 DEF Coming
      <3> QED  BY <3>4, <2>3, <2>5, <1>9
    <2> QED  BY <2>4, <2>5
  <1>11. \A g \in frames : g.to # h => g \in frames'
    BY <1>8
  <1>12. frames' \subseteq FrameType
    <2>1. Reply(h, b, f) \subseteq FrameType /\ AnnounceOf(h, a) \subseteq FrameType
      BY <1>1, <1>2, <1>5, ReplyIs, AnnounceIs
    <2> QED  BY <2>1, <1>1, <1>8
  <1> HIDE DEF h, a
  <1>13. HostsOK' /\ PairsOK' /\ autoip' \in [Hosts -> HostType]
    BY <1>2, <1>4, <1>5, <1>6, <1>9, <1>10, <1>11, HostSteps
  <1> QED  BY <1>12, <1>13

LEMMA FrameArrivesKeeps ==
  ASSUME AutoInv, NEW f \in frames, NEW fails \in BOOLEAN, FrameArrives(f, fails)
  PROVE  AutoInv'
  <1> DEFINE a == autoip[f.to]
  <1>1. lostFrames' \in 0 .. MaxLost
    <2>1. fails => lostFrames < MaxLost
      BY DEF FrameArrives
    <2>2. lostFrames' = lostFrames + (IF fails THEN 1 ELSE 0)
      BY DEF FrameArrives
    <2> QED  BY <2>1, <2>2, SendCounts
  <1>2. hostChanges' = hostChanges
    BY DEF FrameArrives
  <1>3. HostsOK' /\ PairsOK' /\ autoip' \in [Hosts -> HostType] /\ frames' \subseteq FrameType
    <2>1. CASE Conflict(a, f) /\ ~Retreats(a)
      BY <2>1, DefendKeeps
    <2>2. CASE ~Conflict(a, f) \/ Retreats(a)
      <3>1. ~fails
        BY <2>2 DEF FrameArrives
      <3>2. fails = FALSE
        BY <3>1
      <3>3. FrameArrives(f, FALSE)
        BY <3>2
      <3>4. CASE ~Conflict(a, f)
        BY <3>3, <3>4, NoConflictKeeps
      <3>5. CASE Conflict(a, f) /\ Retreats(a)
        BY <3>3, <3>5, RetreatKeeps
      <3> QED  BY <2>2, <3>4, <3>5
    <2> QED  BY <2>1, <2>2
  <1> QED  BY <1>1, <1>2, <1>3 DEF AutoInv, AutoipTypeOK

\* The user and the link.
LEMMA ChangeCounts ==
  ASSUME AutoInv, Change
  PROVE  /\ hostChanges' \in 0 .. MaxChanges /\ lostFrames' \in 0 .. MaxLost
         /\ lostFrames' \in Nat /\ lostFrames' >= lostFrames
  <1>1. hostChanges' \in 0 .. MaxChanges
    BY ConstantsAre DEF Change, AutoInv, AutoipTypeOK
  <1>2. lostFrames' \in 0 .. MaxLost
    BY DEF Change, AutoInv, AutoipTypeOK
  <1>3. lostFrames' \in Nat /\ lostFrames' >= lostFrames
    BY ConstantsAre DEF Change, AutoInv, AutoipTypeOK
  <1> QED  BY <1>1, <1>2, <1>3

LEMMA StartClientKeeps ==
  ASSUME AutoInv, NEW h \in Hosts, StartClient(h)
  PROVE  AutoInv'
  <1> DEFINE a == autoip[h]
  <1>1. PICK wait \in FirstWaits : autoip' = [autoip EXCEPT ![h] = autoip_start(h, a, wait)]
    BY DEF StartClient
  <1>2. Change /\ frames' = frames
    BY DEF StartClient
  <1> DEFINE b == autoip_start(h, a, wait)
  <1>3. a \in HostType
    BY DEF AutoInv, AutoipTypeOK
  <1> HIDE DEF a
  <1>4. b \in HostType /\ Begun(b)
    BY <1>3, StartIs
  <1> HIDE DEF b
  <1>5. HostOK(b) /\ Prog(b) = 0
    BY <1>4, BegunOK
  <1>6. lostFrames' \in Nat /\ lostFrames' >= lostFrames
    BY <1>2, ChangeCounts
  <1>7. autoip' = [autoip EXCEPT ![h] = b]
    BY <1>1 DEF b, a
  <1>8. HostsOK' /\ PairsOK' /\ autoip' \in [Hosts -> HostType]
    BY <1>2, <1>4, <1>5, <1>6, <1>7, HostBegins
  <1>9. hostChanges' \in 0 .. MaxChanges /\ lostFrames' \in 0 .. MaxLost
    BY <1>2, ChangeCounts
  <1> QED  BY <1>2, <1>8, <1>9 DEF AutoInv, AutoipTypeOK

LEMMA AutoipStopKeeps ==
  ASSUME AutoInv, NEW h \in Hosts, autoip_stop(h)
  PROVE  AutoInv'
  <1> DEFINE a == autoip[h]
             b == [a EXCEPT !.state = "OFF", !.up = FALSE]
  <1>1. a \in HostType
    BY DEF AutoInv, AutoipTypeOK
  <1>2. autoip' = [autoip EXCEPT ![h] = b]
    BY DEF autoip_stop, AutoInv, AutoipTypeOK
  <1>3. Change /\ frames' = frames
    BY DEF autoip_stop
  <1> HIDE DEF a
  <1>4. b.state = "OFF"
    BY <1>1 DEF HostType
  <1>5. ~b.up
    BY <1>1 DEF HostType
  <1>6. b \in HostType
    BY <1>1 DEF HostType
  <1> HIDE DEF b
  <1>7. HostOK(b)
    BY <1>4, <1>5 DEF HostOK
  <1>8. lostFrames' \in Nat /\ lostFrames' >= lostFrames
    BY <1>3, ChangeCounts
  <1>9. HostsOK' /\ PairsOK' /\ autoip' \in [Hosts -> HostType]
    BY <1>2, <1>3, <1>4, <1>6, <1>7, <1>8, HostBegins
  <1>10. hostChanges' \in 0 .. MaxChanges /\ lostFrames' \in 0 .. MaxLost
    BY <1>3, ChangeCounts
  <1> QED  BY <1>3, <1>9, <1>10 DEF AutoInv, AutoipTypeOK

LEMMA LinkDownKeeps ==
  ASSUME AutoInv, NEW h \in Hosts, LinkDown(h)
  PROVE  AutoInv'
  <1> DEFINE a == autoip[h]
             b == [a EXCEPT !.link = FALSE]
  <1>1. a \in HostType /\ HostOK(a)
    BY DEF AutoInv, AutoipTypeOK, HostsOK
  <1>2. autoip' = [autoip EXCEPT ![h] = b]
    BY DEF LinkDown, AutoInv, AutoipTypeOK
  <1>3. Change /\ frames' = {f \in frames : f.to # h}
    BY DEF LinkDown
  <1> HIDE DEF a
  <1>4. b.state = a.state /\ b.sent_num = a.sent_num /\ b.llipaddr = a.llipaddr /\ b.ip = a.ip
    BY <1>1 DEF HostType
  <1>5. b.up = a.up /\ b.link = FALSE
    BY <1>1 DEF HostType
  <1>6. b \in HostType
    BY <1>1 DEF HostType
  <1> HIDE DEF b
  <1>7. HostOK(b)
    BY <1>1, <1>4, <1>5 DEF HostOK, Early
  <1>8. lostFrames' \in Nat /\ lostFrames' >= lostFrames
    BY <1>3, ChangeCounts
  <1>9. HostsOK' /\ PairsOK' /\ autoip' \in [Hosts -> HostType]
    BY <1>2, <1>3, <1>5, <1>6, <1>7, <1>8, HostBegins
  <1>10. hostChanges' \in 0 .. MaxChanges /\ lostFrames' \in 0 .. MaxLost
    BY <1>3, ChangeCounts
  <1> QED  BY <1>3, <1>9, <1>10 DEF AutoInv, AutoipTypeOK

\* A host that comes back to the link looks for its address from the beginning.
LEMMA LinkUpKeeps ==
  ASSUME AutoInv, NEW h \in Hosts, LinkUp(h)
  PROVE  AutoInv'
  <1> DEFINE a == autoip[h]
             d == [a EXCEPT !.up = FALSE]
  <1>1. a \in HostType /\ HostOK(a)
    BY DEF AutoInv, AutoipTypeOK, HostsOK
  <1>2. PICK c \in autoip_network_changed(a) : autoip' = [autoip EXCEPT ![h] = [c EXCEPT !.link = TRUE]]
    BY DEF LinkUp
  <1>3. Change /\ frames' = frames
    BY DEF LinkUp
  <1> HIDE DEF a
  <1>4. d \in HostType /\ d.up = FALSE
    BY <1>1 DEF HostType
  <1>5. d.llipaddr = a.llipaddr
    BY <1>1 DEF HostType
  <1>6. /\ c \in HostType
        /\ \/ c.state = "OFF" /\ HostOK(c)
           \/ Begun(c)
    <2>1. CASE a.state = "OFF"
      <3>1. c = a
        BY <2>1 DEF autoip_network_changed
      <3> QED  BY <2>1, <3>1, <1>1
    <2>2. CASE a.state # "OFF"
      <3>1. PICK wait \in FirstWaits : c = autoip_start_probing(d, wait)
        BY <2>2 DEF autoip_network_changed
      <3> HIDE DEF d
      <3>2. a.llipaddr # NoIp
        BY <2>2, <1>1 DEF HostOK
      <3> QED  BY <3>1, <3>2, <1>4, <1>5, StartProbingIs DEF Begun
    <2> QED  BY <2>1, <2>2
  <1> DEFINE b == [c EXCEPT !.link = TRUE]
  <1>7. b.state = c.state /\ b.sent_num = c.sent_num /\ b.llipaddr = c.llipaddr /\ b.ip = c.ip
    BY <1>6 DEF HostType
  <1>8. b.up = c.up
    BY <1>6 DEF HostType
  <1>9. b \in HostType
    BY <1>6 DEF HostType
  <1>10. autoip' = [autoip EXCEPT ![h] = b]
    BY <1>2
  <1> HIDE DEF b
  <1>11. /\ HostOK(b)
         /\ b.state = "OFF" \/ Prog(b) = 0
    <2>1. CASE c.state = "OFF" /\ HostOK(c)
      BY <2>1, <1>7, <1>8 DEF HostOK, Early
    <2>2. CASE Begun(c)
      BY <2>2, <1>7, <1>8, <1>9, BegunOK DEF Begun
    <2> QED  BY <2>1, <2>2, <1>6
  <1>12. lostFrames' \in Nat /\ lostFrames' >= lostFrames
    BY <1>3, ChangeCounts
  <1>13. HostsOK' /\ PairsOK' /\ autoip' \in [Hosts -> HostType]
    BY <1>3, <1>9, <1>10, <1>11, <1>12, HostBegins
  <1>14. hostChanges' \in 0 .. MaxChanges /\ lostFrames' \in 0 .. MaxLost
    BY <1>3, ChangeCounts
  <1> QED  BY <1>3, <1>13, <1>14 DEF AutoInv, AutoipTypeOK

LEMMA NextAuto ==
  ASSUME AutoInv, [AutoipNext]_autoipVars
  PROVE  AutoInv'
  <1>1. CASE UNCHANGED autoipVars
    BY <1>1 DEF autoipVars, AutoInv, AutoipTypeOK, HostsOK, PairsOK, PairOK, Coming
  <1>2. ASSUME NEW h \in Hosts, autoip_tmr(h) PROVE AutoInv'
    BY <1>2, CountKeeps, ProbedKeeps, ProbeKeeps, AnnounceKeeps DEF autoip_tmr
  <1>3. ASSUME NEW f \in frames, LoseFrame(f) \/ \E fails \in BOOLEAN : FrameArrives(f, fails) PROVE AutoInv'
    BY <1>3, LoseFrameKeeps, FrameArrivesKeeps
  <1>4. ASSUME NEW h \in Hosts, StartClient(h) \/ autoip_stop(h) \/ LinkDown(h) \/ LinkUp(h) PROVE AutoInv'
    BY <1>4, StartClientKeeps, AutoipStopKeeps, LinkDownKeeps, LinkUpKeeps
  <1> QED  BY <1>1, <1>2, <1>3, <1>4 DEF AutoipNext

\* What holds of the hosts on one link whatever they do: who has got past its probes
\* has its address, and of two after the same address one is no further than frames
\* were lost, or is about to see the other (autoip_tmr, autoip_arp_reply).
THEOREM AutoipInvariance == AutoipSpec => []AutoInv
  <1>1. AutoipInit => AutoInv
    BY InitAuto
  <1>2. AutoInv /\ [AutoipNext]_autoipVars => AutoInv'
    BY NextAuto
  <1> QED  BY <1>1, <1>2, PTL DEF AutoipSpec

\* Two hosts on the link never use the same address, unless as many frames were lost
\* as a host sends probes: for any hosts and addresses, and any course of starts,
\* stops, link changes, conflicts and defences (autoip_arp_reply, autoip_tmr).
THEOREM OneUserOfAnAddress == AutoipSpec => []OneUser
  BY AutoipInvariance, InvGivesOneUser, PTL

-----------------------------------------------------------------------------
(***************************************************************************)
(* IGMP.                                                                   *)
(***************************************************************************)
\* What is kept of one group: who waits for its report has a timer running that
\* is over in time, and only a group with a timer, or one that was reported by
\* this host, is DELAYING.
Kept(g, d, last) ==
    IF g.group_state = "FREE" THEN d = 0 /\ last # "us"
    ELSE /\ d > 0 => g.timer \in 1 .. d
         /\ g.last_reporter <=> last = "us"
         /\ g.group_state = "IDLE" => g.timer = 0 /\ ~g.last_reporter

AllKept == \A k \in Keys : Kept(groups[k], due[k], lastReport[k])
OnStarted == \A k \in Keys : groups[k].group_state # "FREE" => k[1] \in started

MemberInv == IgmpTypeOK /\ AllKept /\ OnStarted /\ FilterFits

-----------------------------------------------------------------------------
LEMMA KeysFinite == IsFiniteSet(Keys)
  <1>1. IsFiniteSet(Netifs)
    <2>1. NumNetifs \in Int /\ 1 \in Int
      BY IgmpAssumption
    <2>2. IsFiniteSet(1 .. NumNetifs)
      BY <2>1, FS_Interval
    <2> QED  BY <2>2 DEF Netifs
  <1>2. IsFiniteSet(Groups \cup {AllSystems})
    BY FS_AddElement, IgmpAssumption
  <1> QED  BY <1>1, <1>2, FS_Product DEF Keys

LEMMA InvGivesMembership == MemberInv => MembershipKnown
  <1> SUFFICES ASSUME MemberInv PROVE AnsweredInTime /\ FlagSaysLast
    BY DEF MemberInv, MembershipKnown
  <1> QED  BY DEF MemberInv, AllKept, Kept, AnsweredInTime, FlagSaysLast, Listed

\* The groups on the list after a step that puts some on it or takes some off.
LEMMA FewerGroups ==
  ASSUME FilterFits, IgmpTypeOK, NEW S \in SUBSET Listed
  PROVE  IsFiniteSet(S) /\ Cardinality(S) <= NumGroups
  <1>1. IsFiniteSet(Listed)
    BY KeysFinite, FS_Subset DEF Listed
  <1>2. IsFiniteSet(S) /\ Cardinality(S) <= Cardinality(Listed) /\ Cardinality(S) \in Nat /\ Cardinality(Listed) \in Nat
    BY <1>1, FS_Subset, FS_CardinalityType
  <1>3. Cardinality(Listed) <= NumGroups /\ NumGroups \in Nat
    BY IgmpAssumption DEF FilterFits
  <1> QED  BY <1>2, <1>3

\* igmp_delaying_member keeps what is kept, whether or not the time given is that
\* of a router that waits from now on.
LEMMA DelayKeeps ==
  ASSUME NEW g \in GroupType, NEW h \in GroupType, NEW d \in Nat, NEW last, NEW resp \in Nat, resp > 1,
         Kept(g, d, last), g.group_state # "FREE",
         h.last_reporter = g.last_reporter,
         IF Waits(g, resp) THEN h.group_state = "DELAYING" /\ h.timer \in 1 .. (resp - 1) ELSE h = g
  PROVE  Kept(h, d, last) /\ Kept(h, Sooner(d, resp), last)
  <1>1. h.group_state # "FREE" /\ (h.last_reporter <=> last = "us")
    BY DEF Kept
  <1>2. h.group_state = "IDLE" => h.timer = 0 /\ ~h.last_reporter
    BY DEF Kept, Waits
  <1>3. /\ d > 0 => h.timer \in 1 .. d
        /\ h.timer \in 1 .. Sooner(d, resp)
    <2>0. g.timer \in Nat /\ h.timer \in Nat /\ g.group_state \in {"FREE", "DELAYING", "IDLE"}
      BY DEF GroupType
    <2>1. CASE Waits(g, resp)
      <3>1. d > 0 => resp < g.timer /\ g.timer <= d
        <4>1. d > 0 => g.timer \in 1 .. d
          BY DEF Kept
        <4>2. d > 0 => g.group_state # "IDLE"
          BY <4>1 DEF Kept
        <4> QED  BY <2>1, <4>1, <4>2, <2>0 DEF Waits
      <3>2. h.timer \in 1 .. (resp - 1)
        BY <2>1
      <3> QED  BY <3>1, <3>2, <2>0 DEF Sooner
    <2>2. CASE ~Waits(g, resp)
      <3>1. h.timer = g.timer /\ g.group_state = "DELAYING" /\ g.timer # 0 /\ ~(resp < g.timer)
        BY <2>2, <2>0 DEF Waits
      <3>2. d > 0 => g.timer \in 1 .. d
        BY DEF Kept
      <3> QED  BY <3>1, <3>2, <2>0 DEF Sooner
    <2> QED  BY <2>1, <2>2
  <1> QED  BY <1>1, <1>2, <1>3 DEF Kept

\* The whole operator: the list is the same, each group is kept as above.
LEMMA Delayed ==
  ASSUME MemberInv, NEW asked \in SUBSET Listed, NEW resp \in Nat, resp > 1,
         igmp_delaying_member(asked, resp)
  PROVE  /\ groups' \in [Keys -> GroupType] /\ Listed' = Listed
         /\ \A k \in Keys \ asked : groups'[k] = groups[k]
         /\ \A k \in asked : /\ Kept(groups'[k], due[k], lastReport[k])
                             /\ Kept(groups'[k], Sooner(due[k], resp), lastReport[k])
  <1> DEFINE D == Delays(asked, resp)
  <1>1. PICK t \in [D -> Timers(resp)] :
            groups' = [k \in Keys |-> IF k \in D
                                  THEN [groups[k] EXCEPT !.timer = t[k], !.group_state = "DELAYING"]
                                  ELSE groups[k]]
    BY DEF igmp_delaying_member
  <1>2. D = {k \in asked : Waits(groups[k], resp)}
    BY DEF Delays
  <1> HIDE DEF D
  <1>3. Timers(resp) = 1 .. (resp - 1)
    BY DEF Timers
  <1>4. asked \subseteq Keys /\ Listed \subseteq Keys
    BY DEF Listed
  <1>5. groups \in [Keys -> GroupType] /\ due \in [Keys -> Nat]
    BY DEF MemberInv, IgmpTypeOK
  <1>6. \A k \in D : t[k] \in 1 .. (resp - 1) /\ t[k] \in Nat
    BY <1>3
  <1>7. ASSUME NEW k \in Keys
        PROVE  /\ groups'[k] = IF k \in D THEN [groups[k] EXCEPT !.timer = t[k], !.group_state = "DELAYING"]
                                ELSE groups[k]
               /\ groups'[k] \in GroupType
               /\ groups'[k].last_reporter = groups[k].last_reporter
               /\ k \in D => groups'[k].group_state = "DELAYING" /\ groups'[k].timer = t[k]
    <2>1. groups[k] \in GroupType
      BY <1>5
    <2>2. CASE k \in D
      <3>1. groups'[k] = [groups[k] EXCEPT !.timer = t[k], !.group_state = "DELAYING"]
        BY <1>1, <2>2
      <3>2. t[k] \in Nat
        BY <1>6, <2>2
      <3> QED  BY <3>1, <3>2, <2>1, <2>2 DEF GroupType
    <2>3. CASE k \notin D
      BY <1>1, <2>1, <2>3
    <2> QED  BY <2>2, <2>3
  <1>8. groups' \in [Keys -> GroupType]
    <2>1. DOMAIN groups' = Keys /\ groups' = [k \in Keys |-> groups'[k]]
      BY <1>1
    <2> QED  BY <2>1, <1>7
  <1>9. \A k \in D : groups[k].group_state # "FREE"
    BY <1>2 DEF Listed
  <1>10. Listed' = Listed
    BY <1>7, <1>9 DEF Listed
  <1>11. \A k \in Keys \ asked : groups'[k] = groups[k]
    BY <1>7, <1>2
  <1>12. ASSUME NEW k \in asked
         PROVE  /\ Kept(groups'[k], due[k], lastReport[k])
                /\ Kept(groups'[k], Sooner(due[k], resp), lastReport[k])
    <2>1. k \in Keys /\ groups[k].group_state # "FREE" /\ groups[k] \in GroupType /\ groups'[k] \in GroupType
          /\ due[k] \in Nat
      BY <1>4, <1>5, <1>7 DEF Listed
    <2>2. Kept(groups[k], due[k], lastReport[k])
      BY <2>1 DEF MemberInv, AllKept
    <2>3. IF Waits(groups[k], resp) THEN groups'[k].group_state = "DELAYING" /\ groups'[k].timer \in 1 .. (resp - 1)
          ELSE groups'[k] = groups[k]
      BY <1>2, <1>6, <1>7, <2>1
    <2>4. groups'[k].last_reporter = groups[k].last_reporter
      BY <1>7, <2>1
    <2> QED  BY <2>1, <2>2, <2>3, <2>4, DelayKeeps
  <1> QED  BY <1>8, <1>10, <1>11, <1>12, SMTT(30)
\* The times that a group waits for at most are more than one.
LEMMA LongEnough ==
  /\ JoinResp \in Nat /\ JoinResp > 1
  /\ V1Resp \in Nat /\ V1Resp > 1
  /\ 1 \notin MaxResps => \A resp \in MaxResps : resp \in Nat /\ resp > 1
  <1>1. JoinResp \in Nat \ {0, 1} /\ V1Resp \in Nat \ {0, 1}
    BY IgmpAssumption
  <1>2. \A resp \in MaxResps : resp \in Nat \ {0}
    <2>1. MaxResps \subseteq Nat \ {0}
      BY IgmpAssumption
    <2> QED  BY <2>1
  <1>3. \A n \in Nat \ {0, 1} : n > 1
    OBVIOUS
  <1> QED  BY <1>1, <1>2, <1>3

-----------------------------------------------------------------------------
LEMMA InitMember == IgmpInit => MemberInv
  <1> SUFFICES ASSUME IgmpInit PROVE MemberInv
    OBVIOUS
  <1>1. Free \in GroupType
    BY DEF Free, GroupType
  <1>2. IgmpTypeOK
    <2>1. groups \in [Keys -> GroupType]
      BY <1>1 DEF IgmpInit
    <2>2. 0 \in 0 .. MaxIgmpFaults
      BY IgmpAssumption
    <2> QED  BY <2>1, <2>2 DEF IgmpInit, IgmpTypeOK
  <1>3. \A k \in Keys : groups[k].group_state = "FREE"
    BY DEF IgmpInit, Free
  <1>4. Listed = {}
    BY <1>3 DEF Listed
  <1>5. FilterFits
    <2>1. Cardinality({}) = 0 /\ NumGroups \in Nat
      BY FS_EmptySet, IgmpAssumption
    <2> QED  BY <2>1, <1>4 DEF FilterFits, IgmpInit
  <1>6. AllKept
    BY <1>3 DEF AllKept, Kept, IgmpInit
  <1> QED  BY <1>2, <1>3, <1>5, <1>6 DEF MemberInv, OnStarted

\* The part of the invariant that a step that leaves the list alone keeps.
LEMMA SameList ==
  ASSUME MemberInv, Listed' = Listed, filter' = filter, started' = started
  PROVE  FilterFits' /\ OnStarted'
  <1>1. FilterFits'
    BY DEF MemberInv, FilterFits
  <1>2. OnStarted'
    BY DEF MemberInv, OnStarted, Listed
  <1> QED  BY <1>1, <1>2

LEMMA StartKeeps ==
  ASSUME MemberInv, NEW n \in Netifs, igmp_start(n)
  PROVE  MemberInv'
  <1> DEFINE all == <<n, AllSystems>>
             new == Unreported
  <1>0. IgmpTypeOK /\ FilterFits /\ AllKept /\ OnStarted
    BY DEF MemberInv
  <1>1. all \in Keys /\ all[1] = n
    BY DEF Keys
  <1>2. all \notin Listed
    BY <1>0, <1>1 DEF igmp_start, Listed, OnStarted
  <1>3. new = [group_state |-> "IDLE", timer |-> 0, last_reporter |-> FALSE, use |-> 1]
    BY DEF Unreported
  <1>4. /\ started' = started \cup {n} /\ UNCHANGED <<due, lastReport, igmpFaults>>
        /\ n \notin started
    BY DEF igmp_start
  <1>5. Kept(groups[all], due[all], lastReport[all])
    BY <1>0, <1>1 DEF AllKept
  <1>8. \/ Cardinality(Listed) < NumGroups /\ groups' = [groups EXCEPT ![all] = new] /\ filter' = filter \cup {all}
        \/ UNCHANGED <<groups, filter>>
    BY DEF igmp_start
  <1> HIDE DEF new, all
  <1>6. CASE Cardinality(Listed) < NumGroups /\ groups' = [groups EXCEPT ![all] = new] /\ filter' = filter \cup {all}
    <2>1. new \in GroupType
      BY <1>3 DEF GroupType
    <2>2. groups' \in [Keys -> GroupType] /\ groups'[all] = new /\ \A k \in Keys \ {all} : groups'[k] = groups[k]
      BY <1>0, <1>1, <1>6, <2>1 DEF IgmpTypeOK
    <2>3. IgmpTypeOK'
      BY <1>0, <1>1, <1>4, <1>6, <2>2 DEF IgmpTypeOK
    <2>4. Listed' = Listed \cup {all}
      BY <1>1, <1>3, <2>2 DEF Listed
    <2>5. FilterFits'
      <3>1. IsFiniteSet(Listed) /\ Cardinality(Listed) \in Nat
        BY <1>0, FewerGroups, FS_CardinalityType
      <3>2. Cardinality(Listed \cup {all}) = Cardinality(Listed) + 1
        BY <3>1, <1>2, FS_AddElement
      <3>3. NumGroups \in Nat
        BY IgmpAssumption
      <3> QED  BY <3>1, <3>2, <3>3, <2>4, <1>0, <1>6 DEF FilterFits
    <2>6. Kept(new, due[all], lastReport[all])
      BY <1>2, <1>1, <1>3, <1>5 DEF Kept, Listed
    <2>7. AllKept'
      BY <2>6, <2>2, <1>0, <1>4 DEF AllKept
    <2>8. OnStarted'
      BY <2>2, <1>0, <1>1, <1>4 DEF OnStarted
    <2> QED  BY <2>3, <2>5, <2>7, <2>8 DEF MemberInv
  <1>7. CASE UNCHANGED <<groups, filter>>
    <2>1. IgmpTypeOK'
      BY <1>0, <1>4, <1>7 DEF IgmpTypeOK
    <2>2. FilterFits'
      BY <1>0, <1>7 DEF FilterFits, Listed
    <2>3. AllKept' /\ OnStarted'
      BY <1>0, <1>4, <1>7 DEF AllKept, OnStarted
    <2> QED  BY <2>1, <2>2, <2>3 DEF MemberInv
  <1> QED  BY <1>6, <1>7, <1>8

\* Groups that are taken from the list, as in igmp_stop and igmp_leavegroup; what
\* stays may have fewer users.
LEMMA Removed ==
  ASSUME MemberInv, NEW gone \in SUBSET Listed,
         started' \in SUBSET started, igmpFaults' = igmpFaults,
         \A k \in Listed \ gone : k[1] \in started',
         groups' = [k \in Keys |-> groups'[k]],
         \A k \in gone : groups'[k] = Free,
         \A k \in Keys \ gone : groups'[k] = groups[k] \/ \E u \in Nat : groups'[k] = [groups[k] EXCEPT !.use = u],
         filter' = filter \ gone,
         due' = [k \in Keys |-> IF k \in gone THEN 0 ELSE due[k]],
         lastReport' = [k \in Keys |-> IF k \in gone THEN "nobody" ELSE lastReport[k]]
  PROVE  MemberInv'
  <1>0. IgmpTypeOK /\ FilterFits /\ AllKept /\ OnStarted
    BY DEF MemberInv
  <1>1. gone \subseteq Keys /\ Listed \subseteq Keys
    BY DEF Listed
  <1>2. ASSUME NEW k \in Keys \ gone
        PROVE  /\ groups'[k] \in GroupType /\ groups'[k].timer = groups[k].timer
               /\ groups'[k].group_state = groups[k].group_state
               /\ groups'[k].last_reporter = groups[k].last_reporter
    <2>1. groups[k] \in GroupType
      BY <1>0 DEF IgmpTypeOK
    <2> QED  BY <2>1 DEF GroupType
  <1>3. Free \in GroupType /\ Free.group_state = "FREE"
    BY DEF Free, GroupType
  <1>4. groups' \in [Keys -> GroupType]
    BY <1>2, <1>3, <1>1
  <1>5. due' \in [Keys -> Nat] /\ lastReport' \in [Keys -> {"nobody", "us", "other"}]
    BY <1>0 DEF IgmpTypeOK
  <1>6. IgmpTypeOK'
    BY <1>0, <1>4, <1>5 DEF IgmpTypeOK
  <1>7. Listed' = Listed \ gone
    BY <1>1, <1>2, <1>3 DEF Listed
  <1>8. FilterFits'
    BY <1>7, <1>0, FewerGroups DEF FilterFits
  <1>9. ASSUME NEW k \in Keys PROVE Kept(groups'[k], due'[k], lastReport'[k])
    <2>1. CASE k \in gone
      BY <2>1, <1>3 DEF Kept
    <2>2. CASE k \notin gone
      <3>1. Kept(groups[k], due[k], lastReport[k]) /\ due'[k] = due[k] /\ lastReport'[k] = lastReport[k]
        BY <2>2, <1>0 DEF AllKept
      <3> QED  BY <3>1, <2>2, <1>2 DEF Kept
    <2> QED  BY <2>1, <2>2
  <1>10. OnStarted'
    BY <1>7 DEF OnStarted, Listed
  <1> QED  BY <1>6, <1>8, <1>9, <1>10 DEF MemberInv, AllKept

LEMMA StopKeeps ==
  ASSUME MemberInv, NEW n \in Netifs, igmp_stop(n)
  PROVE  MemberInv'
  <1> DEFINE gone == {k \in Listed : k[1] = n}
  <1>1. \A k \in Listed : k[1] \in started /\ k \in Keys
    BY DEF MemberInv, OnStarted, Listed
  <1>2. groups' = [k \in Keys |-> IF k \in gone THEN Free ELSE groups[k]]
    BY DEF igmp_stop
  <1>3. groups' = [k \in Keys |-> groups'[k]]
    BY <1>2
  <1>4. /\ \A k \in gone : groups'[k] = Free
        /\ \A k \in Keys \ gone : groups'[k] = groups[k]
    BY <1>1, <1>2
  <1>5. \A k \in Listed \ gone : k[1] \in started'
    BY <1>1 DEF igmp_stop
  <1>6. /\ started' \in SUBSET started /\ igmpFaults' = igmpFaults
        /\ filter' = filter \ gone
        /\ due' = [k \in Keys |-> IF k \in gone THEN 0 ELSE due[k]]
        /\ lastReport' = [k \in Keys |-> IF k \in gone THEN "nobody" ELSE lastReport[k]]
    BY DEF igmp_stop
  <1>7. gone \in SUBSET Listed
    OBVIOUS
  <1> HIDE DEF gone
  <1> QED  BY <1>3, <1>4, <1>5, <1>6, <1>7, Removed

LEMMA LeaveKeeps ==
  ASSUME MemberInv, NEW N, NEW g, igmp_leavegroup(N, g)
  PROVE  MemberInv'
  <1> DEFINE held == {k \in Listed : k[1] \in N /\ k[2] = g}
             last == {k \in held : groups[k].use <= 1}
  <1>1. \A k \in Listed : k[1] \in started /\ k \in Keys
    BY DEF MemberInv, OnStarted, Listed
  <1>2. groups' = [k \in Keys |-> IF k \in last THEN Free
                ELSE IF k \in held THEN [groups[k] EXCEPT !.use = @ - 1] ELSE groups[k]]
    BY DEF igmp_leavegroup
  <1>3. groups' = [k \in Keys |-> groups'[k]]
    BY <1>2
  <1>4. \A k \in last : groups'[k] = Free
    BY <1>1, <1>2
  <1>5. ASSUME NEW k \in Keys \ last
        PROVE  groups'[k] = groups[k] \/ \E u \in Nat : groups'[k] = [groups[k] EXCEPT !.use = u]
    <2>1. groups[k] \in GroupType
      BY DEF MemberInv, IgmpTypeOK
    <2>2. CASE k \in held
      <3>1. groups[k].use \in Nat /\ ~(groups[k].use <= 1)
        BY <2>1, <2>2 DEF GroupType
      <3>2. groups[k].use - 1 \in Nat
        BY <3>1
      <3>3. groups'[k] = [groups[k] EXCEPT !.use = groups[k].use - 1]
        BY <1>2, <2>2
      <3> QED  BY <3>2, <3>3
    <2>3. CASE k \notin held
      BY <2>3, <1>2
    <2> QED  BY <2>2, <2>3
  <1>6. /\ started' \in SUBSET started /\ igmpFaults' = igmpFaults /\ started' = started
        /\ filter' = filter \ last
        /\ due' = [k \in Keys |-> IF k \in last THEN 0 ELSE due[k]]
        /\ lastReport' = [k \in Keys |-> IF k \in last THEN "nobody" ELSE lastReport[k]]
    BY DEF igmp_leavegroup
  <1>7. last \in SUBSET Listed
    OBVIOUS
  <1>8. \A k \in Listed \ last : k[1] \in started'
    BY <1>1, <1>6
  <1> HIDE DEF last
  <1> QED  BY <1>3, <1>4, <1>5, <1>6, <1>7, <1>8, Removed

LEMMA ReportGroupsKeeps ==
  ASSUME MemberInv, NEW n \in Netifs, igmp_report_groups(n)
  PROVE  MemberInv'
  <1> DEFINE asked == {k \in Listed : k[1] = n}
  <1>1. asked \in SUBSET Listed /\ JoinResp \in Nat /\ JoinResp > 1
    BY LongEnough
  <1>2. igmp_delaying_member(asked, JoinResp) /\ UNCHANGED <<started, filter, due, lastReport, igmpFaults>>
    BY DEF igmp_report_groups
  <1> HIDE DEF asked
  <1>3. /\ groups' \in [Keys -> GroupType] /\ Listed' = Listed
        /\ \A k \in Keys \ asked : groups'[k] = groups[k]
        /\ \A k \in asked : Kept(groups'[k], due[k], lastReport[k])
    BY <1>1, <1>2, Delayed
  <1>4. IgmpTypeOK'
    BY <1>2, <1>3 DEF MemberInv, IgmpTypeOK
  <1>5. AllKept'
    BY <1>2, <1>3 DEF MemberInv, AllKept
  <1> QED  BY <1>2, <1>3, <1>4, <1>5, SameList DEF MemberInv

\* A query for some groups, all of which the router waits for from now on.
LEMMA QueryKeeps ==
  ASSUME MemberInv, NEW asked \in SUBSET Listed, NEW resp \in Nat, resp > 1,
         igmp_delaying_member(asked, resp),
         due' = [k \in Keys |-> IF k \in asked THEN Sooner(due[k], resp) ELSE due[k]],
         UNCHANGED <<started, filter, lastReport, igmpFaults>>
  PROVE  MemberInv'
  <1>1. /\ groups' \in [Keys -> GroupType] /\ Listed' = Listed
        /\ \A k \in Keys \ asked : groups'[k] = groups[k]
        /\ \A k \in asked : Kept(groups'[k], Sooner(due[k], resp), lastReport[k])
    BY Delayed
  <1>2. due' \in [Keys -> Nat]
    BY DEF MemberInv, IgmpTypeOK, Sooner
  <1>3. IgmpTypeOK'
    BY <1>1, <1>2 DEF MemberInv, IgmpTypeOK
  <1>4. AllKept'
    BY <1>1 DEF MemberInv, AllKept
  <1> QED  BY <1>1, <1>3, <1>4, SameList DEF MemberInv

LEMMA GeneralQueryKeeps ==
  ASSUME MemberInv, 1 \notin MaxResps, NEW n \in Netifs, NEW v1 \in BOOLEAN, NEW resp \in MaxResps,
         GeneralQuery(n, v1, resp)
  PROVE  MemberInv'
  <1> DEFINE wait == IF v1 THEN V1Resp ELSE resp
             asked == {k \in Listed : k[1] = n /\ k[2] # AllSystems}
  <1>1. wait \in Nat /\ wait > 1
    BY LongEnough
  <1>2. /\ igmp_delaying_member(asked, wait)
        /\ due' = [k \in Keys |-> IF k \in asked THEN Sooner(due[k], wait) ELSE due[k]]
        /\ UNCHANGED <<started, filter, lastReport, igmpFaults>>
    BY DEF GeneralQuery
  <1>3. asked \in SUBSET Listed
    OBVIOUS
  <1> HIDE DEF wait, asked
  <1> QED  BY <1>1, <1>2, <1>3, QueryKeeps

LEMMA GroupQueryKeeps ==
  ASSUME MemberInv, 1 \notin MaxResps, NEW n \in Netifs, NEW g, NEW resp \in MaxResps,
         GroupQuery(n, g, resp)
  PROVE  MemberInv'
  <1> DEFINE asked == {<<n, g>>}
  <1>1. resp \in Nat /\ resp > 1
    BY LongEnough
  <1>2. /\ igmp_delaying_member(asked, resp) /\ asked \in SUBSET Listed
        /\ UNCHANGED <<started, filter, lastReport, igmpFaults>>
    BY DEF GroupQuery
  <1>3. due' = [k \in Keys |-> IF k \in asked THEN Sooner(due[k], resp) ELSE due[k]]
    BY DEF GroupQuery, MemberInv, IgmpTypeOK
  <1> HIDE DEF asked
  <1> QED  BY <1>1, <1>2, <1>3, QueryKeeps

LEMMA ReportKeeps ==
  ASSUME MemberInv, NEW n \in Netifs, NEW g \in Groups, Report(n, g)
  PROVE  MemberInv'
  <1> DEFINE k0 == <<n, g>>
             new == IF groups[k0].group_state = "DELAYING" THEN ReportHeard(groups[k0]) ELSE groups[k0]
  <1>0. IgmpTypeOK /\ FilterFits /\ AllKept
    BY DEF MemberInv
  <1>1. /\ k0 \in Listed /\ groups' = [groups EXCEPT ![k0] = new]
        /\ due' = [due EXCEPT ![k0] = 0] /\ lastReport' = [lastReport EXCEPT ![k0] = "other"]
        /\ UNCHANGED <<started, filter, igmpFaults>>
    BY DEF Report
  <1>2. k0 \in Keys /\ groups[k0] \in GroupType /\ groups[k0].group_state # "FREE"
    BY <1>0, <1>1 DEF Listed, IgmpTypeOK
  <1>3. Kept(groups[k0], due[k0], lastReport[k0])
    BY <1>0, <1>2 DEF AllKept
  <1>4. new \in GroupType /\ new.group_state = "IDLE" /\ new.timer = 0 /\ ~new.last_reporter
    <2>1. CASE groups[k0].group_state = "DELAYING"
      BY <1>2, <2>1 DEF ReportHeard, GroupType
    <2>2. CASE groups[k0].group_state = "IDLE"
      BY <1>2, <1>3, <2>2 DEF Kept
    <2> QED  BY <1>2, <2>1, <2>2 DEF GroupType
  <1> HIDE DEF k0, new
  <1>5. /\ groups' \in [Keys -> GroupType] /\ groups'[k0] = new /\ due'[k0] = 0 /\ lastReport'[k0] = "other"
        /\ \A k \in Keys \ {k0} : groups'[k] = groups[k] /\ due'[k] = due[k] /\ lastReport'[k] = lastReport[k]
    BY <1>0, <1>1, <1>2, <1>4 DEF IgmpTypeOK
  <1>6. Kept(new, 0, "other")
    BY <1>4 DEF Kept
  <1>7. Listed' = Listed
    BY <1>1, <1>2, <1>4, <1>5 DEF Listed
  <1>8. IgmpTypeOK'
    BY <1>0, <1>1, <1>2, <1>5 DEF IgmpTypeOK
  <1>9. AllKept'
    BY <1>0, <1>5, <1>6 DEF AllKept
  <1> QED  BY <1>1, <1>7, <1>8, <1>9, SameList DEF MemberInv

-----------------------------------------------------------------------------
LEMMA SendCounted ==
  ASSUME IgmpTypeOK, NEW fails \in BOOLEAN, igmp_send(fails)
  PROVE  igmpFaults' \in 0 .. MaxIgmpFaults
  <1>1. igmpFaults \in 0 .. MaxIgmpFaults /\ MaxIgmpFaults \in Nat
    BY IgmpAssumption DEF IgmpTypeOK
  <1>2. CASE fails = TRUE
    BY <1>1, <1>2 DEF igmp_send
  <1>3. CASE fails = FALSE
    BY <1>1, <1>3 DEF igmp_send
  <1> QED  BY <1>2, <1>3

\* igmp_tmr for one group: its timer, if it runs, has one call less to go.
LEMMA CountedDown ==
  ASSUME NEW g \in GroupType, NEW h \in GroupType, NEW d \in Nat, NEW last, NEW d1, NEW last1,
         Kept(g, d, last), h.group_state = g.group_state,
         h.timer = (IF g.timer > 0 THEN g.timer - 1 ELSE 0),
         \/ /\ g.group_state = "DELAYING" /\ g.timer = 1 /\ d1 = 0
            /\ \/ h.last_reporter /\ last1 = "us"
               \/ (h.last_reporter <=> g.last_reporter) /\ last1 = last
         \/ /\ ~(g.group_state = "DELAYING" /\ g.timer = 1)
            /\ d1 = (IF d = 0 THEN 0 ELSE d - 1) /\ last1 = last
            /\ (h.last_reporter <=> g.last_reporter)
  PROVE  Kept(h, d1, last1)
  <1>1. CASE g.group_state = "FREE"
    BY <1>1 DEF Kept
  <1>2. CASE g.group_state # "FREE"
    <2>1. h.last_reporter <=> last1 = "us"
      BY <1>2 DEF Kept
    <2>2. h.group_state = "IDLE" => h.timer = 0 /\ ~h.last_reporter
      BY <1>2 DEF Kept
    <2>3. d1 > 0 => h.timer \in 1 .. d1
      <3>1. d > 0 => g.timer \in 1 .. d
        BY <1>2 DEF Kept
      <3>2. g.group_state = "IDLE" => g.timer = 0
        BY <1>2 DEF Kept
      <3>3. g.group_state \in {"FREE", "DELAYING", "IDLE"} /\ g.timer \in Nat
        BY DEF GroupType
      <3>4. CASE d1 > 0
        <4>1. d1 = d - 1 /\ d > 0 /\ g.timer # 1
          BY <1>2, <3>1, <3>2, <3>3, <3>4
        <4> QED  BY <4>1, <3>1, <3>3, <3>4
      <3> QED  BY <3>4
    <2> QED  BY <1>2, <2>1, <2>2, <2>3 DEF Kept
  <1> QED  BY <1>1, <1>2

LEMMA TmrKeeps ==
  ASSUME MemberInv, igmp_tmr
  PROVE  MemberInv'
  <1> DEFINE over == {k \in Listed : groups[k].timer = 1}
             told == {k \in over : groups[k].group_state = "DELAYING"}
  <1>0. /\ IgmpTypeOK /\ AllKept /\ groups \in [Keys -> GroupType] /\ due \in [Keys -> Nat]
        /\ lastReport \in [Keys -> {"nobody", "us", "other"}]
    BY SMTT(30) DEF MemberInv, IgmpTypeOK
  <1>1. PICK failed \in SUBSET told :
        /\ igmp_send(failed # {})
        /\ groups' = [k \in Keys |->
                [groups[k] EXCEPT !.timer = IF @ > 0 THEN @ - 1 ELSE 0,
                                  !.last_reporter = @ \/ k \in told \ failed]]
        /\ due' = [k \in Keys |-> IF k \in told \/ due[k] = 0 THEN 0 ELSE due[k] - 1]
        /\ lastReport' = [k \in Keys |-> IF k \in told \ failed THEN "us" ELSE lastReport[k]]
        /\ UNCHANGED <<started, filter>>
    BY DEF igmp_tmr
  <1>2. \A k \in Keys : k \in told <=> groups[k].group_state = "DELAYING" /\ groups[k].timer = 1
    BY DEF Listed
  <1> HIDE DEF told
  <1>3. ASSUME NEW k \in Keys
        PROVE  /\ groups'[k] \in GroupType /\ groups'[k].group_state = groups[k].group_state
               /\ groups'[k].timer = (IF groups[k].timer > 0 THEN groups[k].timer - 1 ELSE 0)
               /\ groups'[k].last_reporter <=> groups[k].last_reporter \/ k \in told \ failed
    <2> DEFINE tm == IF groups[k].timer > 0 THEN groups[k].timer - 1 ELSE 0
               lr == groups[k].last_reporter \/ k \in told \ failed
    <2>1. groups[k] \in GroupType
      BY <1>0
    <2>2. groups'[k] = [groups[k] EXCEPT !.timer = tm, !.last_reporter = lr]
      BY <1>1
    <2>3. tm \in Nat
      BY <2>1 DEF GroupType
    <2>4. lr \in BOOLEAN
      OBVIOUS
    <2> HIDE DEF tm, lr
    <2>5. /\ groups'[k] \in GroupType /\ groups'[k].group_state = groups[k].group_state
          /\ groups'[k].timer = tm /\ groups'[k].last_reporter = lr
      BY <2>1, <2>2, <2>3, <2>4 DEF GroupType
    <2> QED  BY <2>5 DEF tm, lr
  <1>4. groups' \in [Keys -> GroupType]
    <2>1. groups' = [k \in Keys |-> groups'[k]]
      BY <1>1
    <2> QED  BY <2>1, <1>3
  <1>5. due' \in [Keys -> Nat] /\ lastReport' \in [Keys -> {"nobody", "us", "other"}]
    <2>1. \A k \in Keys : (IF k \in told \/ due[k] = 0 THEN 0 ELSE due[k] - 1) \in Nat
      BY <1>0
    <2>2. due' \in [Keys -> Nat]
      BY <1>1, <2>1
    <2>3. \A k \in Keys : (IF k \in told \ failed THEN "us" ELSE lastReport[k]) \in {"nobody", "us", "other"}
      BY <1>0
    <2>4. lastReport' \in [Keys -> {"nobody", "us", "other"}]
      BY <1>1, <2>3
    <2> QED  BY <2>2, <2>4
  <1>6. igmpFaults' \in 0 .. MaxIgmpFaults
    BY <1>0, <1>1, SendCounted
  <1>7. IgmpTypeOK'
    BY <1>0, <1>1, <1>4, <1>5, <1>6 DEF IgmpTypeOK
  <1>8. Listed' = Listed
    BY <1>3 DEF Listed
  <1>9. ASSUME NEW k \in Keys PROVE Kept(groups'[k], due'[k], lastReport'[k])
    <2>1. groups[k] \in GroupType /\ groups'[k] \in GroupType /\ due[k] \in Nat
      BY <1>0, <1>3
    <2>2. Kept(groups[k], due[k], lastReport[k])
      BY <1>0 DEF AllKept
    <2>3. CASE k \in told
      <3>1. due'[k] = 0 /\ groups[k].group_state = "DELAYING" /\ groups[k].timer = 1
        BY <1>1, <1>2, <2>3
      <3>2. \/ groups'[k].last_reporter /\ lastReport'[k] = "us"
            \/ (groups'[k].last_reporter <=> groups[k].last_reporter) /\ lastReport'[k] = lastReport[k]
        BY <1>1, <1>3, <2>3
      <3> QED  BY <2>1, <2>2, <3>1, <3>2, <1>3, CountedDown
    <2>4. CASE k \notin told
      <3>1. /\ due'[k] = (IF due[k] = 0 THEN 0 ELSE due[k] - 1) /\ lastReport'[k] = lastReport[k]
            /\ ~(groups[k].group_state = "DELAYING" /\ groups[k].timer = 1)
            /\ groups'[k].last_reporter <=> groups[k].last_reporter
        BY <1>1, <1>2, <1>3, <2>4
      <3> QED  BY <2>1, <2>2, <3>1, <1>3, CountedDown
    <2> QED  BY <2>3, <2>4
  <1> QED  BY <1>1, <1>7, <1>8, <1>9, SameList DEF MemberInv, AllKept
-----------------------------------------------------------------------------
\* The groups that igmp_joingroup makes find their place in the pool: those up to
\* the last interface that gets one fit.
LEMMA JoinFits ==
  ASSUME MemberInv, NEW N \in SUBSET Netifs, NEW g,
         NEW new, new = {<<n, g>> : n \in New(N, g) \cap Joined(N, g)}
  PROVE  Cardinality(Listed \cup new) <= NumGroups
  <1> DEFINE S == New(N, g) \cap Joined(N, g)
  <1>0. FilterFits /\ IgmpTypeOK
    BY DEF MemberInv
  <1>1. IsFiniteSet(Listed) /\ Cardinality(Listed) \in Nat /\ Cardinality(Listed) <= NumGroups /\ NumGroups \in Nat
    <2>1. IsFiniteSet(Listed)
      BY <1>0, FewerGroups
    <2>2. Cardinality(Listed) \in Nat
      BY <2>1, FS_CardinalityType
    <2> QED  BY <2>1, <2>2, <1>0, IgmpAssumption DEF FilterFits
  <1>2. S \subseteq 0 .. NumNetifs /\ NumNetifs \in Nat /\ New(N, g) \subseteq 1 .. NumNetifs
    <2>1. NumNetifs \in Nat
      BY IgmpAssumption
    <2>2. New(N, g) \subseteq 1 .. NumNetifs
      BY DEF New, Netifs
    <2>3. 1 .. NumNetifs \subseteq 0 .. NumNetifs
      BY <2>1
    <2> QED  BY <2>1, <2>2, <2>3
  <1>3. CASE S = {}
    <2>1. Listed \cup new = Listed
      BY <1>3
    <2> QED  BY <2>1, <1>1
  <1>4. CASE S # {}
    <2> DEFINE m == Max(S)
               U == {n \in New(N, g) : n <= m}
    <2>1. m \in S /\ \A n \in S : n <= m
      BY <1>2, <1>4, MaxOfBounded
    <2>2. S \subseteq U /\ U \subseteq 1 .. NumNetifs
      BY <2>1, <1>2
    <2>3. Cardinality(U) + Cardinality(Listed) <= NumGroups
      BY <2>1 DEF Joined
    <2> HIDE DEF S, U, m
    <2>4. IsFiniteSet(1 .. NumNetifs)
      <3>1. 1 \in Int /\ NumNetifs \in Int
        BY <1>2
      <3> QED  BY <3>1, FS_Interval
    <2>5. IsFiniteSet(U)
      BY <2>2, <2>4, FS_Subset
    <2>6. IsFiniteSet(S) /\ Cardinality(S) <= Cardinality(U)
      BY <2>2, <2>5, FS_Subset
    <2>7. IsFiniteSet(new) /\ Cardinality(new) <= Cardinality(S)
      <3> DEFINE f == [n \in S |-> <<n, g>>]
      <3>1. f \in Surjection(S, new)
        <4>1. f \in [S -> new]
          BY DEF S
        <4>2. \A k \in new : \E n \in S : f[n] = k
          BY DEF S
        <4> QED  BY <4>1, <4>2 DEF Surjection
      <3> QED  BY <3>1, <2>6, FS_Surjection
    <2>8. Cardinality(Listed \cup new) = Cardinality(Listed) + Cardinality(new) - Cardinality(Listed \cap new)
      BY <2>7, <1>1, FS_Union
    <2>9. IsFiniteSet(Listed \cap new)
      BY <1>1, FS_Intersection
    <2>10. Cardinality(U) \in Nat /\ Cardinality(S) \in Nat /\ Cardinality(new) \in Nat /\ Cardinality(Listed \cap new) \in Nat
      BY <2>5, <2>6, <2>7, <2>9, FS_CardinalityType
    <2> QED  BY <2>3, <2>6, <2>7, <2>8, <2>10, <1>1
  <1> QED  BY <1>3, <1>4

LEMMA JoinKeeps ==
  ASSUME MemberInv, NEW N, NEW g \in Groups, igmp_joingroup(N, g)
  PROVE  MemberInv'
  <1> DEFINE new == {<<n, g>> : n \in New(N, g) \cap Joined(N, g)}
             old == {<<n, g>> : n \in Joined(N, g) \ New(N, g)}
  <1>0. /\ IgmpTypeOK /\ AllKept /\ OnStarted /\ FilterFits /\ groups \in [Keys -> GroupType]
        /\ lastReport \in [Keys -> {"nobody", "us", "other"}]
    BY DEF MemberInv, IgmpTypeOK
  <1>1. N \subseteq started /\ started \subseteq Netifs
    BY <1>0 DEF igmp_joingroup, IgmpTypeOK
  <1>2. PICK t \in [new -> Timers(JoinResp)], failed \in SUBSET new :
            /\ igmp_send(failed # {})
            /\ groups' = [k \in Keys |->
                    IF k \in new
                    THEN [group_state |-> "DELAYING", timer |-> t[k], last_reporter |-> k \notin failed, use |-> 1]
                    ELSE IF k \in old THEN [groups[k] EXCEPT !.use = (@ + 1) % 256] ELSE groups[k]]
            /\ lastReport' = [k \in Keys |-> IF k \in new \ failed THEN "us" ELSE lastReport[k]]
    BY DEF igmp_joingroup
  <1>3. filter' = filter \cup new /\ UNCHANGED <<started, due>>
    BY DEF igmp_joingroup
  <1>4. new \subseteq Keys /\ \A k \in new : k \notin Listed /\ k[1] \in started
    <2>1. \A n \in New(N, g) : n \in Netifs /\ n \in started /\ <<n, g>> \notin Listed
      BY <1>1 DEF New
    <2>2. \A n \in Netifs : <<n, g>> \in Keys
      BY DEF Keys
    <2> QED  BY <2>1, <2>2
  <1>5. old \subseteq Listed /\ Listed \subseteq Keys
    BY DEF New, Joined, Listed
  <1>18. new = {<<n, g>> : n \in New(N, g) \cap Joined(N, g)} /\ N \in SUBSET Netifs
    BY <1>1
  <1> HIDE DEF new, old
  <1>6. Cardinality(Listed \cup new) <= NumGroups
    BY <1>18, JoinFits
  <1>7. \A k \in new : t[k] \in Nat
    <2>1. \A x \in Timers(JoinResp) : x \in Nat
      BY LongEnough DEF Timers
    <2> QED  BY <2>1
  <1>8. \A k \in new : /\ groups'[k] \in GroupType /\ groups'[k].group_state = "DELAYING"
                       /\ groups'[k].last_reporter <=> k \notin failed
    <2> TAKE k \in new
    <2> DEFINE lr == k \notin failed
    <2>1. groups'[k] = [group_state |-> "DELAYING", timer |-> t[k], last_reporter |-> lr, use |-> 1]
      BY <1>2, <1>4
    <2>2. lr \in BOOLEAN
      OBVIOUS
    <2> HIDE DEF lr
    <2>3. groups'[k] \in GroupType /\ groups'[k].group_state = "DELAYING" /\ groups'[k].last_reporter = lr
      BY <2>1, <2>2, <1>7 DEF GroupType
    <2> QED  BY <2>3 DEF lr
  <1>9. \A k \in Keys \ new :
            /\ groups'[k] \in GroupType /\ groups'[k].timer = groups[k].timer
            /\ groups'[k].group_state = groups[k].group_state
            /\ groups'[k].last_reporter = groups[k].last_reporter
    <2> TAKE k \in Keys \ new
    <2>1. groups[k] \in GroupType
      BY <1>0
    <2>2. CASE k \in old
      <3>1. groups'[k] = [groups[k] EXCEPT !.use = (groups[k].use + 1) % 256]
        BY <1>2, <2>2
      <3>2. (groups[k].use + 1) % 256 \in Nat
        BY <2>1 DEF GroupType
      <3> QED  BY <2>1, <3>1, <3>2 DEF GroupType
    <2>3. CASE k \notin old
      BY <1>2, <2>1, <2>3
    <2> QED  BY <2>2, <2>3
  <1>10. groups' \in [Keys -> GroupType]
    <2>1. groups' = [k \in Keys |-> groups'[k]]
      BY <1>2
    <2> QED  BY <2>1, <1>8, <1>9
  <1>11. lastReport' \in [Keys -> {"nobody", "us", "other"}]
    <2>1. \A k \in Keys : (IF k \in new \ failed THEN "us" ELSE lastReport[k]) \in {"nobody", "us", "other"}
      BY <1>0
    <2> QED  BY <1>2, <2>1
  <1>12. igmpFaults' \in 0 .. MaxIgmpFaults
    BY <1>0, <1>2, SendCounted
  <1>13. IgmpTypeOK'
    BY <1>0, <1>3, <1>4, <1>10, <1>11, <1>12 DEF IgmpTypeOK
  <1>14. Listed' = Listed \cup new
    BY <1>4, <1>8, <1>9 DEF Listed
  <1>15. FilterFits'
    BY <1>0, <1>3, <1>6, <1>14 DEF FilterFits
  <1>16. OnStarted'
    BY <1>0, <1>3, <1>4, <1>9 DEF OnStarted
  <1>17. ASSUME NEW k \in Keys PROVE Kept(groups'[k], due'[k], lastReport'[k])
    <2>1. Kept(groups[k], due[k], lastReport[k])
      BY <1>0 DEF AllKept
    <2>2. CASE k \in new
      <3>1. due[k] = 0 /\ lastReport[k] # "us"
        BY <1>4, <2>1, <2>2 DEF Listed, Kept
      <3>2. due'[k] = 0 /\ (lastReport'[k] = "us" <=> k \notin failed)
        BY <1>2, <1>3, <2>2, <3>1
      <3> QED  BY <1>8, <2>2, <3>2 DEF Kept
    <2>3. CASE k \notin new
      <3>1. due'[k] = due[k] /\ lastReport'[k] = lastReport[k]
        BY <1>2, <1>3, <2>3
      <3> QED  BY <1>9, <2>1, <2>3, <3>1 DEF Kept
    <2> QED  BY <2>2, <2>3
  <1> QED  BY <1>13, <1>15, <1>16, <1>17 DEF MemberInv, AllKept

LEMMA NextMember ==
  ASSUME MemberInv, 1 \notin MaxResps, [IgmpNext]_igmpVars
  PROVE  MemberInv'
  <1>1. ASSUME NEW n \in Netifs, igmp_start(n) \/ igmp_stop(n) \/ igmp_report_groups(n) PROVE MemberInv'
    BY <1>1, StartKeeps, StopKeeps, ReportGroupsKeeps
  <1>2. ASSUME NEW N, NEW g \in Groups, igmp_joingroup(N, g) \/ igmp_leavegroup(N, g) PROVE MemberInv'
    BY <1>2, JoinKeeps, LeaveKeeps
  <1>3. ASSUME NEW n \in Netifs, NEW v1 \in BOOLEAN, NEW resp \in MaxResps, GeneralQuery(n, v1, resp) PROVE MemberInv'
    BY <1>3, GeneralQueryKeeps
  <1>4. ASSUME NEW n \in Netifs, NEW g \in Groups, NEW resp \in MaxResps, GroupQuery(n, g, resp) PROVE MemberInv'
    BY <1>4, GroupQueryKeeps
  <1>5. ASSUME NEW n \in Netifs, NEW g \in Groups, Report(n, g) PROVE MemberInv'
    BY <1>5, ReportKeeps
  <1>6. ASSUME igmp_tmr PROVE MemberInv'
    BY <1>6, TmrKeeps
  <1>7. ASSUME UNCHANGED igmpVars PROVE MemberInv'
    BY <1>7 DEF igmpVars, MemberInv, IgmpTypeOK, AllKept, OnStarted, FilterFits, Listed
  <1> QED  BY <1>1, <1>2, <1>3, <1>4, <1>5, <1>6, <1>7 DEF IgmpNext

\* The invariant of the membership in groups, as long as no router asks for an
\* answer at once (igmp_start_timer divides by zero then).
THEOREM MemberInvariance == ASSUME 1 \notin MaxResps PROVE IgmpSpec => []MemberInv
  <1>1. IgmpInit => MemberInv
    BY InitMember
  <1>2. MemberInv /\ [IgmpNext]_igmpVars => MemberInv'
    BY NextMember
  <1> QED  BY <1>1, <1>2, PTL DEF IgmpSpec

\* Routers have their reports in time, who leaves tells them if it must, and the
\* hardware lets through what was joined (igmp_delaying_member, igmp_input,
\* igmp_leavegroup), for any number of interfaces, groups and places for them.
THEOREM MembershipIsKnown == ASSUME 1 \notin MaxResps PROVE IgmpSpec => []MembershipKnown
  <1>1. IgmpSpec => []MemberInv
    BY MemberInvariance
  <1>2. MemberInv => MembershipKnown
    BY InvGivesMembership
  <1> QED  BY <1>1, <1>2, PTL

=============================================================================
