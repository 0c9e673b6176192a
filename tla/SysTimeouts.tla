----------------------------- MODULE SysTimeouts -----------------------------
(***************************************************************************)
(* The timeout list of lwIP (lwip/src/core/timers.c) as this program runs  *)
(* it: sys_timeouts_init at start-up, sys_check_timeouts from the main     *)
(* loop, the periodic handlers that arm themselves again, and the TCP      *)
(* timer that only runs while there are TCP connections (TCP_REG calls     *)
(* tcp_timer_needed).                                                      *)
(*                                                                         *)
(* The list holds differences: an entry's time counts from the expiry of   *)
(* the entry before it, the first one's from timeouts_last_time.  A step   *)
(* is one turn of the loop in sys_check_timeouts or one handler; the clock *)
(* ticks in between.                                                       *)
(***************************************************************************)
EXTENDS Integers, Sequences, FiniteSets

CONSTANTS
    Startup,   \* the handlers sys_timeouts_init arms, in its order
    Tcp,       \* tcpip_tcp_timer
    Period,    \* Period[h]: the time h is armed with
    NoTimer,   \* no handler runs; the entry of no timer
    ClockMod,  \* size of the millisecond counter, 2^32 in the code
    MaxPass    \* longest time between two calls of sys_check_timeouts

\* These handlers always arm themselves again.
Periodic == {Startup[i] : i \in 1 .. Len(Startup)}
Handlers == Periodic \cup {Tcp}

Longest == CHOOSE p \in {Period[h] : h \in Handlers} : \A h \in Handlers : Period[h] <= p

ASSUME TimerAssumption ==
    /\ Startup \in Seq(Periodic)
    /\ \A i, j \in DOMAIN Startup : i # j => Startup[i] # Startup[j]
    /\ Tcp \notin Periodic
    /\ NoTimer \notin Handlers \cup Nat
    /\ Period \in [Handlers -> Nat \ {0}]
    /\ MaxPass \in Nat
    /\ ClockMod \in Nat /\ ClockMod > 2 * Longest + MaxPass

VARIABLES
    now,          \* sys_now()
    last,         \* timeouts_last_time
    list,         \* next_timeout and its successors
    active,       \* tcpip_tcp_timer_active
    pcbs,         \* tcp_active_pcbs || tcp_tw_pcbs
    checking,     \* inside sys_check_timeouts
    diff,         \* its local variable
    running,      \* the handler it is calling
    late,         \* ticks since the main loop last entered sys_check_timeouts
    age,          \* age[h]: ticks since timer h was armed
    fired,        \* the timer whose entry the last step took off the list
    firedAge      \* its age

clock    == <<now, late, age>>
observed == <<fired, firedAge>>
timersVars == <<now, last, list, active, pcbs, checking, diff, running, late, age, fired, firedAge>>

-----------------------------------------------------------------------------
Entry(h, time) == [h |-> h, time |-> time]

Elapsed(from) == IF now >= from THEN now - from ELSE now - from + ClockMod

\* WaitsIn(l)[i]: what entry i of l has to wait from the expiry handled last.
WaitsIn(l) ==
    LET sum[i \in 0 .. Len(l)] == IF i = 0 THEN 0 ELSE sum[i - 1] + l[i].time
    IN  sum

\* The time left of msecs behind the first i entries of l.
Left(l, msecs) ==
    LET sum == WaitsIn(l)
    IN  [i \in 0 .. Len(l) |-> msecs - sum[i]]

\* The place to insert at: behind the entries whose time is not more than is left.
Before(l, left) ==
    CHOOSE i \in 0 .. Len(l) :
        /\ i = Len(l) \/ l[i + 1].time > left[i]
        /\ \A j \in 0 .. i - 1 : l[j + 1].time <= left[j]

\* sys_timeout: walk to the first entry that comes later than the rest of
\* msecs, put the new one before it and take the rest off that entry.
Bug_Insert(l, h, msecs) ==
    LET left == Left(l, msecs)
        p    == Before(l, left)
    IN  SubSeq(l, 1, p) \o <<Entry(h, left[p])>> \o SubSeq(l, p + 1, Len(l))
Insert(l, h, msecs) ==
    LET left == Left(l, msecs)
        p    == Before(l, left)
    IN  [i \in 1 .. Len(l) + 1 |->
            CASE i <= p    -> l[i]
              [] i = p + 1 -> Entry(h, left[p])
              [] i = p + 2 -> Entry(l[p + 1].h, l[p + 1].time - left[p])
              [] OTHER     -> l[i - 1]]

\* sys_timeout(Period[h], h): the pool is large enough (OncePending).
Timeout(h) ==
    /\ list' = Insert(list, h, Period[h])
    /\ age' = [age EXCEPT ![h] = 0]

\* tcp_timer_needed, after a PCB was registered.
Bug_TimerNeeded == Timeout(Tcp) /\ active' = TRUE
TimerNeeded ==
    IF active THEN UNCHANGED <<list, active, age>> ELSE Timeout(Tcp) /\ active' = TRUE

-----------------------------------------------------------------------------
\* sys_timeouts_init; the clock may stand anywhere.
TimersInit ==
    /\ now \in 0 .. ClockMod - 1
    /\ last = now
    /\ list = LET armed[i \in 0 .. Len(Startup)] ==
                    IF i = 0 THEN <<>> ELSE Insert(armed[i - 1], Startup[i], Period[Startup[i]])
              IN  armed[Len(Startup)]
    /\ active = FALSE
    /\ pcbs = FALSE
    /\ checking = FALSE
    /\ diff = 0
    /\ running = NoTimer
    /\ late = 0
    /\ age = [h \in Handlers |-> 0]
    /\ fired = NoTimer
    /\ firedAge = 0

\* Ages are counted up to a value no bound below reaches.
AgeMax == 2 * (Longest + MaxPass) + 1

Tick ==
    /\ late < MaxPass
    /\ now' = IF now = ClockMod - 1 THEN 0 ELSE now + 1
    /\ late' = late + 1
    /\ age' = [h \in Handlers |-> IF age[h] < AgeMax THEN age[h] + 1 ELSE AgeMax]
    /\ fired' = NoTimer
    /\ firedAge' = 0
    /\ UNCHANGED <<last, list, active, pcbs, checking, diff, running>>

\* TCP_REG on the active or the time-wait list, while the main loop handles
\* input or inside tcp_tmr.
Register ==
    /\ ~checking \/ running = Tcp
    /\ ~pcbs
    /\ pcbs' = TRUE
    /\ TimerNeeded
    /\ fired' = NoTimer
    /\ firedAge' = 0
    /\ UNCHANGED <<now, last, checking, diff, running, late>>

\* The last PCB leaves these lists, also inside tcp_tmr.
Unregister ==
    /\ ~checking \/ running = Tcp
    /\ pcbs
    /\ pcbs' = FALSE
    /\ fired' = NoTimer
    /\ firedAge' = 0
    /\ UNCHANGED <<now, last, list, active, checking, diff, running, late, age>>

\* sys_check_timeouts is called.
CheckTimeouts ==
    /\ ~checking
    /\ list # <<>>
    /\ checking' = TRUE
    /\ diff' = Elapsed(last)
    /\ late' = 0
    /\ fired' = NoTimer
    /\ firedAge' = 0
    /\ UNCHANGED <<now, last, list, active, pcbs, running, age>>

\* now as sys_check_timeouts read it: late ticks ago.
CheckTime == IF now >= late THEN now - late ELSE now - late + ClockMod

Due     == list # <<>> /\ Head(list).time <= diff

\* One turn of the loop: the first entry has expired and its handler is called.
Expire ==
    /\ checking
    /\ running = NoTimer
    /\ Due
    /\ last' = CheckTime
    /\ diff' = diff - Head(list).time
    /\ list' = Tail(list)
    /\ running' = Head(list).h
    /\ fired' = Head(list).h
    /\ firedAge' = age[Head(list).h]
    /\ UNCHANGED <<now, late, age, active, pcbs, checking>>

\* arp_timer, ip_reass_timer, dns_timer: do the work, arm again.
PeriodicTimer ==
    /\ running \in Periodic
    /\ Timeout(running)
    /\ running' = NoTimer
    /\ fired' = NoTimer
    /\ firedAge' = 0
    /\ UNCHANGED <<now, last, active, pcbs, checking, diff, late>>

\* tcpip_tcp_timer after tcp_tmr: arm again while there are connections.
Bug_RearmTcp == UNCHANGED <<list, age>> /\ active' = FALSE
RearmTcp == IF pcbs THEN Timeout(Tcp) /\ active' = active
            ELSE UNCHANGED <<list, age>> /\ active' = FALSE

TcpTimer ==
    /\ running = Tcp
    /\ RearmTcp
    /\ running' = NoTimer
    /\ fired' = NoTimer
    /\ firedAge' = 0
    /\ UNCHANGED <<now, last, pcbs, checking, diff, late>>

CheckEnd ==
    /\ checking
    /\ running = NoTimer
    /\ ~Due
    /\ checking' = FALSE
    /\ fired' = NoTimer
    /\ firedAge' = 0
    /\ UNCHANGED <<now, last, list, active, pcbs, diff, running, late, age>>

Check == CheckTimeouts \/ Expire \/ PeriodicTimer \/ TcpTimer \/ CheckEnd

TimersNext == Tick \/ Register \/ Unregister \/ Check

TimersSpec == TimersInit /\ [][TimersNext]_timersVars

\* The clock runs and the main loop keeps calling sys_check_timeouts.
TimersLiveSpec == TimersSpec /\ WF_timersVars(Tick) /\ WF_timersVars(Check)

-----------------------------------------------------------------------------
\* The handlers on list l; what that of h has to wait.
HandlersOn(l) == {l[i].h : i \in 1 .. Len(l)}
WaitOf(l, h)  == WaitsIn(l)[CHOOSE i \in 1 .. Len(l) : l[i].h = h]

Pending == HandlersOn(list)
Waits   == [h \in Handlers |-> IF h \in Pending THEN WaitOf(list, h) ELSE NoTimer]

Queue == INSTANCE TimerQueue WITH Times <- 0 .. Longest, Unarmed <- NoTimer, wait <- Waits

TimersTypeOK ==
    /\ {now, last} \subseteq 0 .. ClockMod - 1
    /\ list \in Seq([h : Handlers, time : 0 .. Longest])
    /\ {active, pcbs, checking} \subseteq BOOLEAN
    /\ diff \in 0 .. ClockMod - 1
    /\ running \in Handlers \cup {NoTimer}
    /\ late \in 0 .. MaxPass
    /\ age \in [Handlers -> 0 .. AgeMax]
    /\ fired \in Handlers \cup {NoTimer}
    /\ firedAge \in 0 .. AgeMax

\* Every timer is on the list at most once, and a periodic one unless its own
\* handler is running: re-arming never duplicates or loses a timer, so the pool
\* of timeouts cannot run out.
OncePending ==
    /\ Cardinality(Pending) = Len(list)
    /\ Periodic \subseteq Pending \cup {running}

\* tcpip_tcp_timer_active says whether the TCP timer is on its way, and it is
\* whenever there are TCP connections: a PCB registered or removed while
\* tcp_tmr runs neither arms it twice nor stops it for good.
TcpTimerRuns ==
    /\ active <=> (Tcp \in Pending \/ running = Tcp)
    /\ pcbs => active

\* The list of differences implements a queue of timers: insertion and expiry
\* keep the order and the distances of all the others.
QueueOrder == [][Queue!Next]_Waits

\* Each expiry forgets what is left of the time that has passed (timers.c:381)
\* and so moves the timers behind it back.  While a pass is shorter than any
\* period (ShortPass) that costs less than the waiting time itself: no timer
\* takes more than twice its time and two passes, that before the expiry and
\* that in which it is handled.  It takes another timer of at most twice the
\* period of Tcp (OneShort): armed late in a longer wait, tcpip_tcp_timer is due
\* at once, and with each connection nearly all of the wait would be forgotten.
ShortPass == \A h \in Handlers : MaxPass < Period[h]
OneShort  == \E h \in Periodic : Period[h] <= 2 * Period[Tcp]

TwiceBound == fired # NoTimer => firedAge <= 2 * (Period[fired] + MaxPass)

\* No timer is armed twice, lost, or late.
TimersRun == TimersTypeOK /\ OncePending /\ TcpTimerRuns /\ TwiceBound

\* Every periodic handler is called again and again, and the TCP timer too
\* while connections stay.
TimersFire ==
    /\ \A h \in Periodic : []<>(running = h)
    /\ <>[]pcbs => []<>(running = Tcp)
=============================================================================
