----------------------------- MODULE FlashConfig -----------------------------
(***************************************************************************)
(* The stored configuration: the web form that changes it (apps/httpd.c),  *)
(* the flash sector it lives in (apps/iap.c), the check at start-up and    *)
(* the delayed reset in the main loop (roip.c).                            *)
(*                                                                         *)
(* A configuration is a set of addresses and a password.  The five         *)
(* addresses stand or fall together, so they are one value; a set of       *)
(* addresses is consistent when it passes the test at start-up.  The HTTP  *)
(* state is one static variable of http_recv, shared by all connections,   *)
(* so requests of all clients are one sequence.                            *)
(*                                                                         *)
(* write_flash runs with interrupts off and nothing beside it, but power   *)
(* can fail between its steps, and each call to the flash routines can     *)
(* fail: their results are not looked at.                                  *)
(***************************************************************************)
EXTENDS Integers, Sequences

CONSTANTS
    Addresses,     \* sets of addresses a user may enter
    Consistent,    \* those of them that pass the test at start-up
    Default,       \* the addresses in the code (roip.c)
    Passwords,     \* passwords, as sequences of characters
    Erased,        \* what every field of an erased sector reads as
    ClockMod,      \* size of the millisecond counter, 2^32 in the code
    ResetDelay,    \* 500 ms in the code
    MaxPass,       \* longest pass of the main loop
    MaxRequests,   \* requests between two starts
    FlashFails,    \* a flash routine may fail
    PowerFails     \* power may fail, also while the sector is erased

ASSUME ConfigAssumption ==
    /\ Consistent \subseteq Addresses
    /\ Default \notin Addresses
    /\ Erased \notin Addresses \cup {Default} \cup Passwords
    /\ {ResetDelay, MaxPass, ClockMod, MaxRequests} \subseteq Nat
    /\ ClockMod > ResetDelay + MaxPass + 1
    /\ {FlashFails, PowerFails} \subseteq BOOLEAN

VARIABLES
    flash,         \* the contents of the last sector
    flash_buff,    \* its copy in memory
    inUse,         \* the addresses the network and the server link use
    st,            \* st of http_recv
    page,          \* the page served last
    pc,            \* where write_flash is
    job,           \* who called it
    now,           \* sys_now()
    sysreset_req,  \* when a change was saved; 0 for never
    late,          \* ticks since the main loop last tested sysreset_req
    requests,      \* requests since the start
    saved,         \* the contents last copied to flash without failure
    kept,          \* addresses that were ever given to CopyRamToFlash
    faulted        \* a write of the sector failed or was cut short

store   == <<flash, flash_buff>>
client  == <<st, page>>
writing == <<pc, job>>
time    == <<now, late>>
history == <<saved, kept, faulted>>
configVars == <<store, inUse, client, writing, time, sysreset_req, requests, history>>

Clock == 0 .. ClockMod - 1
Elapsed(from) == IF now >= from THEN now - from ELSE now - from + ClockMod

Config(addr, pass) == [addr |-> addr, pass |-> pass]
Blank == Config(Erased, Erased)

\* The test at start-up: the local address and the gateway and one of the
\* servers agree under the network mask.  All fields of an erased sector are
\* the same and all its mask bits are set, so it passes.
Usable(addr) == addr \in Consistent \cup {Erased}

-----------------------------------------------------------------------------
\* main() up to its loop.  radio_comm_init waits for the radio, so the clock
\* may stand anywhere when the loop begins.
Boot(contents) ==
    /\ flash_buff' = contents
    /\ inUse' = IF Usable(contents.addr) THEN contents.addr ELSE Default
    /\ st' = "disconnected"
    /\ page' = "none"
    /\ pc' = "idle"
    /\ job' = "none"
    /\ now' \in Clock
    /\ sysreset_req' = 0
    /\ late' = 0
    /\ requests' = 0

\* The device was delivered with an erased sector or with some configuration.
ConfigInit ==
    /\ flash \in {Blank} \cup {Config(a, p) : a \in Addresses, p \in Passwords}
    /\ flash_buff = flash
    /\ inUse = IF Usable(flash.addr) THEN flash.addr ELSE Default
    /\ st = "disconnected"
    /\ page = "none"
    /\ pc = "idle"
    /\ job = "none"
    /\ now \in Clock
    /\ sysreset_req = 0
    /\ late = 0
    /\ requests = 0
    /\ saved = flash
    /\ kept = {flash.addr}
    /\ faulted = FALSE

PowerLoss ==
    /\ PowerFails
    /\ Boot(flash)
    /\ faulted' = (faulted \/ pc = "copy")
    /\ UNCHANGED <<flash, saved, kept>>

\* The clock stands still during write_flash: it turns interrupts off.
Tick ==
    /\ pc = "idle"
    /\ late < MaxPass
    /\ now' = IF now = ClockMod - 1 THEN 0 ELSE now + 1
    /\ late' = late + 1
    /\ UNCHANGED <<store, inUse, client, writing, sysreset_req, requests, history>>

-----------------------------------------------------------------------------
Request ==
    /\ pc = "idle"
    /\ requests < MaxRequests
    /\ requests' = requests + 1
    /\ UNCHANGED <<flash, inUse, time, history>>

Serve(text) == page' = text

\* GET / and requests http_recv does not know leave the state alone.
GetRoot ==
    /\ Request
    /\ Serve("login")
    /\ UNCHANGED <<flash_buff, st, writing, sysreset_req>>

\* GET /pass_sent.cgi: the sector is read again, then the password compared.
Login(pass) ==
    /\ Request
    /\ flash_buff' = flash
    /\ IF pass = flash.pass THEN st' = "pass_sent" /\ Serve("form")
                            ELSE st' = "disconnected" /\ Serve("wrong")
    /\ UNCHANGED <<writing, sysreset_req>>

\* GET /change_pass.cgi: the form for a new password.
ChangePass ==
    /\ Request
    /\ IF st = "pass_sent" THEN Serve("pass_form") /\ UNCHANGED st
                           ELSE Serve("wrong") /\ st' = "disconnected"
    /\ UNCHANGED <<flash_buff, writing, sysreset_req>>

StartWrite(caller) == pc' = "erase" /\ job' = caller

\* GET /ip_set.cgi: the new addresses go into the copy, then write_flash.
IpSet(addr) ==
    /\ Request
    /\ IF st = "pass_sent"
       THEN /\ st' = "config_changed"
            /\ flash_buff' = [flash_buff EXCEPT !.addr = addr]
            /\ StartWrite("config")
            /\ Serve("wait_reset")
       ELSE /\ st' = "disconnected"
            /\ Serve("wrong")
            /\ UNCHANGED <<flash_buff, writing>>
    /\ UNCHANGED sysreset_req

\* strncmp(new, confirm, strlen(new)) == 0
Agree(new, confirm) == Len(new) <= Len(confirm) /\ SubSeq(confirm, 1, Len(new)) = new

\* GET /pass_set.cgi: the old password is read and not used.
PassSet(new, confirm) ==
    /\ Request
    /\ CASE st = "pass_sent" /\ new # <<>> /\ Agree(new, confirm) ->
              /\ flash_buff' = [flash_buff EXCEPT !.pass = new]
              /\ StartWrite("password")
              /\ Serve("pass_changed")
              /\ UNCHANGED st
         [] st = "pass_sent" /\ ~(new # <<>> /\ Agree(new, confirm)) ->
              Serve("pass_error") /\ st' = "disconnected" /\ UNCHANGED <<flash_buff, writing>>
         [] OTHER ->
              Serve("wrong") /\ st' = "disconnected" /\ UNCHANGED <<flash_buff, writing>>
    /\ UNCHANGED sysreset_req

-----------------------------------------------------------------------------
\* write_flash: prepare and erase the sector, prepare and copy.  A failure
\* leaves the sector as it was.
Erase ==
    /\ pc = "erase"
    /\ \/ flash' = Blank /\ UNCHANGED faulted
       \/ FlashFails /\ flash' = flash /\ faulted' = TRUE
    /\ pc' = "copy"
    /\ UNCHANGED <<flash_buff, inUse, client, job, time, sysreset_req, requests, saved, kept>>

\* The copy after an erase that failed gives the bits both contents have in
\* common, which reads as none of the contents: it is taken as erased too.
Bug_Copied == Blank
Copied == IF flash = Blank THEN flash_buff ELSE Blank

Copy ==
    /\ pc = "copy"
    /\ \/ flash' = Copied /\ UNCHANGED faulted
       \/ FlashFails /\ flash' = flash /\ faulted' = TRUE
    /\ saved' = IF flash' = flash_buff THEN flash_buff ELSE saved
    /\ kept' = kept \cup {flash_buff.addr}
    /\ pc' = "return"
    /\ UNCHANGED <<flash_buff, inUse, client, job, time, sysreset_req, requests>>

\* http_recv goes on after write_flash: the time of the change, the state.
Bug_Return ==
    /\ pc = "return"
    /\ pc' = "idle"
    /\ job' = "none"
    /\ sysreset_req' = IF job = "config" THEN now ELSE sysreset_req
    /\ UNCHANGED <<store, inUse, client, time, requests, history>>
Return ==
    /\ pc = "return"
    /\ pc' = "idle"
    /\ job' = "none"
    /\ sysreset_req' = IF job = "config" THEN now ELSE sysreset_req
    /\ st' = IF job = "password" THEN "disconnected" ELSE st
    /\ UNCHANGED <<store, inUse, page, time, requests, history>>

\* The end of a pass of the main loop: the reset, once it is due.
Bug_ResetDue == sysreset_req # 0 /\ now - sysreset_req > ResetDelay
ResetDue == sysreset_req # 0 /\ Elapsed(sysreset_req) > ResetDelay

Pass ==
    /\ pc = "idle"
    /\ ~ResetDue
    /\ late' = 0
    /\ UNCHANGED <<store, inUse, client, writing, now, sysreset_req, requests, history>>

SystemReset ==
    /\ pc = "idle"
    /\ ResetDue
    /\ Boot(flash)
    /\ UNCHANGED <<flash, history>>

Http == \/ GetRoot
        \/ ChangePass
        \/ \E pass \in Passwords : Login(pass)
        \/ \E addr \in Addresses : IpSet(addr)
        \/ \E new, confirm \in Passwords \cup {<<>>} : PassSet(new, confirm)

WriteFlash == Erase \/ Copy \/ Return

ConfigNext == PowerLoss \/ Tick \/ Http \/ WriteFlash \/ Pass \/ SystemReset

ConfigSpec == ConfigInit /\ [][ConfigNext]_configVars

\* The clock and the main loop go on.
ConfigFairness ==
    WF_configVars(Tick) /\ WF_configVars(WriteFlash) /\ WF_configVars(Pass \/ SystemReset)

ConfigLiveSpec == ConfigSpec /\ ConfigFairness

-----------------------------------------------------------------------------
Contents == [addr : Addresses \cup {Erased}, pass : Passwords \cup {Erased}]

ConfigTypeOK ==
    /\ flash \in Contents
    /\ flash_buff \in Contents
    /\ inUse \in Consistent \cup {Default, Erased}
    /\ st \in {"disconnected", "pass_sent", "config_changed"}
    /\ page \in {"none", "login", "form", "pass_form", "wrong", "wait_reset", "pass_changed",
                 "pass_error"}
    /\ pc \in {"idle", "erase", "copy", "return"}
    /\ job \in {"none", "config", "password"}
    /\ now \in Clock
    /\ sysreset_req \in Clock
    /\ late \in 0 .. MaxPass
    /\ requests \in 0 .. MaxRequests
    /\ saved \in Contents
    /\ kept \subseteq Addresses \cup {Erased}
    /\ faulted \in BOOLEAN

\* Whoever is logged in changes a copy that is what the sector holds: no
\* earlier change that failed, was cut short or was overtaken by another
\* client's is written along with the new one.
CopyIsFresh == (st = "pass_sent" /\ pc = "idle") => flash_buff = flash

\* A change of the addresses keeps the password and a change of the password
\* keeps the addresses, across failing writes, power losses and resets.
ChangesOneHalf ==
    [][ /\ (job = "config" /\ saved' # saved) => saved'.pass = saved.pass
        /\ (job = "password" /\ saved' # saved) => saved'.addr = saved.addr ]_configVars

\* The addresses in use are the default ones, the ones the device came with
\* or ones a user saved, never a mixture.  Only after a write of the sector
\* that failed or was cut short the device may run with the erased fields.
InUseWasSet == inUse \in {Default} \cup kept \/ (faulted /\ inUse = Erased)

\* sysreset_req is the time of the change and 0 means none (roip.c:215): the
\* property below is about changes not saved while the clock reads 0.
SavedInTime == [](job = "config" => now # 0)

\* "Please wait, chip is going to reset." (httpd.c:89): it does, after any
\* number of requests in the meantime, and a consistent set of addresses that a
\* user saved is in use in the end, or another change has overtaken it.
ChangeTakesEffect ==
    SavedInTime =>
        \A addr \in Consistent :
            (page = "wait_reset" /\ pc = "return" /\ flash.addr = addr)
                ~> (inUse = addr \/ flash.addr # addr)
=============================================================================
