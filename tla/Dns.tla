-------------------------------- MODULE Dns --------------------------------
(***************************************************************************)
(* The DNS resolver (src/src/lwip/src/core/dns.c), built without a list of *)
(* local hosts.  Answers, of the server last asked, may come at any time,  *)
(* more than once, late or never; the parsing of a message is left out: it *)
(* is good, or in error.                                                   *)
(***************************************************************************)
EXTENDS Integers, FiniteSets, FiniteSetsExt

CONSTANTS
    DnsTableSize,      \* DNS_TABLE_SIZE
    Servers,        \* how many of DNS_MAX_SERVERS are set
    MaxRetries,     \* DNS_MAX_RETRIES
    MaxTtl,         \* DNS_MAX_TTL, in calls of dns_tmr
    TtlMod,         \* one more than the greatest value of the type of ttl
    SeqnoMod,         \* the same for seqno
    Ttls,           \* in the answers
    Names, Addresses,
    NoName, NoAddress,
    Again           \* whether users ask again in the callback that tells of a failure

ASSUME DnsAssumption ==
    /\ {DnsTableSize, Servers, MaxRetries, MaxTtl, SeqnoMod} \subseteq Nat \ {0}
    /\ Ttls \subseteq Nat /\ TtlMod \in Nat /\ \A ttl \in Ttls \cup {MaxTtl} : ttl < TtlMod
    /\ NoName \notin Names /\ NoAddress \notin Addresses /\ Again \in BOOLEAN

VARIABLES
    dns_table,
    dns_seqno,
    given,          \* for how long what an answer said is good (history)
    told            \* the address the last step told a user, and the name (history)

dnsVars == <<dns_table, dns_seqno, given, told>>

DnsIndex == 0 .. DnsTableSize - 1
Unused == [state |-> "UNUSED", name |-> NoName, addr |-> NoAddress, ttl |-> 0,
           numdns |-> 0, tmr |-> 0, retries |-> 0, seqno |-> 0, found |-> FALSE]

NoOneTold == [name |-> NoName, addr |-> NoAddress]

DnsInit ==
    /\ dns_table = [i \in DnsIndex |-> Unused]
    /\ dns_seqno = 0
    /\ given = [k \in Names \X Addresses |-> 0]
    /\ told = NoOneTold

-----------------------------------------------------------------------------
\* What the functions work on.
Resolver == [table |-> dns_table, seqno |-> dns_seqno, told |-> NoOneTold]

\* What an answer said is of interest while there is an entry for it.
ResolverBecomes(t, g) ==
    /\ dns_table' = t.table /\ dns_seqno' = t.seqno /\ told' = t.told
    /\ given' = [k \in Names \X Addresses |->
          IF \E i \in DnsIndex : t.table[i].state = "DONE" /\ <<t.table[i].name, t.table[i].addr>> = k
          THEN g[k] ELSE 0]

Put(t, i, e) == [t EXCEPT !.table[i] = e]

\* A flushed entry keeps its address; the rest of it is not read again.
Flush(t, i) == Put(t, i, [Unused EXCEPT !.addr = t.table[i].addr])

-----------------------------------------------------------------------------
\* dns_enqueue: the first unused entry, or else the oldest answered one, found
\* by a difference of sequence numbers that is negative when they have wrapped.
OldestDone(t) ==
    LET since(i) == t.seqno - t.table[i].seqno
        done     == {i \in DnsIndex : t.table[i].state = "DONE" /\ since(i) > 0}
    IN IF done = {} THEN 0 ELSE Min({i \in done : \A j \in done : since(j) <= since(i)})

Chosen(t) ==
    LET unused == {i \in DnsIndex : t.table[i].state = "UNUSED"}
    IN IF unused # {} THEN Min(unused) ELSE OldestDone(t)

dns_enqueue(t, name) ==
    LET i == Chosen(t)
    IN IF t.table[i].state \notin {"UNUSED", "DONE"} THEN t
       ELSE [Put(t, i, [t.table[i] EXCEPT !.state = "ASKING", !.name = name, !.found = TRUE,
                                !.numdns = 0, !.tmr = 1, !.retries = 0, !.seqno = t.seqno])
             EXCEPT !.seqno = (@ + 1) % SeqnoMod]

\* dns_gethostbyname: the first answered entry of that name, or a new query.
dns_lookup(t, name) == {i \in DnsIndex : t.table[i].state = "DONE" /\ t.table[i].name = name}

dns_gethostbyname(t, name) ==
    IF dns_lookup(t, name) # {}
    THEN [t EXCEPT !.told = [name |-> name, addr |-> t.table[Min(dns_lookup(t, name))].addr]]
    ELSE dns_enqueue(t, name)

\* The callback for a failure, in which the user may ask again.
Failed(t, i) ==
    IF Again /\ t.table[i].found THEN dns_gethostbyname(t, t.table[i].name) ELSE t

-----------------------------------------------------------------------------
\* dns_check_entry
NextServer(e) == e.numdns + 1 < Servers

Bug_Retry(t, i) ==
    LET e == t.table[i]
    IN Put(t, i, IF e.retries + 1 = MaxRetries
                 THEN [e EXCEPT !.numdns = (@ + 1) % Servers, !.tmr = 1, !.retries = 0]
                 ELSE [e EXCEPT !.retries = @ + 1, !.tmr = e.retries + 1])
Retry(t, i) ==
    LET e == t.table[i]
    IN IF e.retries + 1 # MaxRetries
       THEN Put(t, i, [e EXCEPT !.retries = @ + 1, !.tmr = e.retries + 1])
       ELSE IF NextServer(e)
       THEN Put(t, i, [e EXCEPT !.numdns = @ + 1, !.tmr = 1, !.retries = 0])
       ELSE Flush(Failed(t, i), i)

dns_check_entry(t, i) ==
    LET e    == t.table[i]
        left == (e.ttl - 1) % TtlMod
    IN CASE e.state = "ASKING" -> IF e.tmr > 1 THEN Put(t, i, [e EXCEPT !.tmr = @ - 1])
                                  ELSE Retry(t, i)
         [] e.state = "DONE"   -> IF left = 0 THEN Flush(t, i)
                                  ELSE Put(t, i, [e EXCEPT !.ttl = left])
         [] e.state = "UNUSED" -> t

\* dns_tmr
Checked[k \in 0 .. DnsTableSize] == IF k = 0 THEN Resolver ELSE dns_check_entry(Checked[k - 1], k - 1)

dns_tmr ==
    ResolverBecomes(Checked[DnsTableSize], [k \in Names \X Addresses |-> Max({given[k] - 1, 0})])

-----------------------------------------------------------------------------
\* dns_recv: the name in an answer must be that of the entry.
Bug_Good(e, name, ok) == ok
Good(e, name, ok) == ok /\ e.name = name

Answered(t, i, addr, ttl) ==
    [Put(t, i, [t.table[i] EXCEPT !.state = "DONE", !.addr = addr, !.ttl = Min({ttl, MaxTtl})])
     EXCEPT !.told = [name |-> t.table[i].name, addr |-> addr]]

\* Before it is known to be good the entry is DONE; a new query in the callback
\* may find it so, and is flushed with it.
dns_recv(i, name, ok, addr, ttl) ==
    LET e    == dns_table[i]
        said == [given EXCEPT ![<<name, addr>>] = Max({@, Min({ttl, MaxTtl})})]
        bad  == Flush(Failed(Put(Resolver, i, [e EXCEPT !.state = "DONE"]), i), i)
    IN IF e.state # "ASKING" THEN ResolverBecomes(Resolver, given)
       ELSE IF Good(e, name, ok) THEN ResolverBecomes(Answered(Resolver, i, addr, ttl), said)
       ELSE ResolverBecomes(bad, given)

Answer == \E i \in DnsIndex, name \in Names, ok \in BOOLEAN, addr \in Addresses, ttl \in Ttls :
              dns_recv(i, name, ok, addr, ttl)

Ask == \E name \in Names : ResolverBecomes(dns_gethostbyname(Resolver, name), given)

DnsNext == Ask \/ Answer \/ dns_tmr

\* The timer of timers.c
DnsFairness == WF_dnsVars(dns_tmr)
DnsSpec == DnsInit /\ [][DnsNext]_dnsVars /\ DnsFairness

-----------------------------------------------------------------------------
DnsEntry ==
    [state : {"UNUSED", "ASKING", "DONE"}, name : Names \cup {NoName},
     addr : Addresses \cup {NoAddress}, ttl : 0 .. TtlMod - 1,
     numdns : 0 .. Servers - 1, tmr : 0 .. MaxRetries, retries : 0 .. MaxRetries - 1,
     seqno : 0 .. SeqnoMod - 1, found : BOOLEAN]

DnsTypeOK ==
    /\ dns_table \in [DnsIndex -> DnsEntry]
    /\ dns_seqno \in 0 .. SeqnoMod - 1
    /\ told \in [name : Names \cup {NoName}, addr : Addresses \cup {NoAddress}]

\* A user is told an address only if an answer gave it for that name, and no
\* longer ago than the answer, or a week, allows: "make sure an answer from the
\* DNS server matches the current dns_table entry (otherwise, answers might
\* arrive late for hostname not on the list any more)".
RightAddress ==
    /\ DnsTypeOK
    /\ told # NoOneTold => told.addr # NoAddress /\ given[<<told.name, told.addr>>] > 0

\* A query comes to an end, answered or given up, however often the servers are
\* changed and queries repeated.
QueriesEnd == \A i \in DnsIndex : []<>(dns_table[i].state # "ASKING")
=============================================================================
