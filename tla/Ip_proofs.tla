------------------------------ MODULE Ip_proofs ------------------------------
(***************************************************************************)
(* Proofs about the tables of IP.  ARP: there is one entry for an address, *)
(* a packet that waits on an entry is for its address, and what is sent    *)
(* goes to what was last heard.  DNS: a user is told what an answer said   *)
(* of the name asked for, while it is good.  Reassembly: the pbufs that    *)
(* are counted are those that are held, and never too many.                *)
(***************************************************************************)
EXTENDS Etharp, Dns, IpReass, Lemmas

(***************************************************************************)
(* The inductive invariant of the ARP table.  What Min and Max choose      *)
(* between matters only when two entries have the same address, which does *)
(* not happen.                                                             *)
(***************************************************************************)
InUse(t, i) == t[i].state # "EMPTY"

\* A packet waits on the entry of the address it is sent to.
OwnPackets == \A i \in ArpIndex :
    InUse(arp_table, i) => arp_table[i].ip \in Hosts /\ arp_table[i].q \in {NoHost, arp_table[i].ip}

OneEntry == \A i, j \in ArpIndex :
    InUse(arp_table, i) /\ InUse(arp_table, j) /\ arp_table[i].ip = arp_table[j].ip => i = j

\* A stable entry is what was last heard, and as old.
AsHeard(t, h) == \A i \in ArpIndex :
    Stable(t[i]) => /\ t[i].q = NoHost /\ t[i].mac \in Macs
                    /\ h[t[i].ip] = [mac |-> t[i].mac, ago |-> t[i].ctime]
StableHeard == AsHeard(arp_table, heard)

ArpInv == SentToHeard /\ OwnPackets /\ OneEntry /\ StableHeard

-----------------------------------------------------------------------------
Entry == [state : {"EMPTY", "PENDING", "STABLE", "REREQUESTING"}, ip : Hosts \cup {NoHost},
          mac : Macs \cup {NoHost}, ctime : 0 .. ArpMaxAge - 1, q : Hosts \cup {NoHost}]
Heard == [mac : Macs \cup {NoHost}, ago : 0 .. ArpMaxAge]

LEMMA MinOfOne == ASSUME NEW i \in Int PROVE Min({i}) = i
  BY DEF Min

\* One timer call later, as long as that is not too old.
LEMMA OneLater ==
  ASSUME NEW n \in 0 .. ArpMaxAge
  PROVE  /\ Min({n + 1, ArpMaxAge}) \in 0 .. ArpMaxAge
         /\ n < ArpMaxAge => Min({n + 1, ArpMaxAge}) = n + 1
  <1> DEFINE S == {n + 1, ArpMaxAge}
  <1>1. ArpMaxAge \in Nat
    BY ArpAssumption
  <1>2. \E x \in S : \A y \in S : x =< y
    <2>1. CASE n < ArpMaxAge
      BY <1>1, <2>1
    <2>2. CASE n = ArpMaxAge
      BY <1>1, <2>2
    <2> QED
      BY <1>1, <2>1, <2>2
  <1>3. Min(S) \in S /\ \A y \in S : Min(S) =< y
    BY <1>2 DEF Min
  <1> QED
    BY <1>1, <1>3

\* The entries that are looked for.
LEMMA Matching ==
  ASSUME NEW t, NEW ip
  PROVE  Match(t, ip) = {i \in ArpIndex : InUse(t, i) /\ t[i].ip = ip}
  BY DEF Match, Entries, InUse

\* With one entry for an address, etharp_find_entry finds it, or makes one.
LEMMA Found ==
  ASSUME OneEntry, NEW ip, NEW hard \in BOOLEAN, NEW i \in ArpIndex,
         InUse(arp_table, i), arp_table[i].ip = ip
  PROVE  Place(arp_table, ip, hard) = {i} /\ Recycled(arp_table, i, ip) = arp_table[i]
  <1>1. Match(arp_table, ip) = {i}
    BY Matching DEF OneEntry
  <1>2. i \in Int
    BY DEF ArpIndex
  <1> QED
    BY <1>1, <1>2, MinOfOne DEF Place, Recycled

LEMMA Made ==
  ASSUME NEW ip, NEW hard \in BOOLEAN,
         \A i \in ArpIndex : ~(InUse(arp_table, i) /\ arp_table[i].ip = ip)
  PROVE  /\ Place(arp_table, ip, hard) = IF hard THEN {Slot(arp_table)} ELSE {}
         /\ \A i : Recycled(arp_table, i, ip) = [EMPTY EXCEPT !.ip = ip]
  <1>1. Match(arp_table, ip) = {}
    BY Matching
  <1> QED
    BY <1>1 DEF Place, Recycled, etharp_free_entry

\* What is remembered after a step.
LEMMA Remembered ==
  ASSUME NEW t, NEW h \in [Hosts -> Heard], Remember(t, h)
  PROVE  /\ heard' \in [Hosts -> Heard]
         /\ \A i \in ArpIndex : Stable(t[i]) /\ t[i].ip \in Hosts => heard'[t[i].ip] = h[t[i].ip]
  <1> DEFINE of(a) == Entries(t, LAMBDA e : Stable(e) /\ e.ip = a)
  <1>1. heard' = [a \in Hosts |-> IF of(a) = {} THEN Unheard ELSE h[a]]
    BY DEF Remember
  <1>2. \A a : of(a) = {i \in ArpIndex : Stable(t[i]) /\ t[i].ip = a}
    BY DEF Entries
  <1>3. Unheard \in Heard
    BY ArpAssumption DEF Unheard, Heard
  <1> HIDE DEF of
  <1>4. heard' \in [Hosts -> Heard]
    BY <1>1, <1>3
  <1>5. ASSUME NEW i \in ArpIndex, Stable(t[i]), t[i].ip \in Hosts PROVE heard'[t[i].ip] = h[t[i].ip]
    BY <1>1, <1>2, <1>5
  <1> QED
    BY <1>4, <1>5

-----------------------------------------------------------------------------
New(ip, mac) == [state |-> "STABLE", ip |-> ip, mac |-> mac, ctime |-> 0, q |-> NoHost]

LEMMA NewEntry ==
  ASSUME NEW ip \in Hosts
  PROVE  /\ EMPTY \in Entry
         /\ [EMPTY EXCEPT !.ip = ip] = [state |-> "EMPTY", ip |-> ip, mac |-> NoHost, ctime |-> 0, q |-> NoHost]
         /\ [EMPTY EXCEPT !.ip = ip] \in Entry
  <1>1. ArpMaxAge \in Nat \ {0}
    BY ArpAssumption
  <1>2. [EMPTY EXCEPT !.ip = ip] = [state |-> "EMPTY", ip |-> ip, mac |-> NoHost, ctime |-> 0, q |-> NoHost]
    BY DEF EMPTY
  <1> QED
    BY <1>1, <1>2 DEF EMPTY, Entry

LEMMA Refreshed ==
  ASSUME NEW d \in Entry, NEW mac
  PROVE  [d EXCEPT !.state = "STABLE", !.mac = mac, !.ctime = 0, !.q = NoHost] = New(d.ip, mac)
  <1> DEFINE d1 == [d EXCEPT !.state = "STABLE"]
             d2 == [d1 EXCEPT !.mac = mac]
             d3 == [d2 EXCEPT !.ctime = 0]
             d4 == [d3 EXCEPT !.q = NoHost]
  <1>1. d1 = [state |-> "STABLE", ip |-> d.ip, mac |-> d.mac, ctime |-> d.ctime, q |-> d.q]
    BY DEF Entry
  <1> HIDE DEF d1
  <1>2. d2 = [state |-> "STABLE", ip |-> d.ip, mac |-> mac, ctime |-> d.ctime, q |-> d.q]
    BY <1>1
  <1> HIDE DEF d2
  <1>3. d3 = [state |-> "STABLE", ip |-> d.ip, mac |-> mac, ctime |-> 0, q |-> d.q]
    BY <1>2
  <1> HIDE DEF d3
  <1>4. d4 = [state |-> "STABLE", ip |-> d.ip, mac |-> mac, ctime |-> 0, q |-> NoHost]
    BY <1>3
  <1> QED
    BY <1>4 DEF d1, d2, d3, d4, New

\* etharp_update_arp_entry leaves one entry for the address, or none.
LEMMA Updated ==
  ASSUME ArpInv, NEW ip \in Hosts, NEW mac \in Macs, NEW hard \in BOOLEAN,
         etharp_update_arp_entry(ip, mac, hard)
  PROVE  \/ \E j : /\ arp_table' = [i \in ArpIndex |-> IF i = j THEN New(ip, mac) ELSE arp_table[i]]
                   /\ \A i \in ArpIndex \ {j} : ~(InUse(arp_table, i) /\ arp_table[i].ip = ip)
                   /\ frames' \subseteq {[for |-> ip, to |-> mac]}
                   /\ frames' # {} => j \in ArpIndex
         \/ /\ arp_table' = arp_table
            /\ \A i \in ArpIndex : ~(InUse(arp_table, i) /\ arp_table[i].ip = ip)
            /\ frames' = {}
  <1> DEFINE place == Place(arp_table, ip, hard)
             e(i) == Recycled(arp_table, i, ip)
  <1>1. /\ arp_table' = [i \in ArpIndex |->
              IF i \in place
              THEN [e(i) EXCEPT !.state = "STABLE", !.mac = mac, !.ctime = 0, !.q = NoHost]
              ELSE arp_table[i]]
        /\ frames' = {[for |-> e(i).q, to |-> mac] : i \in {j \in place : e(j).q # NoHost}}
    BY DEF etharp_update_arp_entry
  <1>2. arp_table \in [ArpIndex -> Entry] /\ OneEntry /\ OwnPackets
    BY DEF ArpInv, SentToHeard, ArpTypeOK, Entry
  <1>3. CASE \E j \in ArpIndex : InUse(arp_table, j) /\ arp_table[j].ip = ip
    <2>1. PICK j \in ArpIndex : InUse(arp_table, j) /\ arp_table[j].ip = ip
      BY <1>3
    <2>2. place = {j} /\ e(j) = arp_table[j]
      BY <1>2, <2>1, Found
    <2>3. [e(j) EXCEPT !.state = "STABLE", !.mac = mac, !.ctime = 0, !.q = NoHost] = New(ip, mac)
      <3>1. e(j) \in Entry /\ e(j).ip = ip
        BY <1>2, <2>1, <2>2
      <3> HIDE DEF e
      <3> QED
        BY <3>1, Refreshed
    <2>4. e(j).q \in {NoHost, ip}
      BY <1>2, <2>1, <2>2 DEF OwnPackets
    <2> HIDE DEF place, e
    <2>5. arp_table' = [i \in ArpIndex |-> IF i = j THEN New(ip, mac) ELSE arp_table[i]]
      BY <1>1, <2>2, <2>3
    <2>6. frames' \subseteq {[for |-> ip, to |-> mac]}
      BY <1>1, <2>2, <2>4
    <2>7. \A i \in ArpIndex \ {j} : ~(InUse(arp_table, i) /\ arp_table[i].ip = ip)
      BY <1>2, <2>1 DEF OneEntry
    <2> QED
      BY <2>1, <2>5, <2>6, <2>7
  <1>4. CASE \A j \in ArpIndex : ~(InUse(arp_table, j) /\ arp_table[j].ip = ip)
    <2>1. /\ place = IF hard THEN {Slot(arp_table)} ELSE {}
          /\ \A i : e(i) = [EMPTY EXCEPT !.ip = ip]
      BY <1>4, Made
    <2>2. \A i : e(i).q = NoHost
      BY <2>1, NewEntry
    <2>3. \A i : [e(i) EXCEPT !.state = "STABLE", !.mac = mac, !.ctime = 0, !.q = NoHost] = New(ip, mac)
      <3>1. \A i : e(i) \in Entry /\ e(i).ip = ip
        BY <2>1, NewEntry
      <3> HIDE DEF e
      <3> TAKE i
      <3>2. New(e(i).ip, mac) = New(ip, mac)
        BY <3>1
      <3> QED
        BY <3>1, <3>2, Refreshed
    <2> HIDE DEF place, e
    <2>4. frames' = {}
      BY <1>1, <2>2
    <2>5. CASE hard
      <3>1. arp_table' = [i \in ArpIndex |-> IF i = Slot(arp_table) THEN New(ip, mac) ELSE arp_table[i]]
        BY <1>1, <2>1, <2>3, <2>5
      <3> QED
        BY <1>4, <2>4, <3>1
    <2>6. CASE ~hard
      <3>1. arp_table' = arp_table
        BY <1>1, <1>2, <2>1, <2>6
      <3> QED
        BY <1>4, <2>4, <3>1
    <2> QED
      BY <2>5, <2>6
  <1> QED
    BY <1>3, <1>4

LEMMA Learns ==
  ASSUME ArpInv, NEW ip \in Hosts, NEW mac \in Macs, NEW hard \in BOOLEAN,
         etharp_update_arp_entry(ip, mac, hard)
  PROVE  ArpInv'
  <1> DEFINE h == [heard EXCEPT ![ip] = [mac |-> mac, ago |-> 0]]
  <1>1. /\ arp_table \in [ArpIndex -> Entry] /\ heard \in [Hosts -> Heard]
        /\ etharp_cached_entry \in ArpIndex
        /\ OneEntry /\ OwnPackets /\ StableHeard
    BY DEF ArpInv, SentToHeard, ArpTypeOK, Entry, Heard
  <1>2. ArpMaxAge \in Nat \ {0} /\ NoHost \notin Hosts
    BY ArpAssumption
  <1>3. h \in [Hosts -> Heard]
    BY <1>1, <1>2 DEF Heard
  <1>4. Remember(arp_table', h) /\ etharp_cached_entry' = etharp_cached_entry
    BY DEF etharp_update_arp_entry
  <1>5. /\ heard' \in [Hosts -> Heard]
        /\ \A i \in ArpIndex : Stable(arp_table'[i]) /\ arp_table'[i].ip \in Hosts =>
                heard'[arp_table'[i].ip] = h[arp_table'[i].ip]
    BY <1>3, <1>4, Remembered
  <1>6. New(ip, mac) \in Entry
    BY <1>2 DEF New, Entry
  <1>7. ASSUME NEW j,
               arp_table' = [i \in ArpIndex |-> IF i = j THEN New(ip, mac) ELSE arp_table[i]],
               \A i \in ArpIndex \ {j} : ~(InUse(arp_table, i) /\ arp_table[i].ip = ip),
               frames' \subseteq {[for |-> ip, to |-> mac]},
               frames' # {} => j \in ArpIndex
        PROVE  ArpInv'
    <2>1. arp_table' \in [ArpIndex -> Entry]
      BY <1>1, <1>6, <1>7
    <2>2. OwnPackets'
      BY <1>1, <1>7 DEF OwnPackets, InUse, New
    <2>3. OneEntry'
      BY <1>1, <1>7 DEF OneEntry, InUse, New
    <2>4. StableHeard'
      <3> SUFFICES ASSUME NEW i \in ArpIndex, Stable(arp_table'[i])
                   PROVE /\ arp_table'[i].q = NoHost /\ arp_table'[i].mac \in Macs
                         /\ heard'[arp_table'[i].ip] = [mac |-> arp_table'[i].mac, ago |-> arp_table'[i].ctime]
        BY DEF StableHeard, AsHeard
      <3>1. arp_table'[i].ip \in Hosts
        BY <2>2 DEF OwnPackets, InUse, Stable
      <3>2. heard'[arp_table'[i].ip] = h[arp_table'[i].ip]
        BY <1>5, <3>1
      <3>3. CASE i = j
        BY <1>1, <1>7, <3>2, <3>3 DEF New
      <3>4. CASE i # j
        BY <1>1, <1>7, <3>1, <3>2, <3>4 DEF StableHeard, AsHeard, Stable, InUse
      <3> QED
        BY <3>3, <3>4
    <2>5. \A f \in frames' : f.to = heard'[f.for].mac /\ heard'[f.for].ago < ArpMaxAge
      <3> SUFFICES ASSUME NEW f \in frames'
                   PROVE f.to = heard'[f.for].mac /\ heard'[f.for].ago < ArpMaxAge
        OBVIOUS
      <3>1. f = [for |-> ip, to |-> mac] /\ j \in ArpIndex
        BY <1>7
      <3>2. arp_table'[j] = New(ip, mac)
        BY <1>7, <3>1
      <3>3. heard'[ip] = h[ip]
        BY <1>5, <3>1, <3>2 DEF New, Stable
      <3>4. h[ip] = [mac |-> mac, ago |-> 0]
        BY <1>1
      <3> QED
        BY <1>2, <3>1, <3>3, <3>4
    <2>6. frames' \subseteq [for : Hosts, to : Macs]
      BY <1>7
    <2> QED
      BY <1>1, <1>4, <1>5, <2>1, <2>2, <2>3, <2>4, <2>5, <2>6
      DEF ArpInv, SentToHeard, ArpTypeOK, Entry, Heard
  <1>8. ASSUME arp_table' = arp_table, frames' = {},
               \A i \in ArpIndex : ~(InUse(arp_table, i) /\ arp_table[i].ip = ip)
        PROVE  ArpInv'
    <2>1. OwnPackets' /\ OneEntry'
      BY <1>1, <1>8 DEF OwnPackets, OneEntry, InUse
    <2>2. StableHeard'
      BY <1>1, <1>5, <1>8 DEF StableHeard, AsHeard, OwnPackets, InUse, Stable
    <2> QED
      BY <1>1, <1>4, <1>5, <1>8, <2>1, <2>2 DEF ArpInv, SentToHeard, ArpTypeOK, Entry, Heard
  <1> HIDE DEF h
  <1>9. QED
    BY <1>7, <1>8, Updated

-----------------------------------------------------------------------------
\* Packets go out by a stable entry.
LEMMA Sends ==
  ASSUME ArpInv, NEW ip \in Hosts, NEW i \in ArpIndex, NEW requested \in BOOLEAN,
         Stable(arp_table[i]), arp_table[i].ip = ip,
         etharp_output_to_arp_index(i, ip, requested)
  PROVE  ArpInv'
  <1>1. /\ arp_table \in [ArpIndex -> Entry] /\ heard \in [Hosts -> Heard]
        /\ OneEntry /\ OwnPackets /\ StableHeard
    BY DEF ArpInv, SentToHeard, ArpTypeOK, Entry, Heard
  <1>2. /\ arp_table' = [arp_table EXCEPT ![i] = Used(@, requested)]
        /\ frames' = {[for |-> ip, to |-> arp_table[i].mac]}
        /\ etharp_cached_entry' = i /\ heard' = heard
    BY DEF etharp_output_to_arp_index
  <1>3. LET e == arp_table[i]
            u == Used(e, requested)
        IN u \in Entry /\ Stable(u) /\ u.ip = e.ip /\ u.mac = e.mac /\ u.ctime = e.ctime /\ u.q = e.q
    BY <1>1 DEF Used, Entry, Stable
  <1>4. /\ arp_table' \in [ArpIndex -> Entry]
        /\ \A j \in ArpIndex : LET e == arp_table[j]
                                u == arp_table'[j]
                            IN /\ u.ip = e.ip /\ u.mac = e.mac /\ u.ctime = e.ctime /\ u.q = e.q
                               /\ Stable(u) <=> Stable(e)
                               /\ InUse(arp_table', j) <=> InUse(arp_table, j)
    BY <1>1, <1>2, <1>3 DEF InUse, Stable
  <1>5. OwnPackets' /\ OneEntry'
    BY <1>1, <1>4 DEF OwnPackets, OneEntry
  <1>6. StableHeard'
    BY <1>1, <1>2, <1>4 DEF StableHeard, AsHeard
  <1>7. /\ arp_table[i].mac \in Macs /\ arp_table[i].ctime < ArpMaxAge
        /\ heard[ip] = [mac |-> arp_table[i].mac, ago |-> arp_table[i].ctime]
    <2>1. arp_table[i].ctime \in 0 .. ArpMaxAge - 1 /\ ArpMaxAge \in Nat
      BY <1>1, ArpAssumption DEF Entry
    <2>2. arp_table[i].ctime < ArpMaxAge
      BY <2>1
    <2>3. /\ arp_table[i].mac \in Macs
          /\ heard[arp_table[i].ip] = [mac |-> arp_table[i].mac, ago |-> arp_table[i].ctime]
      BY <1>1 DEF StableHeard, AsHeard
    <2> QED
      BY <2>2, <2>3
  <1>8. /\ frames' \subseteq [for : Hosts, to : Macs]
        /\ \A f \in frames' : f.to = heard'[f.for].mac /\ heard'[f.for].ago < ArpMaxAge
    BY <1>2, <1>7
  <1> QED
    BY <1>1, <1>2, <1>4, <1>5, <1>6, <1>8 DEF ArpInv, SentToHeard, ArpTypeOK, Entry, Heard

\* A step after which each stable entry was one before, with the same address,
\* and nothing is sent.
LEMMA Kept ==
  ASSUME ArpInv, frames' = {}, etharp_cached_entry' = etharp_cached_entry,
         arp_table' \in [ArpIndex -> Entry], OwnPackets', OneEntry',
         NEW h \in [Hosts -> Heard], Remember(arp_table', h), AsHeard(arp_table', h)
  PROVE  ArpInv'
  <1>1. /\ heard' \in [Hosts -> Heard]
        /\ \A i \in ArpIndex : Stable(arp_table'[i]) /\ arp_table'[i].ip \in Hosts =>
                heard'[arp_table'[i].ip] = h[arp_table'[i].ip]
    BY Remembered
  <1>2. \A i \in ArpIndex : Stable(arp_table'[i]) => arp_table'[i].ip \in Hosts
    BY DEF OwnPackets, InUse, Stable
  <1>3. StableHeard'
    BY <1>1, <1>2 DEF StableHeard, AsHeard
  <1> QED
    BY <1>1, <1>3 DEF ArpInv, SentToHeard, ArpTypeOK, Entry, Heard

\* A packet waits on the entry for its address, which no stable one is.
LEMMA Waits ==
  ASSUME ArpInv, NEW ip \in Hosts, NEW copied \in BOOLEAN,
         \A i \in ArpIndex : ~(Stable(arp_table[i]) /\ arp_table[i].ip = ip),
         etharp_query(ip, copied)
  PROVE  ArpInv'
  <1> DEFINE place == Place(arp_table, ip, TRUE)
             e(i) == Queued(Recycled(arp_table, i, ip), ip, copied)
  <1>1. /\ arp_table \in [ArpIndex -> Entry] /\ heard \in [Hosts -> Heard]
        /\ OneEntry /\ OwnPackets /\ StableHeard
    BY DEF ArpInv, SentToHeard, ArpTypeOK, Entry, Heard
  <1>2. /\ arp_table' = [i \in ArpIndex |-> IF i \in place THEN e(i) ELSE arp_table[i]]
        /\ frames' = {} /\ Remember(arp_table', heard) /\ etharp_cached_entry' = etharp_cached_entry
    BY DEF etharp_query
  <1>3. \A d \in Entry : LET u == Queued(d, ip, copied)
                         IN u \in Entry /\ u.ip = d.ip /\ u.state = "PENDING" /\ u.q \in {d.q, ip}
    BY DEF Queued, Entry
  <1>4. PICK j : /\ place = {j} /\ e(j) \in Entry
                 /\ e(j).ip = ip /\ e(j).q \in {NoHost, ip} /\ e(j).state = "PENDING"
                 /\ \A i \in ArpIndex \ {j} : ~(InUse(arp_table, i) /\ arp_table[i].ip = ip)
    <2>1. CASE \E j \in ArpIndex : InUse(arp_table, j) /\ arp_table[j].ip = ip
      <3>1. PICK j \in ArpIndex : InUse(arp_table, j) /\ arp_table[j].ip = ip
        BY <2>1
      <3>2. place = {j} /\ Recycled(arp_table, j, ip) = arp_table[j]
        BY <1>1, <3>1, Found
      <3>3. arp_table[j] \in Entry /\ arp_table[j].q \in {NoHost, ip}
        BY <1>1, <3>1 DEF OwnPackets
      <3>4. e(j) \in Entry /\ e(j).ip = ip /\ e(j).q \in {NoHost, ip} /\ e(j).state = "PENDING"
        BY <1>3, <3>1, <3>2, <3>3
      <3> QED
        BY <1>1, <3>1, <3>2, <3>4 DEF OneEntry
    <2>2. CASE \A j \in ArpIndex : ~(InUse(arp_table, j) /\ arp_table[j].ip = ip)
      <3> DEFINE j == Slot(arp_table)
                 new == [EMPTY EXCEPT !.ip = ip]
      <3>1. place = {j} /\ Recycled(arp_table, j, ip) = new
        BY <2>2, Made
      <3>2. new \in Entry /\ new.ip = ip /\ new.q = NoHost
        BY NewEntry
      <3> HIDE DEF new
      <3>3. e(j) \in Entry /\ e(j).ip = ip /\ e(j).q \in {NoHost, ip} /\ e(j).state = "PENDING"
        BY <1>3, <3>1, <3>2
      <3> QED
        BY <2>2, <3>1, <3>3
    <2> QED
      BY <2>1, <2>2
  <1> HIDE DEF place, e
  <1>5. arp_table' = [i \in ArpIndex |-> IF i = j THEN e(j) ELSE arp_table[i]]
    BY <1>2, <1>4
  <1>6. arp_table' \in [ArpIndex -> Entry]
    BY <1>1, <1>4, <1>5
  <1>7. OwnPackets'
    BY <1>1, <1>4, <1>5 DEF OwnPackets, InUse
  <1>8. OneEntry'
    BY <1>1, <1>4, <1>5 DEF OneEntry, InUse
  <1>9. \A i \in ArpIndex : Stable(arp_table'[i]) => i # j /\ Stable(arp_table[i]) /\ arp_table'[i] = arp_table[i]
    BY <1>1, <1>4, <1>5 DEF Stable
  <1>10. AsHeard(arp_table', heard)
    BY <1>1, <1>9 DEF StableHeard, AsHeard
  <1> QED
    BY <1>1, <1>2, <1>6, <1>7, <1>8, <1>10, Kept

LEMMA AgedEntry ==
  ASSUME NEW e \in Entry
  PROVE  /\ Aged(e) \in Entry
         /\ Aged(e).state # "EMPTY" =>
                /\ e.state # "EMPTY" /\ Aged(e).ip = e.ip /\ Aged(e).mac = e.mac /\ Aged(e).q = e.q
                /\ Stable(Aged(e)) => Stable(e) /\ Aged(e).ctime = e.ctime + 1 /\ e.ctime + 1 < ArpMaxAge
  <1> DEFINE older == [e EXCEPT !.ctime = @ + 1]
             again == [older EXCEPT !.state = "STABLE"]
  <1>1. ArpMaxAge \in Nat \ {0} /\ Gateway \in Hosts
    BY ArpAssumption
  <1>2. older = [state |-> e.state, ip |-> e.ip, mac |-> e.mac, ctime |-> e.ctime + 1, q |-> e.q]
    BY DEF Entry
  <1> HIDE DEF older
  <1>3. again = [state |-> "STABLE", ip |-> e.ip, mac |-> e.mac, ctime |-> e.ctime + 1, q |-> e.q]
    BY <1>2
  <1> HIDE DEF again
  <1>4. EMPTY \in Entry /\ EMPTY.state = "EMPTY"
    BY <1>1, NewEntry DEF EMPTY
  <1>5. CASE e.state = "EMPTY"
    <2>1. Aged(e) = e
      BY <1>5 DEF Aged
    <2> QED
      BY <1>5, <2>1
  <1>6. CASE /\ e.state # "EMPTY"
             /\ older.ctime >= ArpMaxAge \/ (e.state = "PENDING" /\ older.ctime >= MaxPending)
    <2>1. Aged(e) = EMPTY
      BY <1>6 DEF Aged, etharp_free_entry, older
    <2> QED
      BY <1>4, <2>1
  <1>7. CASE /\ e.state # "EMPTY"
             /\ ~(older.ctime >= ArpMaxAge \/ (e.state = "PENDING" /\ older.ctime >= MaxPending))
    <2>1. e.ctime + 1 < ArpMaxAge /\ e.ctime + 1 \in 0 .. ArpMaxAge - 1
      BY <1>1, <1>2, <1>7 DEF Entry
    <2>2. Aged(e) = IF e.state = "REREQUESTING" THEN again ELSE older
      BY <1>1, <1>2, <1>7, <2>1 DEF Aged, older, again
    <2> QED
      BY <1>2, <1>3, <1>7, <2>1, <2>2 DEF Entry, Stable
  <1> QED
    BY <1>5, <1>6, <1>7

LEMMA Ages == ASSUME ArpInv, etharp_tmr PROVE ArpInv'
  <1> DEFINE h == [a \in Hosts |-> [heard[a] EXCEPT !.ago = Min({@ + 1, ArpMaxAge})]]
  <1>1. /\ arp_table \in [ArpIndex -> Entry] /\ heard \in [Hosts -> Heard]
        /\ OneEntry /\ OwnPackets /\ StableHeard
    BY DEF ArpInv, SentToHeard, ArpTypeOK, Entry, Heard
  <1>2. /\ arp_table' = [i \in ArpIndex |-> Aged(arp_table[i])]
        /\ frames' = {} /\ Remember(arp_table', h) /\ etharp_cached_entry' = etharp_cached_entry
    BY DEF etharp_tmr
  <1>3. \A a \in Hosts : h[a] = [mac |-> heard[a].mac, ago |-> Min({heard[a].ago + 1, ArpMaxAge})]
    BY <1>1 DEF Heard
  <1>4. h \in [Hosts -> Heard]
    BY <1>1, <1>3, OneLater DEF Heard
  <1> HIDE DEF h
  <1>5. \A i \in ArpIndex :
          LET e == arp_table[i]
              u == arp_table'[i]
          IN u \in Entry /\ (u.state # "EMPTY" =>
                /\ e.state # "EMPTY" /\ u.ip = e.ip /\ u.mac = e.mac /\ u.q = e.q
                /\ Stable(u) => Stable(e) /\ u.ctime = e.ctime + 1 /\ e.ctime + 1 < ArpMaxAge)
    BY <1>1, <1>2, AgedEntry
  <1>6. arp_table' \in [ArpIndex -> Entry]
    BY <1>2, <1>5
  <1>7. OwnPackets' /\ OneEntry'
    BY <1>1, <1>5 DEF OwnPackets, OneEntry, InUse
  <1>8. ASSUME NEW i \in ArpIndex, Stable(arp_table'[i])
        PROVE  /\ arp_table'[i].q = NoHost /\ arp_table'[i].mac \in Macs
               /\ h[arp_table'[i].ip] = [mac |-> arp_table'[i].mac, ago |-> arp_table'[i].ctime]
    <2> DEFINE e == arp_table[i]
               u == arp_table'[i]
    <2>1. u.state # "EMPTY"
      BY <1>8 DEF Stable
    <2>2. Stable(e) /\ u.ip = e.ip /\ u.mac = e.mac /\ u.q = e.q /\ u.ctime = e.ctime + 1 /\ e.ctime + 1 < ArpMaxAge
      BY <1>5, <1>8, <2>1
    <2>3. /\ e.q = NoHost /\ e.mac \in Macs /\ e.ip \in Hosts
          /\ heard[e.ip] = [mac |-> e.mac, ago |-> e.ctime]
      BY <1>1, <2>2 DEF StableHeard, AsHeard, OwnPackets, InUse, Stable
    <2>4. e.ctime \in 0 .. ArpMaxAge /\ e.ctime < ArpMaxAge
      BY <1>1, ArpAssumption DEF Entry
    <2>5. Min({heard[e.ip].ago + 1, ArpMaxAge}) = e.ctime + 1
      BY <2>3, <2>4, OneLater
    <2> QED
      BY <1>3, <2>2, <2>3, <2>5
  <1>9. AsHeard(arp_table', h)
    BY <1>8 DEF AsHeard
  <1> QED
    BY <1>1, <1>2, <1>4, <1>6, <1>7, <1>9, Kept

LEMMA Clears == ASSUME ArpInv, etharp_cleanup_netif PROVE ArpInv'
  <1>1. heard \in [Hosts -> Heard]
    BY DEF ArpInv, SentToHeard, ArpTypeOK, Heard
  <1>2. /\ arp_table' = [i \in ArpIndex |-> EMPTY]
        /\ frames' = {} /\ Remember(arp_table', heard) /\ etharp_cached_entry' = etharp_cached_entry
    BY DEF etharp_cleanup_netif, etharp_free_entry
  <1>3. EMPTY \in Entry /\ EMPTY.state = "EMPTY"
    BY ArpAssumption, NewEntry DEF EMPTY
  <1>4. arp_table' \in [ArpIndex -> Entry] /\ \A i \in ArpIndex : arp_table'[i].state = "EMPTY"
    BY <1>2, <1>3
  <1>5. OwnPackets' /\ OneEntry' /\ AsHeard(arp_table', heard)
    BY <1>4 DEF OwnPackets, OneEntry, InUse, Stable, AsHeard
  <1> QED
    BY <1>1, <1>2, <1>4, <1>5, Kept

LEMMA InitArpInv == ArpInit => ArpInv
  <1> SUFFICES ASSUME ArpInit PROVE ArpInv
    OBVIOUS
  <1>1. EMPTY \in Entry /\ EMPTY.state = "EMPTY"
    BY ArpAssumption, NewEntry DEF EMPTY
  <1>2. arp_table \in [ArpIndex -> Entry] /\ \A i \in ArpIndex : arp_table[i].state = "EMPTY"
    BY <1>1 DEF ArpInit
  <1>3. etharp_cached_entry \in ArpIndex /\ heard \in [Hosts -> Heard] /\ frames = {}
    BY ArpAssumption DEF ArpInit, ArpIndex, Unheard, Heard
  <1> QED
    BY <1>2, <1>3 DEF ArpInv, SentToHeard, ArpTypeOK, Entry, Heard, OwnPackets, OneEntry, StableHeard, AsHeard, InUse, Stable

LEMMA StepArpInv == ArpInv /\ [ArpNext]_arpVars => ArpInv'
  <1> SUFFICES ASSUME ArpInv, [ArpNext]_arpVars PROVE ArpInv'
    OBVIOUS
  <1>1. CASE ethernet_input
    <2>1. PICK ip \in Hosts, mac \in Macs, for_us \in BOOLEAN : etharp_update_arp_entry(ip, mac, for_us)
      BY <1>1 DEF ethernet_input
    <2> QED
      BY <2>1, Learns
  <1>2. ASSUME NEW dest \in Hosts \cup Remote, etharp_output(dest) PROVE ArpInv'
    <2> DEFINE ip == Hop(dest)
               fits == Entries(arp_table, LAMBDA e : Stable(e) /\ e.ip = ip)
    <2>1. ip \in Hosts
      BY <1>2, ArpAssumption DEF Hop
    <2>2. fits = {i \in ArpIndex : Stable(arp_table[i]) /\ arp_table[i].ip = ip}
      BY DEF Entries
    <2>3. \/ /\ fits # {}
             /\ \E requested \in BOOLEAN :
                  etharp_output_to_arp_index(
                      IF etharp_cached_entry \in fits THEN etharp_cached_entry ELSE Min(fits), ip, requested)
          \/ /\ fits = {}
             /\ \E copied \in BOOLEAN : etharp_query(ip, copied)
      BY <1>2 DEF etharp_output
    <2> HIDE DEF ip, fits
    <2>4. CASE fits # {}
      <3>1. PICK i : fits = {i} /\ i \in ArpIndex /\ Stable(arp_table[i]) /\ arp_table[i].ip = ip
        BY <2>2, <2>4 DEF ArpInv, OneEntry, InUse, Stable
      <3>2. Min(fits) = i
        BY <3>1, MinOfOne DEF ArpIndex
      <3>3. \E requested \in BOOLEAN : etharp_output_to_arp_index(i, ip, requested)
        BY <2>3, <2>4, <3>1, <3>2
      <3> QED
        BY <2>1, <3>1, <3>3, Sends
    <2>5. CASE fits = {}
      BY <2>1, <2>2, <2>3, <2>5, Waits
    <2> QED
      BY <2>4, <2>5
  <1>3. CASE UNCHANGED arpVars
    BY <1>3 DEF arpVars, ArpInv, SentToHeard, ArpTypeOK, OwnPackets, OneEntry, StableHeard, AsHeard, InUse, Stable
  <1> QED
    BY <1>1, <1>2, <1>3, Ages, Clears DEF ArpNext

\* What the functions of etharp.c keep: one entry for an address, a packet on
\* the entry of its address, a stable entry with what was heard.
THEOREM ArpInvariance == ArpSpec => []ArpInv
  BY InitArpInv, StepArpInv, PTL DEF ArpSpec

-----------------------------------------------------------------------------
\* A packet, also one that waited on an entry (etharp_query) and one sent when
\* the reply came (etharp_update_arp_entry), goes to the Ethernet address last
\* heard of its host, less than ArpMaxAge timer calls ago.
THEOREM SentWhereHeard == ArpSpec => []SentToHeard
  <1>1. ArpInv => SentToHeard
    BY DEF ArpInv
  <1> QED
    BY <1>1, ArpInvariance, PTL

\* The table never has two entries for an address: etharp_find_entry recycles
\* one only for an address that has none, and what the table gives does not
\* depend on the order in which it is searched.
THEOREM OneEntryForEach == ArpSpec => []OneEntry
  <1>1. ArpInv => OneEntry
    BY DEF ArpInv
  <1> QED
    BY <1>1, ArpInvariance, PTL

-----------------------------------------------------------------------------
(***************************************************************************)
(* The inductive invariant of the resolver: an entry that is answered      *)
(* holds an answer that is good for at least as long as the entry is kept. *)
(***************************************************************************)
\* What the entries hold that users may be told of.
Current(t, g) ==
    \A i \in DnsIndex : t[i].state = "DONE" =>
        /\ t[i].name \in Names /\ t[i].addr \in Addresses
        /\ t[i].ttl \in Nat \ {0} /\ t[i].ttl <= g[<<t[i].name, t[i].addr>>]

DnsInv ==
    /\ RightAddress /\ Current(dns_table, given)
    /\ given \in [Names \X Addresses -> Nat]

ResolverType == [table : [DnsIndex -> DnsEntry], seqno : 0 .. SeqnoMod - 1,
                 told : [name : Names \cup {NoName}, addr : Addresses \cup {NoAddress}]]

\* The names and addresses with an answer that is kept.
Answers(t, k) == \E i \in DnsIndex : t[i].state = "DONE" /\ <<t[i].name, t[i].addr>> = k

Telling(t, g) ==
    t.told # NoOneTold =>
        /\ t.told.addr \in Addresses /\ t.told.name \in Names
        /\ Answers(t.table, <<t.told.name, t.told.addr>>)

\* What a step has to make of the table and of the answers.
LEMMA Becoming ==
  ASSUME NEW t \in ResolverType, NEW g \in [Names \X Addresses -> Nat],
         Current(t.table, g), Telling(t, g), ResolverBecomes(t, g)
  PROVE  DnsInv'
  <1>1. t.table \in [DnsIndex -> DnsEntry] /\ t.seqno \in 0 .. SeqnoMod - 1
        /\ t.told \in [name : Names \cup {NoName}, addr : Addresses \cup {NoAddress}]
    BY DEF ResolverType
  <1>2. dns_table' = t.table /\ dns_seqno' = t.seqno /\ told' = t.told
    BY DEF ResolverBecomes
  <1>3. given' = [k \in Names \X Addresses |-> IF Answers(t.table, k) THEN g[k] ELSE 0]
    BY DEF ResolverBecomes, Answers
  <1>4. given' \in [Names \X Addresses -> Nat]
    BY <1>3
  <1>5. ASSUME NEW i \in DnsIndex, t.table[i].state = "DONE"
        PROVE  /\ t.table[i].name \in Names /\ t.table[i].addr \in Addresses
               /\ given'[<<t.table[i].name, t.table[i].addr>>] = g[<<t.table[i].name, t.table[i].addr>>]
    <2>1. t.table[i].name \in Names /\ t.table[i].addr \in Addresses
      BY <1>5 DEF Current
    <2>2. Answers(t.table, <<t.table[i].name, t.table[i].addr>>)
      BY <1>5 DEF Answers
    <2> QED
      BY <1>3, <2>1, <2>2
  <1>6. Current(dns_table, given)'
    <2>1. Current(t.table, given')
      BY <1>5 DEF Current
    <2> QED
      BY <1>2, <2>1 DEF Current
  <1>7. DnsTypeOK'
    BY <1>1, <1>2 DEF DnsTypeOK
  <1>8. ASSUME t.told # NoOneTold PROVE t.told.addr # NoAddress /\ given'[<<t.told.name, t.told.addr>>] > 0
    <2>1. /\ t.told.addr \in Addresses /\ t.told.name \in Names
          /\ Answers(t.table, <<t.told.name, t.told.addr>>)
      BY <1>8 DEF Telling
    <2>2. PICK i \in DnsIndex : /\ t.table[i].state = "DONE"
                                /\ <<t.table[i].name, t.table[i].addr>> = <<t.told.name, t.told.addr>>
      BY <2>1 DEF Answers
    <2>3. /\ t.table[i].ttl \in Nat \ {0} /\ t.table[i].name = t.told.name /\ t.table[i].addr = t.told.addr
          /\ t.table[i].ttl <= g[<<t.table[i].name, t.table[i].addr>>]
      BY <2>2 DEF Current
    <2>4. given'[<<t.told.name, t.told.addr>>] = g[<<t.told.name, t.told.addr>>]
      BY <1>5, <2>2, <2>3
    <2>5. g[<<t.told.name, t.told.addr>>] \in Nat
      BY <2>1
    <2> QED
      BY <2>1, <2>3, <2>4, <2>5, DnsAssumption
  <1> QED
    BY <1>2, <1>4, <1>6, <1>7, <1>8 DEF DnsInv, RightAddress, NoOneTold

LEMMA Sizes ==
  /\ DnsTableSize \in Nat \ {0} /\ Servers \in Nat \ {0} /\ MaxRetries \in Nat \ {0}
  /\ MaxTtl \in Nat \ {0} /\ SeqnoMod \in Nat \ {0} /\ TtlMod \in Nat /\ MaxTtl < TtlMod
  BY DnsAssumption

LEMMA ResolverIs ==
  ASSUME DnsInv
  PROVE  /\ Resolver \in ResolverType /\ Resolver.told = NoOneTold
         /\ Resolver.table = dns_table /\ Resolver.seqno = dns_seqno
  BY DEF DnsInv, RightAddress, DnsTypeOK, Resolver, ResolverType, NoOneTold

\* From t to u entry i becomes e, and nothing else changes.
Replaced(t, u, i, e) ==
    /\ u \in ResolverType /\ u.told = t.told /\ u.seqno = t.seqno /\ u.table[i] = e
    /\ \A j \in DnsIndex \ {i} : u.table[j] = t.table[j]

LEMMA PutIs ==
  ASSUME NEW t \in ResolverType, NEW i \in DnsIndex, NEW e \in DnsEntry, NEW u, u = Put(t, i, e)
  PROVE  Replaced(t, u, i, e)
  <1>1. t.table \in [DnsIndex -> DnsEntry]
    BY DEF ResolverType
  <1>2. u = [t EXCEPT !.table = [t.table EXCEPT ![i] = e]]
    BY DEF Put, ResolverType
  <1>3. [t.table EXCEPT ![i] = e] \in [DnsIndex -> DnsEntry]
    BY <1>1
  <1>4. u \in ResolverType
    BY <1>2, <1>3 DEF ResolverType
  <1>5. u.told = t.told /\ u.seqno = t.seqno /\ u.table = [t.table EXCEPT ![i] = e]
    BY <1>2 DEF ResolverType
  <1> QED
    BY <1>1, <1>4, <1>5 DEF Replaced

LEMMA FlushIs ==
  ASSUME NEW t \in ResolverType, NEW i \in DnsIndex, NEW u, u = Flush(t, i)
  PROVE  \E e \in DnsEntry : e.state = "UNUSED" /\ Replaced(t, u, i, e)
  <1> DEFINE e == [Unused EXCEPT !.addr = t.table[i].addr]
  <1>1. t.table[i] \in DnsEntry
    BY DEF ResolverType
  <1>2. t.table[i].addr \in Addresses \cup {NoAddress}
    BY <1>1 DEF DnsEntry
  <1>3. e \in DnsEntry /\ e.state = "UNUSED"
    <2>1. Unused \in DnsEntry /\ Unused.state = "UNUSED"
      BY Sizes DEF Unused, DnsEntry
    <2>2. PICK a \in Addresses \cup {NoAddress} : a = t.table[i].addr
      BY <1>2
    <2>3. e = [Unused EXCEPT !.addr = a]
      BY <2>2
    <2> HIDE DEF e
    <2> QED
      BY <2>1, <2>3 DEF DnsEntry
  <1>4. u = Put(t, i, e)
    BY DEF Flush
  <1> HIDE DEF e
  <1> QED
    BY <1>3, <1>4, PutIs

-----------------------------------------------------------------------------
LEMMA ChosenIs ==
  ASSUME NEW t \in ResolverType
  PROVE  Chosen(t) \in DnsIndex
  <1> DEFINE unused == {i \in DnsIndex : t.table[i].state = "UNUSED"}
             since(i) == t.seqno - t.table[i].seqno
             done == {i \in DnsIndex : t.table[i].state = "DONE" /\ since(i) > 0}
             oldest == {i \in done : \A j \in done : since(j) <= since(i)}
  <1>1. DnsIndex \subseteq Nat /\ 0 \in DnsIndex
    BY DnsAssumption DEF DnsIndex
  <1>2. CASE unused # {}
    BY <1>1, <1>2, MinOfNats DEF Chosen
  <1>3. CASE unused = {} /\ done # {}
    <2>1. \A i \in DnsIndex : t.table[i].seqno \in 0 .. SeqnoMod - 1 /\ t.seqno \in 0 .. SeqnoMod - 1
      BY DEF ResolverType, DnsEntry
    <2> DEFINE short == {SeqnoMod - since(i) : i \in done}
    <2>2. short \subseteq Nat /\ short # {}
      BY <1>3, <2>1, DnsAssumption
    <2>3. PICK i \in done : \A n \in short : SeqnoMod - since(i) <= n
      BY <2>2, MinOfNats
    <2>4. \A j \in done : since(j) <= since(i)
      <3> SUFFICES ASSUME NEW j \in done PROVE since(j) <= since(i)
        OBVIOUS
      <3>1. SeqnoMod - since(j) \in short
        OBVIOUS
      <3>2. SeqnoMod - since(i) <= SeqnoMod - since(j)
        BY <2>3, <3>1
      <3>3. since(i) \in Int /\ since(j) \in Int
        BY <2>1
      <3> HIDE DEF since
      <3> QED
        BY <3>2, <3>3, Sizes
    <2>5. i \in oldest
      BY <2>4
    <2>6. Min(oldest) \in oldest
      BY <1>1, <2>5, MinOfNats
    <2> QED
      BY <1>3, <2>6 DEF Chosen, OldestDone
  <1>4. CASE unused = {} /\ done = {}
    BY <1>1, <1>4 DEF Chosen, OldestDone
  <1> QED
    BY <1>2, <1>3, <1>4

LEMMA Asks ==
  ASSUME DnsInv, NEW name \in Names, ResolverBecomes(dns_gethostbyname(Resolver, name), given)
  PROVE  DnsInv'
  <1> DEFINE t == Resolver
  <1>1. t \in ResolverType /\ t.told = NoOneTold /\ t.table = dns_table /\ t.seqno = dns_seqno
    BY ResolverIs
  <1>2. Current(t.table, given) /\ given \in [Names \X Addresses -> Nat]
    BY <1>1 DEF DnsInv
  <1> HIDE DEF t
  <1>3. CASE dns_lookup(t, name) # {}
    <2> DEFINE i == Min(dns_lookup(t, name))
               said == [name |-> name, addr |-> t.table[i].addr]
               u == [t EXCEPT !.told = said]
    <2>1. dns_lookup(t, name) \subseteq Nat
      BY DEF dns_lookup, DnsIndex
    <2>2. i \in DnsIndex /\ t.table[i].state = "DONE" /\ t.table[i].name = name
      BY <1>3, <2>1, MinOfNats DEF dns_lookup
    <2> HIDE DEF i
    <2>3. t.table[i].addr \in Addresses
      BY <1>2, <2>2 DEF Current
    <2>4. u \in ResolverType /\ u.table = t.table /\ u.told = said
      BY <1>1, <2>3 DEF ResolverType
    <2>5. Telling(u, given)
      BY <2>2, <2>3, <2>4 DEF Telling, Answers
    <2>6. ResolverBecomes(u, given)
      BY <1>3 DEF dns_gethostbyname, i, t
    <2> QED
      BY <1>2, <2>4, <2>5, <2>6, Becoming
  <1>4. CASE dns_lookup(t, name) = {}
    <2> DEFINE i == Chosen(t)
               e == [t.table[i] EXCEPT !.state = "ASKING", !.name = name, !.found = TRUE,
                                       !.numdns = 0, !.tmr = 1, !.retries = 0, !.seqno = t.seqno]
               u == Put(t, i, e)
               v == [u EXCEPT !.seqno = (@ + 1) % SeqnoMod]
    <2>1. ResolverBecomes(IF t.table[i].state \notin {"UNUSED", "DONE"} THEN t ELSE v, given)
      BY <1>4 DEF dns_gethostbyname, dns_enqueue, t
    <2>2. i \in DnsIndex
      BY <1>1, ChosenIs
    <2> HIDE DEF i
    <2>3. t.table[i] \in DnsEntry /\ t.seqno \in 0 .. SeqnoMod - 1
      BY <1>1, <2>2 DEF ResolverType
    <2>4. e \in DnsEntry /\ e.state = "ASKING"
      <3>1. PICK c \in DnsEntry : c = t.table[i]
        BY <2>3
      <3>2. PICK s \in 0 .. SeqnoMod - 1 : s = t.seqno
        BY <2>3
      <3>3. e = [c EXCEPT !.state = "ASKING", !.name = name, !.found = TRUE,
                          !.numdns = 0, !.tmr = 1, !.retries = 0, !.seqno = s]
        BY <3>1, <3>2
      <3>4. 0 \in 0 .. Servers - 1 /\ 1 \in 0 .. MaxRetries /\ 0 \in 0 .. MaxRetries - 1
        BY Sizes
      <3> HIDE DEF e
      <3> QED
        BY <3>3, <3>4 DEF DnsEntry
    <2> HIDE DEF e
    <2>5. Replaced(t, u, i, e)
      BY <1>1, <2>2, <2>4, PutIs
    <2> HIDE DEF u
    <2>6. v \in ResolverType /\ v.told = u.told /\ v.table = u.table
      BY <2>5, Sizes DEF ResolverType, Replaced
    <2>7. Current(v.table, given)
      BY <1>2, <2>4, <2>5, <2>6 DEF Current, Replaced
    <2>8. CASE t.table[i].state \notin {"UNUSED", "DONE"}
      BY <1>1, <1>2, <2>1, <2>8, Becoming DEF Telling
    <2>9. CASE t.table[i].state \in {"UNUSED", "DONE"}
      BY <1>1, <1>2, <2>1, <2>5, <2>6, <2>7, <2>9, Becoming DEF Telling, Replaced
    <2> QED
      BY <2>8, <2>9
  <1> QED
    BY <1>3, <1>4

LEMMA Hears ==
  ASSUME DnsInv, ~Again, 0 \notin Ttls,
         NEW i \in DnsIndex, NEW name \in Names, NEW ok \in BOOLEAN, NEW addr \in Addresses, NEW ttl \in Ttls,
         dns_recv(i, name, ok, addr, ttl)
  PROVE  DnsInv'
  <1> DEFINE t == Resolver
             e == dns_table[i]
             left == Min({ttl, MaxTtl})
  <1>1. t \in ResolverType /\ t.told = NoOneTold /\ t.table = dns_table /\ t.seqno = dns_seqno
    BY ResolverIs
  <1>2. Current(t.table, given) /\ given \in [Names \X Addresses -> Nat] /\ e \in DnsEntry
    BY <1>1 DEF DnsInv, RightAddress, DnsTypeOK
  <1>3. left \in 1 .. TtlMod - 1
    <2>1. ttl \in Nat \ {0} /\ MaxTtl \in Nat \ {0} /\ ttl < TtlMod /\ MaxTtl < TtlMod /\ TtlMod \in Nat
      BY DnsAssumption
    <2> QED
      BY <2>1, MinOfTwo
  <1> HIDE DEF t, left
  <1>4. CASE e.state # "ASKING"
    <2>1. ResolverBecomes(t, given)
      BY <1>4 DEF dns_recv, t
    <2> QED
      BY <1>1, <1>2, <2>1, Becoming DEF Telling
  <1>5. CASE e.state = "ASKING" /\ Good(e, name, ok)
    <2> DEFINE f == [e EXCEPT !.state = "DONE", !.addr = addr, !.ttl = left]
               u == Put(t, i, f)
               said == [name |-> e.name, addr |-> addr]
               v == [u EXCEPT !.told = said]
               k == <<name, addr>>
               g == [given EXCEPT ![k] = Max({@, left})]
    <2>1. e.name = name
      BY <1>5 DEF Good
    <2>2. ResolverBecomes(v, g)
      BY <1>1, <1>5 DEF dns_recv, Answered, t, left
    <2>3. /\ f \in DnsEntry /\ f.state = "DONE" /\ f.name = name /\ f.addr = addr /\ f.ttl = left
      <3>1. left \in 0 .. TtlMod - 1
        BY <1>3, Sizes
      <3>2. f \in DnsEntry
        BY <1>2, <3>1 DEF DnsEntry
      <3>3. f.state = "DONE" /\ f.name = e.name /\ f.addr = addr /\ f.ttl = left
        BY <1>2 DEF DnsEntry
      <3> QED
        BY <2>1, <3>2, <3>3
    <2> HIDE DEF f
    <2>4. /\ u \in ResolverType /\ u.told = t.told /\ u.table[i] = f
          /\ \A j \in DnsIndex \ {i} : u.table[j] = t.table[j]
      BY <1>1, <2>3, PutIs DEF Replaced
    <2> HIDE DEF u
    <2>5. v \in ResolverType /\ v.told = said /\ v.table = u.table
      BY <1>2, <2>1, <2>4 DEF ResolverType
    <2>6. /\ g \in [Names \X Addresses -> Nat] /\ g[k] >= left /\ \A q \in Names \X Addresses : g[q] >= given[q]
      <3>1. k \in Names \X Addresses /\ given[k] \in Nat
        BY <1>2
      <3>2. Max({given[k], left}) = IF given[k] >= left THEN given[k] ELSE left
        BY <1>3, <3>1, MaxOfTwo
      <3>3. g[k] = Max({given[k], left}) /\ \A q \in (Names \X Addresses) \ {k} : g[q] = given[q]
        BY <1>2, <3>1
      <3>4. Max({given[k], left}) \in Nat
        BY <1>3, <3>1, <3>2
      <3>5. g \in [Names \X Addresses -> Nat]
        BY <1>2, <3>4
      <3> HIDE DEF g
      <3>6. g[k] >= left /\ g[k] >= given[k]
        BY <1>3, <3>1, <3>2, <3>3
      <3>7. ASSUME NEW q \in Names \X Addresses PROVE g[q] >= given[q]
        <4>1. given[q] \in Nat
          BY <1>2
        <4> QED
          BY <3>3, <3>6, <4>1
      <3> QED
        BY <3>5, <3>6, <3>7
    <2> HIDE DEF g
    <2>7. Current(v.table, g)
      <3> SUFFICES ASSUME NEW j \in DnsIndex, v.table[j].state = "DONE"
                   PROVE  /\ v.table[j].name \in Names /\ v.table[j].addr \in Addresses
                          /\ v.table[j].ttl \in Nat \ {0}
                          /\ v.table[j].ttl <= g[<<v.table[j].name, v.table[j].addr>>]
        BY DEF Current
      <3>1. CASE j = i
        <4>1. v.table[j] = f
          BY <2>4, <2>5, <3>1
        <4> QED
          BY <1>3, <2>3, <2>6, <4>1
      <3>2. CASE j # i
        <4> DEFINE c == v.table[j]
        <4>1. c = t.table[j]
          BY <2>4, <2>5, <3>2
        <4>2. /\ c.name \in Names /\ c.addr \in Addresses /\ c.ttl \in Nat \ {0}
              /\ c.ttl <= given[<<c.name, c.addr>>]
          BY <1>2, <4>1 DEF Current
        <4>3. <<c.name, c.addr>> \in Names \X Addresses
          BY <4>2
        <4>4. given[<<c.name, c.addr>>] \in Nat /\ g[<<c.name, c.addr>>] \in Nat /\ g[<<c.name, c.addr>>] >= given[<<c.name, c.addr>>]
          BY <1>2, <2>6, <4>3
        <4> QED
          BY <4>2, <4>4
      <3> QED
        BY <3>1, <3>2
    <2>8. Telling(v, g)
      <3>1. Answers(v.table, <<name, addr>>)
        BY <2>3, <2>4, <2>5 DEF Answers
      <3> QED
        BY <2>1, <2>5, <3>1 DEF Telling
    <2> QED
      BY <2>2, <2>5, <2>6, <2>7, <2>8, Becoming
  <1>6. CASE e.state = "ASKING" /\ ~Good(e, name, ok)
    <2> DEFINE f == [e EXCEPT !.state = "DONE"]
               u == Put(t, i, f)
               v == Flush(u, i)
    <2>1. ResolverBecomes(v, given)
      BY <1>6 DEF dns_recv, Failed, t
    <2>2. f \in DnsEntry
      BY <1>2 DEF DnsEntry
    <2> HIDE DEF f
    <2>3. u \in ResolverType /\ u.told = t.told /\ \A j \in DnsIndex \ {i} : u.table[j] = t.table[j]
      BY <1>1, <2>2, PutIs DEF Replaced
    <2> HIDE DEF u
    <2>4. /\ v \in ResolverType /\ v.told = t.told /\ v.table[i].state = "UNUSED"
          /\ \A j \in DnsIndex \ {i} : v.table[j] = t.table[j]
      BY <2>3, FlushIs DEF Replaced
    <2> HIDE DEF v
    <2>5. Current(v.table, given)
      BY <1>2, <2>4 DEF Current
    <2> QED
      BY <1>1, <1>2, <2>1, <2>4, <2>5, Becoming DEF Telling
  <1> QED
    BY <1>4, <1>5, <1>6

-----------------------------------------------------------------------------
\* One call of the timer for entry i: no other entry changes, nobody is told
\* anything, and an answer that stays has one call less.
OnlyAged(t, u, i) ==
    /\ u \in ResolverType /\ u.told = t.told
    /\ \A j \in DnsIndex \ {i} : u.table[j] = t.table[j]
    /\ u.table[i].state = "DONE" =>
         /\ t.table[i].state = "DONE"
         /\ u.table[i].name = t.table[i].name /\ u.table[i].addr = t.table[i].addr
         /\ t.table[i].ttl # 0 => u.table[i].ttl \in Nat \ {0} /\ u.table[i].ttl = t.table[i].ttl - 1

LEMMA PuttingAges ==
  ASSUME NEW t \in ResolverType, NEW i \in DnsIndex, NEW f \in DnsEntry, f.state # "DONE", NEW u, u = Put(t, i, f)
  PROVE  OnlyAged(t, u, i)
  <1>1. Replaced(t, u, i, f)
    BY PutIs
  <1> QED
    BY <1>1 DEF OnlyAged, Replaced

LEMMA FlushingAges ==
  ASSUME NEW t \in ResolverType, NEW i \in DnsIndex, NEW u, u = Flush(t, i)
  PROVE  OnlyAged(t, u, i)
  <1>1. PICK e \in DnsEntry : e.state = "UNUSED" /\ Replaced(t, u, i, e)
    BY FlushIs
  <1> QED
    BY <1>1 DEF OnlyAged, Replaced

LEMMA CheckIs ==
  ASSUME ~Again, NEW t \in ResolverType, NEW i \in DnsIndex, NEW u, u = dns_check_entry(t, i)
  PROVE  OnlyAged(t, u, i)
  <1> DEFINE e == t.table[i]
             left == (e.ttl - 1) % TtlMod
  <1>1. e \in DnsEntry
    BY DEF ResolverType
  <1>2. CASE e.state = "ASKING" /\ e.tmr > 1
    <2> DEFINE f == [e EXCEPT !.tmr = @ - 1]
    <2>1. u = Put(t, i, f)
      BY <1>2 DEF dns_check_entry
    <2> HIDE DEF e
    <2>2. f \in DnsEntry /\ f.state = "ASKING"
      BY <1>1, <1>2, Sizes DEF DnsEntry
    <2> HIDE DEF f
    <2> QED
      BY <2>1, <2>2, PuttingAges
  <1>3. CASE e.state = "ASKING" /\ ~(e.tmr > 1)
    <2>1. u = Retry(t, i)
      BY <1>3 DEF dns_check_entry
    <2>2. CASE e.retries + 1 # MaxRetries
      <3> DEFINE f == [e EXCEPT !.retries = @ + 1, !.tmr = e.retries + 1]
      <3>1. u = Put(t, i, f)
        BY <2>1, <2>2 DEF Retry
      <3> HIDE DEF e
      <3>2. f \in DnsEntry /\ f.state = "ASKING"
        <4>1. e.retries \in 0 .. MaxRetries - 1
          BY <1>1 DEF DnsEntry
        <4>2. e.retries + 1 \in 0 .. MaxRetries - 1 /\ e.retries + 1 \in 0 .. MaxRetries
          BY <2>2, <4>1, Sizes
        <4> QED
          BY <1>1, <1>3, <4>2 DEF DnsEntry
      <3> HIDE DEF f
      <3> QED
        BY <3>1, <3>2, PuttingAges
    <2>3. CASE e.retries + 1 = MaxRetries /\ NextServer(e)
      <3> DEFINE f == [e EXCEPT !.numdns = @ + 1, !.tmr = 1, !.retries = 0]
      <3>1. u = Put(t, i, f)
        BY <2>1, <2>3 DEF Retry
      <3> HIDE DEF e
      <3>2. f \in DnsEntry /\ f.state = "ASKING"
        <4>1. e.numdns \in 0 .. Servers - 1
          BY <1>1 DEF DnsEntry
        <4>2. e.numdns + 1 \in 0 .. Servers - 1 /\ 1 \in 0 .. MaxRetries /\ 0 \in 0 .. MaxRetries - 1
          BY <2>3, <4>1, Sizes DEF NextServer
        <4> QED
          BY <1>1, <1>3, <4>2 DEF DnsEntry
      <3> HIDE DEF f
      <3> QED
        BY <3>1, <3>2, PuttingAges
    <2>4. CASE e.retries + 1 = MaxRetries /\ ~NextServer(e)
      <3>1. u = Flush(t, i)
        BY <2>1, <2>4 DEF Retry, Failed
      <3> QED
        BY <3>1, FlushingAges
    <2> QED
      BY <2>2, <2>3, <2>4
  <1>4. CASE e.state = "DONE" /\ left = 0
    <2>1. u = Flush(t, i)
      BY <1>4 DEF dns_check_entry
    <2> QED
      BY <2>1, FlushingAges
  <1>5. CASE e.state = "DONE" /\ left # 0
    <2> DEFINE f == [e EXCEPT !.ttl = left]
    <2>1. u = Put(t, i, f)
      BY <1>5 DEF dns_check_entry
    <2> HIDE DEF e
    <2>2. e.ttl \in 0 .. TtlMod - 1
      BY <1>1 DEF DnsEntry
    <2>3. left \in 0 .. TtlMod - 1 /\ (e.ttl # 0 => left = e.ttl - 1)
      BY <2>2, Sizes
    <2> HIDE DEF left
    <2>4. f \in DnsEntry /\ f.name = e.name /\ f.addr = e.addr /\ f.ttl = left
      BY <1>1, <2>3 DEF DnsEntry
    <2> HIDE DEF f
    <2>5. Replaced(t, u, i, f)
      BY <2>1, <2>4, PutIs
    <2>6. u.table[i] = f /\ left \in Nat \ {0}
      BY <1>5, <2>3, <2>5, Sizes DEF Replaced
    <2> QED
      BY <1>5, <2>3, <2>4, <2>5, <2>6 DEF OnlyAged, Replaced, e
  <1>6. CASE e.state = "UNUSED"
    <2>1. u = t
      BY <1>6 DEF dns_check_entry
    <2> QED
      BY <1>6, <2>1 DEF OnlyAged
  <1>7. e.state \in {"UNUSED", "ASKING", "DONE"}
    BY <1>1 DEF DnsEntry
  <1> HIDE DEF e, left
  <1> QED
    BY <1>2, <1>3, <1>4, <1>5, <1>6, <1>7

\* The functions that describe the first n entries of dns_tmr's loop.
Loop(f, n) == f = [k \in 0 .. n |-> IF k = 0 THEN Resolver ELSE dns_check_entry(f[k - 1], k - 1)]

LEMMA LoopExtends ==
  ASSUME NEW n \in Nat, NEW f, Loop(f, n)
  PROVE  \E g : Loop(g, n + 1)
  <1> DEFINE g == [k \in 0 .. n + 1 |-> IF k <= n THEN f[k] ELSE dns_check_entry(f[n], n)]
             h == [k \in 0 .. n + 1 |-> IF k = 0 THEN Resolver ELSE dns_check_entry(g[k - 1], k - 1)]
  <1>1. \A k \in 0 .. n : f[k] = IF k = 0 THEN Resolver ELSE dns_check_entry(f[k - 1], k - 1)
    BY DEF Loop
  <1>2. ASSUME NEW k \in 0 .. n + 1 PROVE g[k] = h[k]
    <2>1. CASE k = 0
      BY <1>1, <2>1
    <2>2. CASE k \in 1 .. n
      <3>1. k - 1 \in 0 .. n /\ k \in 0 .. n /\ k # 0
        BY <2>2
      <3>2. g[k - 1] = f[k - 1] /\ g[k] = f[k]
        BY <3>1
      <3> QED
        BY <1>1, <3>1, <3>2
    <2>3. CASE k = n + 1
      <3>1. k - 1 = n /\ ~(k <= n) /\ n \in 0 .. n + 1 /\ k # 0 /\ n <= n
        BY <2>3
      <3>2. g[n] = f[n] /\ g[k] = dns_check_entry(f[n], n)
        BY <3>1
      <3>3. h[k] = dns_check_entry(g[k - 1], k - 1)
        BY <3>1
      <3> QED
        BY <3>1, <3>2, <3>3
    <2> QED
      BY <2>1, <2>2, <2>3
  <1>3. g = h
    BY <1>2
  <1> QED
    BY <1>3 DEF Loop

LEMMA CheckedIs ==
  /\ Checked[0] = Resolver
  /\ \A k \in 0 .. DnsTableSize - 1 : Checked[k + 1] = dns_check_entry(Checked[k], k)
  <1> DEFINE S == {n \in Nat : \E f : Loop(f, n)}
  <1>1. 0 \in S
    <2>1. Loop([k \in 0 .. 0 |-> Resolver], 0)
      BY DEF Loop
    <2> QED
      BY <2>1
  <1>2. \A n \in Nat : n \in S => n + 1 \in S
    BY LoopExtends
  <1>3. DnsTableSize \in S
    <2> HIDE DEF S
    <2> QED
      BY <1>1, <1>2, Induct, DnsAssumption
  <1>4. Loop(Checked, DnsTableSize)
    BY <1>3 DEF Checked, Loop
  <1>5. \A k \in 0 .. DnsTableSize : Checked[k] = IF k = 0 THEN Resolver ELSE dns_check_entry(Checked[k - 1], k - 1)
    BY <1>4 DEF Loop
  <1>6. ASSUME NEW k \in 0 .. DnsTableSize - 1 PROVE Checked[k + 1] = dns_check_entry(Checked[k], k)
    <2>1. k + 1 \in 0 .. DnsTableSize /\ k + 1 # 0 /\ (k + 1) - 1 = k
      BY DnsAssumption
    <2> QED
      BY <1>5, <2>1
  <1>7. 0 \in 0 .. DnsTableSize
    BY DnsAssumption
  <1> QED
    BY <1>5, <1>6, <1>7

\* What the loop has done to the first n entries, and not to the others.
LoopAged(t, n) ==
    /\ t \in ResolverType /\ t.told = NoOneTold
    /\ \A j \in DnsIndex : j >= n => t.table[j] = dns_table[j]
    /\ \A j \in DnsIndex : (j < n /\ t.table[j].state = "DONE") =>
          /\ dns_table[j].state = "DONE"
          /\ t.table[j].name = dns_table[j].name /\ t.table[j].addr = dns_table[j].addr
          /\ t.table[j].ttl \in Nat \ {0} /\ t.table[j].ttl = dns_table[j].ttl - 1

LEMMA LoopAges ==
  ASSUME DnsInv, ~Again
  PROVE  LoopAged(Checked[DnsTableSize], DnsTableSize)
  <1> DEFINE S == {n \in Nat : n <= DnsTableSize => LoopAged(Checked[n], n)}
  <1>1. 0 \in S
    <2>1. LoopAged(Resolver, 0)
      BY ResolverIs DEF LoopAged, DnsIndex
    <2> QED
      BY <2>1, CheckedIs
  <1>2. ASSUME NEW n \in Nat, n \in S PROVE n + 1 \in S
    <2> SUFFICES ASSUME n + 1 <= DnsTableSize PROVE LoopAged(Checked[n + 1], n + 1)
      OBVIOUS
    <2> DEFINE t == Checked[n]
               u == dns_check_entry(t, n)
    <2>1. n \in DnsIndex /\ n \in 0 .. DnsTableSize - 1 /\ n <= DnsTableSize
      BY DnsAssumption DEF DnsIndex
    <2>2. Checked[n + 1] = u
      BY <2>1, CheckedIs
    <2>3. LoopAged(t, n)
      BY <1>2, <2>1
    <2> HIDE DEF t
    <2>4. OnlyAged(t, u, n)
      BY <2>1, <2>3, CheckIs DEF LoopAged
    <2> HIDE DEF u
    <2>5. t.table[n] = dns_table[n]
      BY <2>1, <2>3 DEF LoopAged
    <2>6. ASSUME NEW j \in DnsIndex, j >= n + 1 PROVE u.table[j] = dns_table[j]
      <3>1. j # n /\ j >= n
        BY <2>1, <2>6 DEF DnsIndex
      <3> QED
        BY <2>3, <2>4, <3>1 DEF LoopAged, OnlyAged
    <2>7. ASSUME NEW j \in DnsIndex, j < n + 1, u.table[j].state = "DONE"
          PROVE  /\ dns_table[j].state = "DONE"
                 /\ u.table[j].name = dns_table[j].name /\ u.table[j].addr = dns_table[j].addr
                 /\ u.table[j].ttl \in Nat \ {0} /\ u.table[j].ttl = dns_table[j].ttl - 1
      <3>1. CASE j = n
        <4>1. t.table[n].state = "DONE"
          BY <2>4, <2>7, <3>1 DEF OnlyAged
        <4>2. dns_table[n].ttl \in Nat \ {0}
          BY <2>1, <2>5, <4>1 DEF DnsInv, Current
        <4>3. dns_table[n].ttl # 0
          BY <4>2
        <4> QED
          BY <2>4, <2>5, <2>7, <3>1, <4>3 DEF OnlyAged
      <3>2. CASE j # n
        <4>1. j < n /\ u.table[j] = t.table[j]
          BY <2>1, <2>4, <2>7, <3>2 DEF DnsIndex, OnlyAged
        <4> QED
          BY <2>3, <2>7, <4>1 DEF LoopAged
      <3> QED
        BY <3>1, <3>2
    <2>8. LoopAged(u, n + 1)
      BY <2>3, <2>4, <2>6, <2>7 DEF LoopAged, OnlyAged
    <2> QED
      BY <2>2, <2>8
  <1>3. DnsTableSize \in S
    <2> HIDE DEF S
    <2> QED
      BY <1>1, <1>2, Induct, DnsAssumption
  <1> QED
    BY <1>3, DnsAssumption

LEMMA Ticks == ASSUME DnsInv, ~Again, dns_tmr PROVE DnsInv'
  <1> DEFINE t == Checked[DnsTableSize]
             g == [k \in Names \X Addresses |-> Max({given[k] - 1, 0})]
  <1>1. ResolverBecomes(t, g)
    BY DEF dns_tmr
  <1>2. LoopAged(t, DnsTableSize)
    BY LoopAges
  <1>3. \A j \in DnsIndex : j < DnsTableSize
    BY DnsAssumption DEF DnsIndex
  <1> HIDE DEF t
  <1>4. \A k \in Names \X Addresses : given[k] \in Nat
    BY DEF DnsInv
  <1>5. \A k \in Names \X Addresses : g[k] \in Nat /\ g[k] >= given[k] - 1
    <2> SUFFICES ASSUME NEW k \in Names \X Addresses PROVE g[k] \in Nat /\ g[k] >= given[k] - 1
      OBVIOUS
    <2>1. given[k] \in Nat /\ g[k] = Max({given[k] - 1, 0})
      BY <1>4
    <2>2. Max({given[k] - 1, 0}) = IF given[k] - 1 >= 0 THEN given[k] - 1 ELSE 0
      BY <2>1, MaxOfTwo
    <2> QED
      BY <2>1, <2>2
  <1>6. g \in [Names \X Addresses -> Nat]
    BY <1>5
  <1> HIDE DEF g
  <1>7. Current(t.table, g)
    <2> SUFFICES ASSUME NEW j \in DnsIndex, t.table[j].state = "DONE"
                 PROVE  /\ t.table[j].name \in Names /\ t.table[j].addr \in Addresses
                        /\ t.table[j].ttl \in Nat \ {0} /\ t.table[j].ttl <= g[<<t.table[j].name, t.table[j].addr>>]
      BY DEF Current
    <2> DEFINE c == dns_table[j]
    <2>1. /\ c.state = "DONE" /\ t.table[j].name = c.name /\ t.table[j].addr = c.addr
          /\ t.table[j].ttl \in Nat \ {0} /\ t.table[j].ttl = c.ttl - 1
      BY <1>2, <1>3 DEF LoopAged
    <2>2. c.name \in Names /\ c.addr \in Addresses /\ c.ttl \in Nat \ {0} /\ c.ttl <= given[<<c.name, c.addr>>]
      BY <2>1 DEF DnsInv, Current
    <2>3. <<c.name, c.addr>> \in Names \X Addresses
      BY <2>2
    <2>4. given[<<c.name, c.addr>>] \in Nat /\ g[<<c.name, c.addr>>] \in Nat
          /\ g[<<c.name, c.addr>>] >= given[<<c.name, c.addr>>] - 1
      BY <1>4, <1>5, <2>3
    <2> QED
      BY <2>1, <2>2, <2>4
  <1> QED
    BY <1>1, <1>2, <1>6, <1>7, Becoming DEF LoopAged, Telling

(***************************************************************************)
(* A user is told an address only if an answer gave it for that name, and  *)
(* no longer ago than the answer, or DNS_MAX_TTL, allows.  Two things that *)
(* dns.c leaves open are excluded, and TLC finds the property violated     *)
(* without them: the entry being given up is answered to a user who asks   *)
(* again in the callback (dns_recv has set it to DONE), and a time to live *)
(* of 0 wraps when dns_check_entry counts it down before looking at it.    *)
(***************************************************************************)
THEOREM RightAddressTold == (~Again /\ 0 \notin Ttls) => (DnsSpec => []RightAddress)
  <1> SUFFICES ASSUME ~Again, 0 \notin Ttls PROVE DnsSpec => []RightAddress
    OBVIOUS
  <1>1. DnsInit => DnsInv
    <2> SUFFICES ASSUME DnsInit PROVE DnsInv
      OBVIOUS
    <2>1. Unused \in DnsEntry /\ Unused.state = "UNUSED"
      BY DnsAssumption DEF Unused, DnsEntry
    <2>2. DnsTypeOK
      BY <2>1, DnsAssumption DEF DnsInit, DnsTypeOK, NoOneTold
    <2>3. Current(dns_table, given)
      BY <2>1 DEF DnsInit, Current
    <2> QED
      BY <2>2, <2>3 DEF DnsInit, DnsInv, RightAddress
  <1>2. DnsInv /\ [DnsNext]_dnsVars => DnsInv'
    <2> SUFFICES ASSUME DnsInv, [DnsNext]_dnsVars PROVE DnsInv'
      OBVIOUS
    <2>1. CASE Ask
      BY <2>1, Asks DEF Ask
    <2>2. CASE Answer
      BY <2>2, Hears DEF Answer
    <2>3. CASE dns_tmr
      BY <2>3, Ticks
    <2>4. CASE UNCHANGED dnsVars
      BY <2>4 DEF dnsVars, DnsInv, RightAddress, DnsTypeOK, Current
    <2> QED
      BY <2>1, <2>2, <2>3, <2>4 DEF DnsNext
  <1>3. DnsInv => RightAddress
    BY DEF DnsInv
  <1> QED
    BY <1>1, <1>2, <1>3, PTL DEF DnsSpec

-----------------------------------------------------------------------------

(***************************************************************************)
(* Sums.  Total is the last of the partial sums of a list.                 *)
(***************************************************************************)
Summing(g, s) ==
    g \in [0 .. Len(s) -> Nat] /\ g[0] = 0 /\ \A i \in 1 .. Len(s) : g[i] = g[i - 1] + s[i]

\* Partial sums are what Total computes, and there are no others.
LEMMA SumsAgree ==
  ASSUME NEW s \in Seq(Nat), NEW f, NEW g, Summing(f, s), Summing(g, s)
  PROVE  f = g
  <1> DEFINE n == Len(s)
             T == {i \in Nat : i <= n => f[i] = g[i]}
  <1>1. n \in Nat
    OBVIOUS
  <1>2. /\ f \in [0 .. n -> Nat] /\ f[0] = 0 /\ \A i \in 1 .. n : f[i] = f[i - 1] + s[i]
        /\ g \in [0 .. n -> Nat] /\ g[0] = 0 /\ \A i \in 1 .. n : g[i] = g[i - 1] + s[i]
    BY DEF Summing
  <1> HIDE DEF n
  <1>3. 0 \in T
    BY <1>2
  <1>4. ASSUME NEW k \in Nat, k \in T PROVE k + 1 \in T
    <2> SUFFICES ASSUME k + 1 <= n PROVE f[k + 1] = g[k + 1]
      OBVIOUS
    <2>1. k + 1 \in 1 .. n /\ (k + 1) - 1 = k /\ k <= n
      BY <1>1
    <2>2. f[k + 1] = f[k] + s[k + 1] /\ g[k + 1] = g[k] + s[k + 1]
      BY <1>2, <2>1
    <2> QED  BY <1>4, <2>1, <2>2
  <1>5. Nat \subseteq T
    <2> HIDE DEF T
    <2> QED  BY <1>3, <1>4, Induct
  <1>6. \A i \in 0 .. n : f[i] = g[i]
    BY <1>1, <1>5
  <1>7. f = [i \in 0 .. n |-> f[i]] /\ g = [i \in 0 .. n |-> g[i]]
    BY <1>2
  <1> QED  BY <1>6, <1>7

LEMMA TotalIs ==
  ASSUME NEW s \in Seq(Nat)
  PROVE  \E g : Summing(g, s) /\ Total(s) = g[Len(s)]
  <1> DEFINE n == Len(s)
             Wanted(g) == g = [i \in 0 .. n |-> IF i = 0 THEN 0 ELSE g[i - 1] + s[i]]
             step == [i \in 1 .. n |-> [x \in Nat |-> x + s[i]]]
             h == CHOOSE g : Wanted(g)
  <1>1. n \in Nat /\ \A i \in 1 .. n : s[i] \in Nat
    OBVIOUS
  <1>2. Total(s) = h[n]
    BY DEF Total
  <1> HIDE DEF n
  <1>3. StepsOn(step, Nat, n)
    BY <1>1 DEF StepsOn
  <1>4. PICK f : Makes(f, Nat, 0, n, step)
    <2> HIDE DEF step
    <2> QED  BY <1>1, <1>3, Recursion
  <1>5. f \in [0 .. n -> Nat] /\ f[0] = 0 /\ \A i \in 1 .. n : f[i] = f[i - 1] + s[i]
    <2>1. f \in [0 .. n -> Nat] /\ f[0] = 0 /\ \A i \in 1 .. n : f[i] = step[i][f[i - 1]]
      <3> HIDE DEF step
      <3> QED  BY <1>4 DEF Makes
    <2>2. \A i \in 1 .. n : i - 1 \in 0 .. n
      BY <1>1
    <2> QED  BY <2>1, <2>2
  <1> HIDE DEF step
  <1>6. Wanted(f)
    <2>1. \A i \in 0 .. n : f[i] = IF i = 0 THEN 0 ELSE f[i - 1] + s[i]
      <3>1. \A i \in 0 .. n : i = 0 \/ i \in 1 .. n
        BY <1>1
      <3> QED  BY <1>5, <3>1
    <2>2. f = [i \in 0 .. n |-> f[i]]
      BY <1>5
    <2> QED  BY <2>1, <2>2
  <1>7. Wanted(h)
    <2> HIDE DEF Wanted
    <2> QED  BY <1>6
  <1> HIDE DEF h
  <1>8. \A i \in 0 .. n : h[i] = IF i = 0 THEN 0 ELSE h[i - 1] + s[i]
    BY <1>7
  <1>9. h = [i \in 0 .. n |-> h[i]]
    BY <1>7
  <1> HIDE DEF Wanted
  <1>10. \A i \in 0 .. n : h[i] \in Nat
    <2> DEFINE T == {i \in Nat : i <= n => h[i] \in Nat}
    <2>1. 0 \in T
      BY <1>1, <1>8
    <2>2. ASSUME NEW k \in Nat, k \in T PROVE k + 1 \in T
      <3> SUFFICES ASSUME k + 1 <= n PROVE h[k + 1] \in Nat
        OBVIOUS
      <3>1. k + 1 \in 0 .. n /\ k + 1 # 0 /\ (k + 1) - 1 = k /\ k <= n /\ k + 1 \in 1 .. n
        BY <1>1
      <3>2. h[k] \in Nat
        BY <2>2, <3>1
      <3>3. h[k + 1] = h[k] + s[k + 1]
        BY <1>8, <3>1
      <3> QED  BY <1>1, <3>1, <3>2, <3>3
    <2> HIDE DEF T
    <2>3. Nat \subseteq T
      BY <2>1, <2>2, Induct
    <2> QED  BY <2>3 DEF T
  <1>11. h \in [0 .. n -> Nat] /\ h[0] = 0 /\ \A i \in 1 .. n : h[i] = h[i - 1] + s[i]
    <2>1. h \in [0 .. n -> Nat]
      BY <1>9, <1>10
    <2>2. h[0] = 0 /\ \A i \in 1 .. n : h[i] = h[i - 1] + s[i]
      <3>1. 0 \in 0 .. n /\ \A i \in 1 .. n : i \in 0 .. n /\ i # 0
        BY <1>1
      <3> QED  BY <1>8, <3>1
    <2> QED  BY <2>1, <2>2
  <1>12. Summing(h, s)
    BY <1>11 DEF Summing, n
  <1> QED  BY <1>2, <1>12 DEF n

\* Any partial sums give the total.
LEMMA TotalBy ==
  ASSUME NEW s \in Seq(Nat), NEW g, Summing(g, s)
  PROVE  Total(s) = g[Len(s)] /\ Total(s) \in Nat
  <1>1. PICK f : Summing(f, s) /\ Total(s) = f[Len(s)]
    BY TotalIs
  <1>2. f = g
    BY <1>1, SumsAgree
  <1>3. g[Len(s)] \in Nat
    BY DEF Summing
  <1> QED  BY <1>1, <1>2, <1>3

\* A number is put into the list, or taken out of it.
LEMMA TotalInserted ==
  ASSUME NEW s \in Seq(Nat), NEW t \in Seq(Nat), NEW k \in 1 .. Len(s) + 1, NEW x \in Nat,
         Len(t) = Len(s) + 1,
         \A i \in 1 .. Len(s) + 1 : t[i] = IF i < k THEN s[i] ELSE IF i = k THEN x ELSE s[i - 1]
  PROVE  Total(t) = Total(s) + x /\ Total(t) \in Nat /\ Total(s) \in Nat
  <1> DEFINE n == Len(s)
  <1>1. PICK f : Summing(f, s)
    BY TotalIs
  <1>2. n \in Nat /\ Len(t) = n + 1 /\ k \in 1 .. n + 1
    OBVIOUS
  <1>3. f \in [0 .. n -> Nat] /\ f[0] = 0 /\ \A i \in 1 .. n : f[i] = f[i - 1] + s[i]
    BY <1>1 DEF Summing
  <1>4. \A i \in 1 .. n + 1 : t[i] = IF i < k THEN s[i] ELSE IF i = k THEN x ELSE s[i - 1]
    OBVIOUS
  <1>5. \A i \in 1 .. n : s[i] \in Nat
    OBVIOUS
  <1> HIDE DEF n
  <1> DEFINE g == [i \in 0 .. n + 1 |-> IF i < k THEN f[i] ELSE f[i - 1] + x]
  <1>6. \A i \in 0 .. n + 1 : g[i] \in Nat
    <2> SUFFICES ASSUME NEW i \in 0 .. n + 1 PROVE g[i] \in Nat
      OBVIOUS
    <2>1. CASE i < k
      <3>1. i \in 0 .. n
        BY <1>2, <2>1
      <3> QED  BY <1>3, <2>1, <3>1
    <2>2. CASE ~(i < k)
      <3>1. i - 1 \in 0 .. n
        BY <1>2, <2>2
      <3>2. f[i - 1] \in Nat
        BY <1>3, <3>1
      <3>3. f[i - 1] + x \in Nat
        <4> DEFINE y == f[i - 1]
        <4> HIDE DEF y
        <4>1. y \in Nat
          BY <3>2 DEF y
        <4>2. y + x \in Nat
          BY <4>1
        <4> QED  BY <4>2 DEF y
      <3> QED  BY <2>2, <3>3
    <2> QED  BY <2>1, <2>2
  <1>7. g[0] = 0 /\ g[n + 1] = f[n] + x
    <2>1. 0 \in 0 .. n + 1 /\ 0 < k /\ n + 1 \in 0 .. n + 1 /\ ~(n + 1 < k) /\ (n + 1) - 1 = n
      BY <1>2
    <2> QED  BY <1>3, <2>1
  <1>8. ASSUME NEW i \in 1 .. n + 1 PROVE g[i] = g[i - 1] + t[i]
    <2>1. i \in 0 .. n + 1 /\ i - 1 \in 0 .. n + 1
      BY <1>2
    <2>2. CASE i < k
      <3>1. i \in 1 .. n /\ i - 1 < k
        BY <1>2, <2>2
      <3>2. g[i] = f[i] /\ g[i - 1] = f[i - 1] /\ t[i] = s[i]
        BY <1>4, <2>1, <2>2, <3>1
      <3> QED  BY <1>3, <3>1, <3>2
    <2>3. CASE i = k
      <3>1. ~(i < k) /\ i - 1 < k
        BY <1>2, <2>3
      <3>2. g[i] = f[i - 1] + x /\ g[i - 1] = f[i - 1] /\ t[i] = x
        BY <1>4, <2>1, <2>3, <3>1
      <3> QED  BY <3>2
    <2>4. CASE i > k
      <3>1. ~(i < k) /\ ~(i - 1 < k) /\ i # k /\ i - 1 \in 1 .. n /\ i - 2 \in 0 .. n /\ (i - 1) - 1 = i - 2
        BY <1>2, <2>4
      <3>2. g[i] = f[i - 1] + x /\ g[i - 1] = f[i - 2] + x /\ t[i] = s[i - 1]
        BY <1>4, <2>1, <3>1
      <3>3. f[i - 1] = f[i - 2] + s[i - 1]
        BY <1>3, <3>1
      <3>4. f[i - 2] \in Nat /\ s[i - 1] \in Nat
        BY <1>3, <1>5, <3>1
      <3> QED  BY <3>2, <3>3, <3>4, SMTT(30)
    <2> QED  BY <1>2, <2>2, <2>3, <2>4
  <1>9. g \in [0 .. n + 1 -> Nat]
    BY <1>6
  <1> HIDE DEF g
  <1>10. Summing(g, t)
    BY <1>2, <1>7, <1>8, <1>9 DEF Summing
  <1>11. Total(t) = g[n + 1] /\ Total(t) \in Nat
    BY <1>2, <1>10, TotalBy
  <1>12. Total(s) = f[n] /\ Total(s) \in Nat
    BY <1>1, TotalBy DEF n
  <1> QED  BY <1>7, <1>11, <1>12

\* The list without its k-th number.
LEMMA TotalRemoved ==
  ASSUME NEW s \in Seq(Nat), NEW t \in Seq(Nat), NEW k \in 1 .. Len(s), Len(t) = Len(s) - 1,
         \A i \in 1 .. Len(s) - 1 : t[i] = IF i < k THEN s[i] ELSE s[i + 1]
  PROVE  Total(s) = Total(t) + s[k] /\ Total(s) \in Nat /\ Total(t) \in Nat /\ s[k] \in Nat
  <1> DEFINE n == Len(t)
  <1>1. n \in Nat /\ Len(s) = n + 1 /\ k \in 1 .. n + 1 /\ s[k] \in Nat
    OBVIOUS
  <1>2. \A i \in 1 .. n : t[i] = IF i < k THEN s[i] ELSE s[i + 1]
    OBVIOUS
  <1>3. \A i \in 1 .. n + 1 : s[i] = IF i < k THEN t[i] ELSE IF i = k THEN s[k] ELSE t[i - 1]
    <2> SUFFICES ASSUME NEW i \in 1 .. n + 1
                 PROVE  s[i] = IF i < k THEN t[i] ELSE IF i = k THEN s[k] ELSE t[i - 1]
      OBVIOUS
    <2> HIDE DEF n
    <2>1. CASE i < k
      <3>1. i \in 1 .. n
        BY <1>1, <2>1
      <3> QED  BY <1>2, <2>1, <3>1
    <2>2. CASE i > k
      <3>1. i - 1 \in 1 .. n /\ ~(i - 1 < k) /\ (i - 1) + 1 = i
        BY <1>1, <2>2
      <3> QED  BY <1>1, <1>2, <2>2, <3>1
    <2> QED  BY <1>1, <2>1, <2>2
  <1> QED  BY <1>1, <1>3, TotalInserted

LEMMA TotalOfNone == Total(<<>>) = 0
  <1> DEFINE g == [i \in 0 .. 0 |-> 0]
  <1>1. <<>> \in Seq(Nat) /\ Len(<<>>) = 0
    OBVIOUS
  <1>2. g \in [0 .. 0 -> Nat] /\ g[0] = 0 /\ \A i \in 1 .. 0 : g[i] = g[i - 1] + <<>>[i]
    OBVIOUS
  <1> HIDE DEF g
  <1>3. Summing(g, <<>>)
    BY <1>1, <1>2 DEF Summing
  <1>4. Total(<<>>) = g[Len(<<>>)]
    BY <1>1, <1>3, TotalBy
  <1> QED  BY <1>1, <1>2, <1>4


(***************************************************************************)
(* The pbufs of a datagram, and of all.                                    *)
(***************************************************************************)
Data == [d : Datagrams, timer : 0 .. ReassMaxAge, last : BOOLEAN, p : Seq(Pieces)]

\* Every piece has something in it.
LEMMA PiecesAre ==
  ASSUME NEW f \in Pieces
  PROVE  f.start \in Nat /\ f.end \in Nat /\ f.start < f.end /\ f.end <= Length /\ Clen(f) \in Nat
  <1>1. Length \in Nat /\ Rooms \subseteq Nat \ {0}
    BY ReassAssumption
  <1>2. PICK room \in Rooms : f \in ip_frag(room)
    BY DEF Pieces
  <1>3. PICK k \in 0 .. Length : k * room < Length /\ f = [start |-> k * room, end |-> Min({(k + 1) * room, Length})]
    BY <1>2 DEF ip_frag
  <1>4. k \in Nat /\ room \in Nat /\ room > 0
    BY <1>1
  <1>5. k * room \in Nat /\ (k + 1) * room \in Nat /\ k * room < (k + 1) * room
    <2>1. (k + 1) * room = k * room + room
      BY <1>4
    <2>2. k * room \in Nat
      BY <1>4
    <2> DEFINE a == k * room
               b == (k + 1) * room
    <2>3. a \in Nat /\ b = a + room
      BY <2>1, <2>2
    <2> HIDE DEF a, b
    <2>4. a \in Nat /\ b \in Nat /\ a < b
      BY <1>4, <2>3
    <2> QED  BY <2>4 DEF a, b
  <1>6. Min({(k + 1) * room, Length}) = IF (k + 1) * room <= Length THEN (k + 1) * room ELSE Length
    BY <1>1, <1>5, MinOfTwo
  <1>7. f.start = k * room /\ f.end = IF (k + 1) * room <= Length THEN (k + 1) * room ELSE Length
    BY <1>3, <1>6
  <1> DEFINE a == k * room
             b == (k + 1) * room
  <1>8. a \in Nat /\ b \in Nat /\ a < b /\ a < Length /\ f.start = a /\ f.end = IF b <= Length THEN b ELSE Length
    BY <1>3, <1>5, <1>7
  <1> HIDE DEF a, b
  <1> QED  BY <1>1, <1>8 DEF Clen

Lengths(r) == [k \in DOMAIN r.p |-> Clen(r.p[k])]
PbufsOn(list) == [k \in DOMAIN list |-> Pbufs(list[k])]

LEMMA PbufsIs ==
  ASSUME NEW r \in Data
  PROVE  /\ Lengths(r) \in Seq(Nat) /\ Len(Lengths(r)) = Len(r.p)
         /\ \A k \in 1 .. Len(r.p) : Lengths(r)[k] = Clen(r.p[k])
         /\ Pbufs(r) = Total(Lengths(r)) /\ Pbufs(r) \in Nat
  <1>1. r.p \in Seq(Pieces) /\ DOMAIN r.p = 1 .. Len(r.p) /\ Len(r.p) \in Nat
    BY DEF Data
  <1>2. \A k \in 1 .. Len(r.p) : r.p[k] \in Pieces
    BY <1>1
  <1>3. \A k \in 1 .. Len(r.p) : Clen(r.p[k]) \in Nat
    BY <1>2, PiecesAre
  <1>4. Lengths(r) = [k \in 1 .. Len(r.p) |-> Clen(r.p[k])]
    BY <1>1 DEF Lengths
  <1>5. /\ Lengths(r) \in Seq(Nat) /\ Len(Lengths(r)) = Len(r.p)
        /\ \A k \in 1 .. Len(r.p) : Lengths(r)[k] = Clen(r.p[k])
    BY <1>1, <1>3, <1>4
  <1>6. Pbufs(r) = Total(Lengths(r))
    BY DEF Pbufs, Lengths
  <1>7. Total(Lengths(r)) \in Nat
    BY <1>5, TotalIs, TotalBy
  <1> QED  BY <1>5, <1>6, <1>7

LEMMA HeldIs ==
  ASSUME NEW list \in Seq(Data)
  PROVE  /\ PbufsOn(list) \in Seq(Nat) /\ Len(PbufsOn(list)) = Len(list)
         /\ \A k \in 1 .. Len(list) : PbufsOn(list)[k] = Pbufs(list[k]) /\ Pbufs(list[k]) \in Nat
         /\ Held(list) = Total(PbufsOn(list)) /\ Held(list) \in Nat
  <1>1. DOMAIN list = 1 .. Len(list) /\ Len(list) \in Nat
    OBVIOUS
  <1>2. \A k \in 1 .. Len(list) : list[k] \in Data
    OBVIOUS
  <1>3. \A k \in 1 .. Len(list) : Pbufs(list[k]) \in Nat
    BY <1>2, PbufsIs
  <1>4. PbufsOn(list) = [k \in 1 .. Len(list) |-> Pbufs(list[k])]
    BY <1>1 DEF PbufsOn
  <1>5. /\ PbufsOn(list) \in Seq(Nat) /\ Len(PbufsOn(list)) = Len(list)
        /\ \A k \in 1 .. Len(list) : PbufsOn(list)[k] = Pbufs(list[k])
    BY <1>1, <1>3, <1>4
  <1>6. Held(list) = Total(PbufsOn(list))
    BY DEF Held, PbufsOn
  <1>7. Total(PbufsOn(list)) \in Nat
    BY <1>5, TotalIs, TotalBy
  <1> QED  BY <1>3, <1>5, <1>6, <1>7

\* A list with one element more at place k.
LEMMA InsertedAt ==
  ASSUME NEW S, NEW s \in Seq(S), NEW k \in 1 .. Len(s) + 1, NEW x \in S
  PROVE  /\ InsertAt(s, k, x) \in Seq(S) /\ Len(InsertAt(s, k, x)) = Len(s) + 1
         /\ \A i \in 1 .. Len(s) + 1 :
               InsertAt(s, k, x)[i] = IF i < k THEN s[i] ELSE IF i = k THEN x ELSE s[i - 1]
  <1> DEFINE a == SubSeq(s, 1, k - 1)
             b == SubSeq(s, k, Len(s))
             c == a \o <<x>>
             t == c \o b
             n == Len(s)
  <1>1. n \in Nat /\ k \in 1 .. n + 1 /\ k - 1 \in Nat /\ k - 1 <= n
    OBVIOUS
  <1>2. a \in Seq(S) /\ Len(a) = k - 1 /\ \A i \in 1 .. k - 1 : a[i] = s[i]
    BY <1>1
  <1>3. b \in Seq(S) /\ Len(b) = n - k + 1 /\ \A i \in 1 .. n - k + 1 : b[i] = s[k - 1 + i]
    BY <1>1
  <1> HIDE DEF a, b, n
  <1>4. c \in Seq(S) /\ Len(c) = k /\ (\A i \in 1 .. k - 1 : c[i] = s[i]) /\ c[k] = x
    <2> DEFINE y == <<x>>
    <2>1. y \in Seq(S) /\ Len(y) = 1 /\ y[1] = x
      OBVIOUS
    <2> HIDE DEF y
    <2>2. /\ a \o y \in Seq(S) /\ Len(a \o y) = Len(a) + Len(y)
          /\ \A i \in 1 .. Len(a) + Len(y) : (a \o y)[i] = IF i <= Len(a) THEN a[i] ELSE y[i - Len(a)]
      BY <1>2, <2>1, Concatenation
    <2>8. c = a \o y
      BY DEF y
    <2> HIDE DEF c
    <2>9. Len(a) + Len(y) = k /\ Len(a) = k - 1
      BY <1>1, <1>2, <2>1
    <2>3. c \in Seq(S) /\ Len(c) = k /\ \A i \in 1 .. k : c[i] = IF i <= k - 1 THEN a[i] ELSE y[i - (k - 1)]
      BY <2>2, <2>8, <2>9
    <2>4. k \in 1 .. k /\ ~(k <= k - 1) /\ k - (k - 1) = 1
      BY <1>1
    <2>5. c[k] = x
      BY <2>1, <2>3, <2>4
    <2>6. \A i \in 1 .. k - 1 : i \in 1 .. k /\ i <= k - 1
      BY <1>1
    <2>7. \A i \in 1 .. k - 1 : c[i] = s[i]
      BY <1>2, <2>3, <2>6
    <2> QED  BY <2>3, <2>5, <2>7
  <1> HIDE DEF c
  <1>5. /\ t \in Seq(S) /\ Len(t) = Len(c) + Len(b)
        /\ \A i \in 1 .. Len(c) + Len(b) : t[i] = IF i <= Len(c) THEN c[i] ELSE b[i - Len(c)]
    BY <1>3, <1>4, Concatenation, ZenonT(40)
  <1> HIDE DEF t
  <1>6. Len(t) = n + 1 /\ \A i \in 1 .. n + 1 : t[i] = IF i <= k THEN c[i] ELSE b[i - k]
    BY <1>1, <1>3, <1>4, <1>5
  <1>7. ASSUME NEW i \in 1 .. n + 1 PROVE t[i] = IF i < k THEN s[i] ELSE IF i = k THEN x ELSE s[i - 1]
    <2>1. CASE i < k
      <3>1. i \in 1 .. k - 1 /\ i <= k
        BY <1>1, <2>1
      <3> QED  BY <1>4, <1>6, <2>1, <3>1
    <2>2. CASE i = k
      BY <1>1, <1>4, <1>6, <2>2
    <2>3. CASE i > k
      <3>1. i - k \in 1 .. n - k + 1 /\ k - 1 + (i - k) = i - 1 /\ ~(i <= k) /\ i # k /\ ~(i < k)
        BY <1>1, <2>3
      <3> QED  BY <1>3, <1>6, <3>1
    <2> QED  BY <1>1, <2>1, <2>2, <2>3
  <1>8. InsertAt(s, k, x) = t
    BY DEF InsertAt, t, c, a, b, n
  <1> QED  BY <1>5, <1>6, <1>7, <1>8 DEF n

\* A datagram with a piece more.
LEMMA PbufsInserted ==
  ASSUME NEW r \in Data, NEW e \in Data, NEW f \in Pieces, NEW k \in 1 .. Len(r.p) + 1,
         e.p = InsertAt(r.p, k, f)
  PROVE  Pbufs(e) = Pbufs(r) + Clen(f)
  <1>1. r.p \in Seq(Pieces)
    BY DEF Data
  <1>2. /\ Len(e.p) = Len(r.p) + 1
        /\ \A i \in 1 .. Len(r.p) + 1 : e.p[i] = IF i < k THEN r.p[i] ELSE IF i = k THEN f ELSE r.p[i - 1]
    <2> DEFINE q == r.p
    <2>1. q \in Seq(Pieces) /\ k \in 1 .. Len(q) + 1 /\ e.p = InsertAt(q, k, f)
      BY <1>1
    <2> HIDE DEF q
    <2>2. /\ Len(InsertAt(q, k, f)) = Len(q) + 1
          /\ \A i \in 1 .. Len(q) + 1 :
                InsertAt(q, k, f)[i] = IF i < k THEN q[i] ELSE IF i = k THEN f ELSE q[i - 1]
      BY <2>1, InsertedAt
    <2>3. Len(e.p) = Len(q) + 1 /\ \A i \in 1 .. Len(q) + 1 : e.p[i] = IF i < k THEN q[i] ELSE IF i = k THEN f ELSE q[i - 1]
      BY <2>1, <2>2
    <2> QED  BY <2>3 DEF q
  <1> DEFINE n == Len(r.p)
             s == Lengths(r)
             t == Lengths(e)
  <1>3. n \in Nat /\ k \in 1 .. n + 1
    BY <1>1
  <1>4. s \in Seq(Nat) /\ Len(s) = n /\ (\A i \in 1 .. n : s[i] = Clen(r.p[i])) /\ Pbufs(r) = Total(s)
    BY PbufsIs
  <1>5. t \in Seq(Nat) /\ Len(t) = n + 1 /\ (\A i \in 1 .. n + 1 : t[i] = Clen(e.p[i])) /\ Pbufs(e) = Total(t)
    BY <1>2, PbufsIs
  <1>6. \A i \in 1 .. n + 1 : e.p[i] = IF i < k THEN r.p[i] ELSE IF i = k THEN f ELSE r.p[i - 1]
    BY <1>2
  <1> HIDE DEF n, s, t
  <1>7. ASSUME NEW i \in 1 .. n + 1 PROVE t[i] = IF i < k THEN s[i] ELSE IF i = k THEN Clen(f) ELSE s[i - 1]
    <2>1. CASE i < k
      <3>1. i \in 1 .. n
        BY <1>3, <2>1
      <3> QED  BY <1>4, <1>5, <1>6, <2>1, <3>1
    <2>2. CASE i = k
      <3>1. ~(i < k)
        BY <1>3, <2>2
      <3> QED  BY <1>5, <1>6, <2>2, <3>1
    <2>3. CASE i > k
      <3>1. i - 1 \in 1 .. n /\ ~(i < k) /\ i # k
        BY <1>3, <2>3
      <3> QED  BY <1>4, <1>5, <1>6, <3>1
    <2> QED  BY <1>3, <2>1, <2>2, <2>3
  <1>8. Clen(f) \in Nat
    BY PiecesAre
  <1>9. Total(t) = Total(s) + Clen(f)
    BY <1>3, <1>4, <1>5, <1>7, <1>8, TotalInserted
  <1> QED  BY <1>4, <1>5, <1>9

\* One datagram less.
LEMMA HeldRemoved ==
  ASSUME NEW list \in Seq(Data), NEW k \in DOMAIN list
  PROVE  /\ RemoveAt(list, k) \in Seq(Data)
         /\ Held(list) = Held(RemoveAt(list, k)) + Pbufs(list[k])
         /\ Held(RemoveAt(list, k)) \in Nat /\ Pbufs(list[k]) \in Nat
  <1> DEFINE m == RemoveAt(list, k)
             n == Len(list)
             s == PbufsOn(list)
             t == PbufsOn(m)
  <1>1. n \in Nat /\ k \in 1 .. n
    OBVIOUS
  <1>2. /\ m \in Seq(Data) /\ Len(m) = n - 1
        /\ \A i \in 1 .. n - 1 : m[i] = IF i < k THEN list[i] ELSE list[i + 1]
    BY CutAt DEF RemoveAt
  <1> HIDE DEF m, n
  <1>3. /\ s \in Seq(Nat) /\ Len(s) = n /\ Held(list) = Total(s)
        /\ \A i \in 1 .. n : s[i] = Pbufs(list[i]) /\ Pbufs(list[i]) \in Nat
    BY HeldIs DEF n
  <1>4. t \in Seq(Nat) /\ Len(t) = n - 1 /\ Held(m) = Total(t) /\ \A i \in 1 .. n - 1 : t[i] = Pbufs(m[i])
    BY <1>2, HeldIs
  <1> HIDE DEF s, t
  <1>5. ASSUME NEW i \in 1 .. n - 1 PROVE t[i] = IF i < k THEN s[i] ELSE s[i + 1]
    <2>1. i \in 1 .. n /\ i + 1 \in 1 .. n
      BY <1>1
    <2> QED  BY <1>2, <1>3, <1>4, <2>1
  <1>6. Total(s) = Total(t) + s[k] /\ Total(t) \in Nat
    BY <1>1, <1>3, <1>4, <1>5, TotalRemoved
  <1> QED  BY <1>1, <1>2, <1>3, <1>4, <1>6 DEF m

\* Another datagram in the place of one.
LEMMA HeldReplaced ==
  ASSUME NEW list \in Seq(Data), NEW k \in DOMAIN list, NEW e \in Data
  PROVE  /\ [list EXCEPT ![k] = e] \in Seq(Data)
         /\ Held([list EXCEPT ![k] = e]) = Held(list) - Pbufs(list[k]) + Pbufs(e)
  <1> DEFINE g == [list EXCEPT ![k] = e]
             a == RemoveAt(list, k)
             b == RemoveAt(g, k)
             n == Len(list)
  <1>1. n \in Nat /\ k \in 1 .. n
    OBVIOUS
  <1>2. g \in Seq(Data) /\ Len(g) = n /\ k \in DOMAIN g /\ g[k] = e /\ \A i \in 1 .. n : i # k => g[i] = list[i]
    OBVIOUS
  <1>3. a \in Seq(Data) /\ Len(a) = n - 1 /\ \A i \in 1 .. n - 1 : a[i] = IF i < k THEN list[i] ELSE list[i + 1]
    BY CutAt DEF RemoveAt
  <1> HIDE DEF g, n
  <1>4. b \in Seq(Data) /\ Len(b) = n - 1 /\ \A i \in 1 .. n - 1 : b[i] = IF i < k THEN g[i] ELSE g[i + 1]
    BY <1>2, CutAt DEF RemoveAt
  <1>5. Held(list) = Held(a) + Pbufs(list[k]) /\ Held(a) \in Nat /\ Pbufs(list[k]) \in Nat
    BY HeldRemoved
  <1>6. Held(g) = Held(b) + Pbufs(e) /\ Pbufs(e) \in Nat
    <2>1. Held(g) = Held(b) + Pbufs(g[k]) /\ Pbufs(g[k]) \in Nat
      BY <1>2, HeldRemoved
    <2> QED  BY <1>2, <2>1
  <1> HIDE DEF a, b
  <1>7. a = b
    <2>1. ASSUME NEW i \in 1 .. n - 1 PROVE a[i] = b[i]
      <3>1. i \in 1 .. n /\ i + 1 \in 1 .. n /\ (i < k => i # k) /\ (~(i < k) => i + 1 # k)
        BY <1>1
      <3> QED  BY <1>2, <1>3, <1>4, <3>1
    <2>2. Len(a) = Len(b) /\ \A i \in 1 .. Len(a) : a[i] = b[i]
      BY <1>3, <1>4, <2>1
    <2> QED  BY <1>3, <1>4, <2>2, SameSequence
  <1> DEFINE x == Held(list)
             y == Held(a)
             z == Pbufs(list[k])
             v == Held(g)
             w == Pbufs(e)
  <1>8. x = y + z /\ v = y + w /\ y \in Nat /\ z \in Nat /\ w \in Nat
    BY <1>5, <1>6, <1>7
  <1> HIDE DEF x, y, z, v, w
  <1>9. v = x - z + w
    BY <1>8
  <1> QED  BY <1>2, <1>9 DEF g, x, z, v, w

\* One datagram more, in front or at the end.
LEMMA HeldAdded ==
  ASSUME NEW list \in Seq(Data), NEW e \in Data
  PROVE  /\ <<e>> \o list \in Seq(Data) /\ Append(list, e) \in Seq(Data)
         /\ Held(<<e>> \o list) = Held(list) + Pbufs(e)
         /\ Held(Append(list, e)) = Held(list) + Pbufs(e)
  <1> DEFINE n == Len(list)
             a == <<e>> \o list
             b == Append(list, e)
  <1>1. n \in Nat
    OBVIOUS
  <1>2. a \in Seq(Data) /\ Len(a) = n + 1 /\ 1 \in DOMAIN a /\ a[1] = e /\ \A i \in 1 .. n : a[i + 1] = list[i]
    OBVIOUS
  <1>3. b \in Seq(Data) /\ Len(b) = n + 1 /\ n + 1 \in DOMAIN b /\ b[n + 1] = e /\ \A i \in 1 .. n : b[i] = list[i]
    OBVIOUS
  <1>4. list \in Seq(Data) /\ Len(list) = n
    OBVIOUS
  <1> HIDE DEF a, b, n
  <1>5. /\ RemoveAt(a, 1) \in Seq(Data) /\ Len(RemoveAt(a, 1)) = n
        /\ \A i \in 1 .. n : RemoveAt(a, 1)[i] = IF i < 1 THEN a[i] ELSE a[i + 1]
    <2>1. /\ RemoveAt(a, 1) \in Seq(Data) /\ Len(RemoveAt(a, 1)) = Len(a) - 1
          /\ \A i \in 1 .. Len(a) - 1 : RemoveAt(a, 1)[i] = IF i < 1 THEN a[i] ELSE a[i + 1]
      BY <1>2, CutAt DEF RemoveAt
    <2>2. Len(a) - 1 = n
      BY <1>1, <1>2
    <2> QED  BY <2>1, <2>2
  <1>6. RemoveAt(a, 1) = list
    <2>1. \A i \in 1 .. n : RemoveAt(a, 1)[i] = list[i]
      <3>1. \A i \in 1 .. n : ~(i < 1)
        BY <1>1
      <3> QED  BY <1>2, <1>5, <3>1
    <2> QED  BY <1>4, <1>5, <2>1, SameSequence
  <1>7. /\ RemoveAt(b, n + 1) \in Seq(Data) /\ Len(RemoveAt(b, n + 1)) = n
        /\ \A i \in 1 .. n : RemoveAt(b, n + 1)[i] = IF i < n + 1 THEN b[i] ELSE b[i + 1]
    <2>1. /\ RemoveAt(b, n + 1) \in Seq(Data) /\ Len(RemoveAt(b, n + 1)) = Len(b) - 1
          /\ \A i \in 1 .. Len(b) - 1 : RemoveAt(b, n + 1)[i] = IF i < n + 1 THEN b[i] ELSE b[i + 1]
      BY <1>3, CutAt DEF RemoveAt
    <2>2. Len(b) - 1 = n
      BY <1>1, <1>3
    <2> QED  BY <2>1, <2>2
  <1>8. RemoveAt(b, n + 1) = list
    <2>1. \A i \in 1 .. n : RemoveAt(b, n + 1)[i] = list[i]
      <3>1. \A i \in 1 .. n : i < n + 1
        BY <1>1
      <3> QED  BY <1>3, <1>7, <3>1
    <2> QED  BY <1>4, <1>7, <2>1, SameSequence
  <1>9. Held(a) = Held(list) + Pbufs(e)
    <2>1. Held(a) = Held(RemoveAt(a, 1)) + Pbufs(a[1])
      BY <1>2, HeldRemoved
    <2> QED  BY <1>2, <1>6, <2>1
  <1>10. Held(b) = Held(list) + Pbufs(e)
    <2>1. Held(b) = Held(RemoveAt(b, n + 1)) + Pbufs(b[n + 1])
      BY <1>3, HeldRemoved
    <2> QED  BY <1>3, <1>8, <2>1
  <1> QED  BY <1>2, <1>3, <1>9, <1>10 DEF a, b


(***************************************************************************)
(* What ip_reass works on: the count is right, and not beyond b.           *)
(***************************************************************************)
Work == [list : Seq(Data), count : Nat, freed : Nat, more : BOOLEAN, hung : BOOLEAN]
Counted(b) == {t \in Work : t.count = Held(t.list) /\ t.count <= b}

LEMMA CountedIs ==
  ASSUME NEW b \in Nat, NEW list \in Seq(Data), NEW count \in Nat, NEW freed \in Nat,
         NEW more \in BOOLEAN, NEW h \in BOOLEAN, count = Held(list), count <= b
  PROVE  [list |-> list, count |-> count, freed |-> freed, more |-> more, hung |-> h] \in Counted(b)
  BY DEF Counted, Work

LEMMA CountedHas ==
  ASSUME NEW b \in Nat, NEW t \in Counted(b)
  PROVE  /\ t.list \in Seq(Data) /\ t.count \in Nat /\ t.freed \in Nat
         /\ t.more \in BOOLEAN /\ t.hung \in BOOLEAN /\ t.count = Held(t.list) /\ t.count <= b
  BY DEF Counted, Work

\* Fields that do not count are set.
LEMMA MoreIs ==
  ASSUME NEW b \in Nat, NEW t \in Counted(b), NEW m \in BOOLEAN
  PROVE  [t EXCEPT !.more = m] \in Counted(b)
  <1> DEFINE u == [t EXCEPT !.more = m]
  <1>1. t \in Work /\ t.count = Held(t.list) /\ t.count <= b
    BY DEF Counted
  <1>2. u = [t EXCEPT !.more = m]
    OBVIOUS
  <1> HIDE DEF u
  <1>3. u \in Work
    BY <1>1, <1>2 DEF Work
  <1>4. u.list = t.list
    BY <1>1, <1>2 DEF Work
  <1>5. u.count = t.count
    BY <1>1, <1>2 DEF Work
  <1>6. u \in Counted(b)
    BY <1>1, <1>3, <1>4, <1>5 DEF Counted
  <1> QED  BY <1>2, <1>6

LEMMA HungIs ==
  ASSUME NEW b \in Nat, NEW t \in Counted(b), NEW h \in BOOLEAN
  PROVE  [t EXCEPT !.hung = h] \in Counted(b)
  <1> DEFINE u == [t EXCEPT !.hung = h]
  <1>1. t \in Work /\ t.count = Held(t.list) /\ t.count <= b
    BY DEF Counted
  <1>2. u = [t EXCEPT !.hung = h]
    OBVIOUS
  <1> HIDE DEF u
  <1>3. u \in Work
    BY <1>1, <1>2 DEF Work
  <1>4. u.list = t.list
    BY <1>1, <1>2 DEF Work
  <1>5. u.count = t.count
    BY <1>1, <1>2 DEF Work
  <1>6. u \in Counted(b)
    BY <1>1, <1>3, <1>4, <1>5 DEF Counted
  <1> QED  BY <1>2, <1>6

LEMMA StartedIs ==
  ASSUME NEW b \in Nat, NEW t \in Counted(b)
  PROVE  [t EXCEPT !.freed = 0, !.more = TRUE] \in Counted(b)
  <1> DEFINE u == [t EXCEPT !.freed = 0, !.more = TRUE]
  <1>1. t \in Work /\ t.count = Held(t.list) /\ t.count <= b
    BY DEF Counted
  <1>2. u = [t EXCEPT !.freed = 0, !.more = TRUE]
    OBVIOUS
  <1> HIDE DEF u
  <1>3. u \in Work
    BY <1>1, <1>2 DEF Work
  <1>4. u.list = t.list
    BY <1>1, <1>2 DEF Work
  <1>5. u.count = t.count
    BY <1>1, <1>2 DEF Work
  <1>6. u \in Counted(b)
    BY <1>1, <1>3, <1>4, <1>5 DEF Counted
  <1> QED  BY <1>2, <1>6

\* ip_reass_free_complete_datagram takes off what it frees.
LEMMA FreedIs ==
  ASSUME NEW b \in Nat, NEW t \in Counted(b), NEW k \in DOMAIN t.list
  PROVE  FreeDatagram(t, k) \in Counted(b)
  <1> DEFINE l == t.list
             m == RemoveAt(l, k)
             x == Pbufs(l[k])
             u == FreeDatagram(t, k)
             y == t.count - x
             z == t.freed + x
  <1>1. t \in Work /\ l \in Seq(Data) /\ t.count \in Nat /\ t.freed \in Nat /\ t.count = Held(l) /\ t.count <= b
    BY CountedHas DEF Counted
  <1>2. u = [t EXCEPT !.list = m, !.count = y, !.freed = z]
    BY DEF FreeDatagram
  <1>3. m \in Seq(Data) /\ Held(l) = Held(m) + x /\ Held(m) \in Nat /\ x \in Nat
    <2>1. k \in DOMAIN l
      OBVIOUS
    <2> HIDE DEF l
    <2> QED  BY <1>1, <2>1, HeldRemoved
  <1>4. y \in Nat /\ z \in Nat /\ y = Held(m) /\ y <= b
    <2> HIDE DEF l, m, x
    <2> DEFINE h == Held(m)
               c == t.count
    <2>1. c = h + x /\ h \in Nat /\ x \in Nat /\ c <= b /\ c \in Nat
      BY <1>1, <1>3
    <2> HIDE DEF h, c
    <2>2. c - x = h /\ c - x <= b
      BY <2>1
    <2> QED  BY <1>1, <1>3, <2>1, <2>2 DEF h, c
  <1> HIDE DEF l, m, x, y, z, u
  <1>5. u \in Work
    BY <1>1, <1>2, <1>3, <1>4 DEF Work
  <1>6. u.list = m
    BY <1>1, <1>2 DEF Work
  <1>7. u.count = y
    BY <1>1, <1>2 DEF Work
  <1>8. u \in Counted(b)
    BY <1>4, <1>5, <1>6, <1>7 DEF Counted
  <1> QED  BY <1>8 DEF u

\* One turn of ip_reass_remove_oldest_datagram.
LEMMA RemovedOne ==
  ASSUME NEW b \in Nat, NEW t \in Counted(b), NEW d, NEW needed
  PROVE  RemoveOne(t, d, needed) \in Counted(b)
  <1> DEFINE k == OldestOther(t, d)
             none == Others(t, d) = {}
             more == Pbufs(t.list[k]) + t.freed < needed /\ Cardinality(Others(t, d)) > 1
             r == RemoveOne(t, d, needed)
             u == FreeDatagram(t, k)
  <1>1. r = IF ~t.more \/ t.hung THEN t
            ELSE IF none THEN [t EXCEPT !.more = FALSE]
            ELSE IF k # Len(t.list) THEN [t EXCEPT !.hung = TRUE]
            ELSE [u EXCEPT !.more = more]
    BY DEF RemoveOne
  <1>2. [t EXCEPT !.more = FALSE] \in Counted(b)
    BY MoreIs
  <1>3. [t EXCEPT !.hung = TRUE] \in Counted(b)
    BY HungIs
  <1>4. ASSUME ~none, k = Len(t.list) PROVE [u EXCEPT !.more = more] \in Counted(b)
    <2>1. k \in DOMAIN t.list
      <3>1. Others(t, d) \subseteq DOMAIN t.list
        BY DEF Others
      <3>2. t.list # <<>>
        BY <1>4, <3>1
      <3>3. t.list \in Seq(Data)
        BY CountedHas
      <3> HIDE DEF k
      <3> QED  BY <1>4, <3>2, <3>3
    <2>2. more \in BOOLEAN
      OBVIOUS
    <2> HIDE DEF k, more
    <2>3. u \in Counted(b)
      BY <2>1, FreedIs
    <2> HIDE DEF u
    <2> QED  BY <2>2, <2>3, MoreIs
  <1> HIDE DEF k, none, more, r, u
  <1>5. r \in Counted(b)
    <2>1. CASE ~t.more \/ t.hung
      BY <1>1, <2>1
    <2>2. CASE ~(~t.more \/ t.hung) /\ none
      BY <1>1, <1>2, <2>2
    <2>3. CASE ~(~t.more \/ t.hung) /\ ~none /\ k # Len(t.list)
      BY <1>1, <1>3, <2>3
    <2>4. CASE ~(~t.more \/ t.hung) /\ ~none /\ k = Len(t.list)
      BY <1>1, <1>4, <2>4
    <2> QED  BY <2>1, <2>2, <2>3, <2>4
  <1> QED  BY <1>5 DEF r

\* All turns.
LEMMA RemovedAll ==
  ASSUME NEW b \in Nat, NEW t \in Counted(b), NEW d, NEW needed
  PROVE  ip_reass_remove_oldest_datagram(t, d, needed) \in Counted(b)
  <1> DEFINE n == Len(t.list)
             S == Counted(b)
             c == [t EXCEPT !.freed = 0, !.more = TRUE]
             Turn(x) == RemoveOne(x, d, needed)
             Wanted(g) == g = [i \in 0 .. n |-> IF i = 0 THEN c ELSE Turn(g[i - 1])]
             step == [i \in 1 .. n |-> [x \in S |-> Turn(x)]]
             h == CHOOSE g : Wanted(g)
  <1>1. n \in Nat
    BY CountedHas
  <1>2. ip_reass_remove_oldest_datagram(t, d, needed) = h[n]
    BY DEF ip_reass_remove_oldest_datagram
  <1>a. c \in S
    BY StartedIs
  <1>b. \A x \in S : Turn(x) \in S
    BY RemovedOne
  <1> HIDE DEF n, S, c, Turn
  <1>3. StepsOn(step, S, n)
    BY <1>b DEF StepsOn
  <1>4. PICK f : Makes(f, S, c, n, step)
    <2> HIDE DEF step
    <2> QED  BY <1>1, <1>3, <1>a, Recursion
  <1>5. f \in [0 .. n -> S] /\ f[0] = c /\ \A i \in 1 .. n : f[i] = Turn(f[i - 1])
    <2>1. f \in [0 .. n -> S] /\ f[0] = c /\ \A i \in 1 .. n : f[i] = step[i][f[i - 1]]
      <3> HIDE DEF step
      <3> QED  BY <1>4 DEF Makes
    <2>2. \A i \in 1 .. n : i - 1 \in 0 .. n
      BY <1>1
    <2> QED  BY <2>1, <2>2
  <1> HIDE DEF step
  <1>6. Wanted(f)
    <2>1. \A i \in 0 .. n : f[i] = IF i = 0 THEN c ELSE Turn(f[i - 1])
      <3>1. \A i \in 0 .. n : i = 0 \/ i \in 1 .. n
        BY <1>1
      <3> QED  BY <1>5, <3>1
    <2>2. f = [i \in 0 .. n |-> f[i]]
      BY <1>5
    <2> QED  BY <2>1, <2>2
  <1>7. Wanted(h)
    <2> HIDE DEF Wanted
    <2> QED  BY <1>6
  <1> HIDE DEF h
  <1>8. \A i \in 0 .. n : h[i] = IF i = 0 THEN c ELSE Turn(h[i - 1])
    BY <1>7
  <1> HIDE DEF Wanted
  <1>9. h[n] \in S
    <2> DEFINE T == {i \in Nat : i <= n => h[i] \in S}
    <2>1. 0 \in T
      BY <1>1, <1>8, <1>a
    <2>2. ASSUME NEW k \in Nat, k \in T PROVE k + 1 \in T
      <3> SUFFICES ASSUME k + 1 <= n PROVE h[k + 1] \in S
        OBVIOUS
      <3>1. k + 1 \in 0 .. n /\ k + 1 # 0 /\ (k + 1) - 1 = k /\ k <= n
        BY <1>1
      <3>2. h[k] \in S
        BY <2>2, <3>1
      <3>3. h[k + 1] = Turn(h[k])
        BY <1>8, <3>1
      <3> QED  BY <1>b, <3>2, <3>3
    <2> HIDE DEF T
    <2>3. Nat \subseteq T
      BY <2>1, <2>2, Induct
    <2>4. n \in T
      BY <1>1, <2>3
    <2> QED  BY <1>1, <2>4 DEF T
  <1> QED  BY <1>2, <1>9 DEF S

LEMMA MadeRoomIs ==
  ASSUME NEW b \in Nat, NEW t \in Counted(b), NEW d, NEW f
  PROVE  MadeRoom(t, d, f) \in Counted(b)
  BY RemovedAll DEF MadeRoom

\* An entry for a datagram holds nothing yet.
LEMMA NewIs ==
  ASSUME NEW b \in Nat, NEW t \in Counted(b), NEW d \in Datagrams
  PROVE  NewDatagram(t, d) \in Counted(b)
  <1> DEFINE e == [d |-> d, timer |-> ReassMaxAge, last |-> FALSE, p |-> <<>>]
             l == <<e>> \o t.list
             u == NewDatagram(t, d)
  <1>1. t \in Work /\ t.list \in Seq(Data) /\ t.count \in Nat /\ t.count = Held(t.list) /\ t.count <= b
    BY CountedHas DEF Counted
  <1>2. u = [t EXCEPT !.list = l]
    BY DEF NewDatagram
  <1>3. e \in Data /\ e.p = <<>>
    <2>1. ReassMaxAge \in 0 .. ReassMaxAge
      BY ReassAssumption
    <2>2. <<>> \in Seq(Pieces)
      OBVIOUS
    <2> QED  BY <2>1, <2>2 DEF Data
  <1> HIDE DEF e
  <1>4. Pbufs(e) = 0
    <2>1. Lengths(e) = <<>>
      BY <1>3 DEF Lengths
    <2> QED  BY <1>3, <2>1, PbufsIs, TotalOfNone
  <1>5. l \in Seq(Data) /\ Held(l) = Held(t.list) + Pbufs(e)
    BY <1>1, <1>3, HeldAdded
  <1> HIDE DEF l, u
  <1>6. t.count = Held(l)
    BY <1>1, <1>4, <1>5
  <1>7. u \in Work
    BY <1>1, <1>2, <1>5 DEF Work
  <1>8. u.list = l
    BY <1>1, <1>2 DEF Work
  <1>9. u.count = t.count
    BY <1>1, <1>2 DEF Work
  <1>10. u \in Counted(b)
    BY <1>1, <1>6, <1>7, <1>8, <1>9 DEF Counted
  <1> QED  BY <1>10 DEF u

LEMMA EnqueuedIs ==
  ASSUME NEW b \in Nat, NEW t \in Counted(b), NEW d \in Datagrams, NEW f
  PROVE  ip_reass_enqueue_new_datagram(t, d, f) \in Counted(b)
  <1> DEFINE u == ip_reass_remove_oldest_datagram(t, d, Clen(f))
  <1>1. u \in Counted(b)
    BY RemovedAll
  <1>2. NewDatagram(t, d) \in Counted(b)
    BY NewIs
  <1>3. ip_reass_enqueue_new_datagram(t, d, f) \in {NewDatagram(t, d), NewDatagram(u, d), u}
    BY DEF ip_reass_enqueue_new_datagram
  <1> HIDE DEF u
  <1>4. NewDatagram(u, d) \in Counted(b)
    BY <1>1, NewIs
  <1> QED  BY <1>1, <1>2, <1>3, <1>4


\* The place where a piece belongs is one of the datagram's, or behind them.
LEMMA WhereIs ==
  ASSUME NEW p \in Seq(Pieces), NEW f
  PROVE  Where(p, f) \in 1 .. Len(p) + 1
  <1> DEFINE S == {Len(p) + 1} \cup {k \in DOMAIN p : f.start < p[k].start}
  <1>1. S \subseteq 1 .. Len(p) + 1 /\ S \subseteq Nat /\ S # {}
    OBVIOUS
  <1> HIDE DEF S
  <1>2. Min(S) \in S
    BY <1>1, MinOfNats
  <1> QED  BY <1>1, <1>2 DEF Where, S

LEMMA GotIs ==
  ASSUME NEW r \in Data, NEW f \in Pieces
  PROVE  /\ Got(r, f) \in Data
         /\ Thrown(r.p, f) => Pbufs(Got(r, f)) = Pbufs(r)
         /\ ~Thrown(r.p, f) => Pbufs(Got(r, f)) = Pbufs(r) + Clen(f)
  <1> DEFINE e == Got(r, f)
             k == Where(r.p, f)
             q == InsertAt(r.p, k, f)
             more == r.last \/ ~More(f)
  <1>1. r.p \in Seq(Pieces) /\ r.last \in BOOLEAN
    BY DEF Data
  <1>2. k \in 1 .. Len(r.p) + 1
    BY <1>1, WhereIs
  <1>3. more \in BOOLEAN
    BY <1>1 DEF More
  <1>4. e = IF Thrown(r.p, f) THEN [r EXCEPT !.last = more] ELSE [r EXCEPT !.last = more, !.p = q]
    BY DEF Got
  <1> HIDE DEF k
  <1>5. q \in Seq(Pieces)
    <2> DEFINE p == r.p
    <2>1. p \in Seq(Pieces) /\ k \in 1 .. Len(p) + 1
      BY <1>1, <1>2
    <2> HIDE DEF p
    <2>2. InsertAt(p, k, f) \in Seq(Pieces)
      BY <2>1, InsertedAt
    <2> QED  BY <2>2 DEF p
  <1>9. q = InsertAt(r.p, k, f)
    OBVIOUS
  <1> HIDE DEF more, q, e
  <1>6. CASE Thrown(r.p, f)
    <2>1. e = [r EXCEPT !.last = more]
      BY <1>4, <1>6
    <2>2. e \in Data
      BY <1>3, <2>1 DEF Data
    <2>3. e.p = r.p
      BY <2>1 DEF Data
    <2>4. Pbufs(e) = Pbufs(r)
      BY <2>3 DEF Pbufs
    <2> QED  BY <1>6, <2>2, <2>4 DEF e
  <1>7. CASE ~Thrown(r.p, f)
    <2>1. e = [r EXCEPT !.last = more, !.p = q]
      BY <1>4, <1>7
    <2>2. e \in Data
      BY <1>3, <1>5, <2>1 DEF Data
    <2>3. e.p = q
      BY <2>1 DEF Data
    <2>4. Pbufs(e) = Pbufs(r) + Clen(f)
      BY <1>2, <1>9, <2>2, <2>3, PbufsInserted
    <2> QED  BY <1>7, <2>2, <2>4 DEF e
  <1> QED  BY <1>6, <1>7

\* The piece is counted when it is kept, and only then.
LEMMA ChainedIs ==
  ASSUME NEW b \in Nat, NEW t \in Counted(b), NEW k \in DOMAIN t.list, NEW f \in Pieces,
         NEW c \in Nat, t.count + Clen(f) <= c
  PROVE  Chained(t, k, f) \in Counted(c) /\ k \in DOMAIN Chained(t, k, f).list
  <1> DEFINE l == t.list
             r == l[k]
             e == Got(r, f)
             m == [l EXCEPT ![k] = e]
             n == IF Thrown(r.p, f) THEN t.count ELSE t.count + Clen(f)
             u == Chained(t, k, f)
  <1>1. t \in Work /\ l \in Seq(Data) /\ t.count \in Nat /\ t.count = Held(l)
    BY CountedHas DEF Counted
  <1>2. u = [t EXCEPT !.list = m, !.count = n]
    BY DEF Chained
  <1>3. r \in Data /\ k \in DOMAIN l
    BY <1>1
  <1>4. /\ e \in Data
        /\ Thrown(r.p, f) => Pbufs(e) = Pbufs(r)
        /\ ~Thrown(r.p, f) => Pbufs(e) = Pbufs(r) + Clen(f)
    BY <1>3, GotIs
  <1>5. Clen(f) \in Nat /\ Pbufs(r) \in Nat
    BY <1>3, PiecesAre, PbufsIs
  <1>6. m \in Seq(Data) /\ Held(m) = Held(l) - Pbufs(r) + Pbufs(e) /\ k \in DOMAIN m
    <2>1. k \in DOMAIN l /\ l \in Seq(Data) /\ r = l[k]
      BY <1>1, <1>3
    <2>2. k \in DOMAIN m
      BY <2>1
    <2> HIDE DEF l, e, r
    <2>3. [l EXCEPT ![k] = e] \in Seq(Data) /\ Held([l EXCEPT ![k] = e]) = Held(l) - Pbufs(l[k]) + Pbufs(e)
      BY <1>4, <2>1, HeldReplaced
    <2> QED  BY <2>1, <2>2, <2>3
  <1>7. n = Held(m) /\ n \in Nat /\ n <= c
    <2> DEFINE a == t.count
               x == Clen(f)
               y == Pbufs(r)
               z == Pbufs(e)
               h == Held(m)
               g == Held(l)
               thrown == Thrown(r.p, f)
    <2>1. /\ a = g /\ a \in Nat /\ x \in Nat /\ y \in Nat /\ a + x <= c /\ h = g - y + z
          /\ (thrown => z = y) /\ (~thrown => z = y + x) /\ n = IF thrown THEN a ELSE a + x
      BY <1>1, <1>4, <1>5, <1>6
    <2> HIDE DEF a, x, y, z, h, g, thrown, n
    <2>2. n = h /\ n \in Nat /\ n <= c
      BY <2>1
    <2> QED  BY <2>2 DEF h
  <1> HIDE DEF l, m, n, u, e, r
  <1>8. u \in Work
    BY <1>1, <1>2, <1>6, <1>7 DEF Work
  <1>9. u.list = m
    BY <1>1, <1>2 DEF Work
  <1>10. u.count = n
    BY <1>1, <1>2 DEF Work
  <1>11. u \in Counted(c)
    BY <1>7, <1>8, <1>9, <1>10 DEF Counted
  <1> QED  BY <1>6, <1>9, <1>11 DEF u

(***************************************************************************)
(* The timer.  What is left to do and what is done make up what there was. *)
(***************************************************************************)
Walking == [list : Seq(Data), count : Int]

LEMMA WalkedIs ==
  ASSUME NEW u \in Walking, NEW r \in Data
  PROVE  Walked(u, r) \in Walking
         /\ Walked(u, r).count - Held(Walked(u, r).list) = u.count - Held(u.list) - Pbufs(r)
         /\ Walked(u, r).count <= u.count
  <1> DEFINE v == Walked(u, r)
             e == [r EXCEPT !.timer = @ - 1]
             l == Append(u.list, e)
             x == u.count - Pbufs(r)
  <1>1. u.list \in Seq(Data) /\ u.count \in Int
    BY DEF Walking
  <1>2. Pbufs(r) \in Nat /\ Held(u.list) \in Nat
    BY <1>1, PbufsIs, HeldIs
  <1>3. v = IF r.timer > 0 THEN [u EXCEPT !.list = l] ELSE [u EXCEPT !.count = x]
    BY DEF Walked
  <1>4. CASE r.timer > 0
    <2>1. e \in Data
      <3>1. r.timer \in 0 .. ReassMaxAge /\ ReassMaxAge \in Nat
        BY ReassAssumption DEF Data
      <3> DEFINE n == r.timer - 1
      <3>2. n \in 0 .. ReassMaxAge
        BY <1>4, <3>1
      <3>3. e = [r EXCEPT !.timer = n]
        OBVIOUS
      <3> HIDE DEF n, e
      <3> QED  BY <3>2, <3>3 DEF Data
    <2>2. e.p = r.p
      <3>1. e = [r EXCEPT !.timer = r.timer - 1]
        OBVIOUS
      <3> HIDE DEF e
      <3> QED  BY <3>1 DEF Data
    <2>3. Pbufs(e) = Pbufs(r)
      BY <2>2 DEF Pbufs
    <2> HIDE DEF e
    <2>4. l \in Seq(Data) /\ Held(l) = Held(u.list) + Pbufs(r)
      BY <1>1, <2>1, <2>3, HeldAdded
    <2> HIDE DEF l, v
    <2>5. v = [u EXCEPT !.list = l]
      BY <1>3, <1>4
    <2>6. v \in Walking /\ v.list = l /\ v.count = u.count
      BY <2>4, <2>5 DEF Walking
    <2> DEFINE a == u.count
               h == Held(u.list)
               y == Pbufs(r)
    <2>7. a \in Int /\ h \in Nat /\ y \in Nat /\ v.count = a /\ Held(v.list) = h + y
      BY <1>1, <1>2, <2>4, <2>6
    <2> HIDE DEF a, h, y
    <2>8. v.count - Held(v.list) = a - h - y /\ v.count <= a
      BY <2>7
    <2> QED  BY <2>6, <2>8 DEF a, h, y, v
  <1>5. CASE ~(r.timer > 0)
    <2>1. x \in Int
      BY <1>1, <1>2
    <2> DEFINE a == u.count
               h == Held(u.list)
               y == Pbufs(r)
    <2>2. x = a - y
      OBVIOUS
    <2> HIDE DEF v, x
    <2>3. v = [u EXCEPT !.count = x]
      BY <1>3, <1>5
    <2>4. v \in Walking /\ v.list = u.list /\ v.count = x
      BY <2>1, <2>3 DEF Walking
    <2>5. a \in Int /\ h \in Nat /\ y \in Nat /\ v.count = a - y /\ Held(v.list) = h
      BY <1>1, <1>2, <2>2, <2>4
    <2> HIDE DEF a, h, y
    <2>6. v.count - Held(v.list) = a - h - y /\ v.count <= a
      BY <2>5
    <2> QED  BY <2>4, <2>6 DEF a, h, y, v
  <1> QED  BY <1>4, <1>5

LEMMA TimerKeeps ==
  ASSUME reassdatagrams \in Seq(Data), ip_reass_pbufcount \in Nat,
         ip_reass_pbufcount = Held(reassdatagrams), ip_reass_tmr
  PROVE  /\ reassdatagrams' \in Seq(Data) /\ ip_reass_pbufcount' \in Nat
         /\ ip_reass_pbufcount' = Held(reassdatagrams') /\ ip_reass_pbufcount' <= ip_reass_pbufcount
  <1> DEFINE l == reassdatagrams
             n == Len(l)
             c == [list |-> <<>>, count |-> ip_reass_pbufcount]
             Wanted(g) == g = [i \in 0 .. n |-> IF i = 0 THEN c ELSE Walked(g[i - 1], l[i])]
             step == [i \in 1 .. n |-> [x \in Walking |-> Walked(x, l[i])]]
             h == CHOOSE g : Wanted(g)
  <1>1. n \in Nat /\ \A i \in 1 .. n : l[i] \in Data
    OBVIOUS
  <1>2. reassdatagrams' = h[n].list /\ ip_reass_pbufcount' = h[n].count
    BY DEF ip_reass_tmr
  <1>a. c \in Walking /\ c.list = <<>> /\ c.count = ip_reass_pbufcount
    <2>1. <<>> \in Seq(Data) /\ ip_reass_pbufcount \in Int
      OBVIOUS
    <2> QED  BY <2>1 DEF Walking
  <1>b. PICK g : Summing(g, PbufsOn(l)) /\ Held(l) = g[n]
    BY HeldIs, TotalIs
  <1>c. /\ g \in [0 .. n -> Nat] /\ g[0] = 0 /\ Held(l) = g[n]
        /\ \A i \in 1 .. n : g[i] = g[i - 1] + Pbufs(l[i])
    BY <1>b, HeldIs DEF Summing
  <1>d. ip_reass_pbufcount = Held(l) /\ ip_reass_pbufcount \in Nat
    OBVIOUS
  <1> HIDE DEF l, n, c
  <1>3. StepsOn(step, Walking, n)
    <2>1. \A i \in 1 .. n : \A x \in Walking : Walked(x, l[i]) \in Walking
      BY <1>1, WalkedIs
    <2> QED  BY <2>1 DEF StepsOn
  <1>4. PICK f : Makes(f, Walking, c, n, step)
    <2> HIDE DEF step
    <2> QED  BY <1>1, <1>3, <1>a, Recursion
  <1>5. f \in [0 .. n -> Walking] /\ f[0] = c /\ \A i \in 1 .. n : f[i] = Walked(f[i - 1], l[i])
    <2>1. f \in [0 .. n -> Walking] /\ f[0] = c /\ \A i \in 1 .. n : f[i] = step[i][f[i - 1]]
      <3> HIDE DEF step
      <3> QED  BY <1>4 DEF Makes
    <2>2. \A i \in 1 .. n : i - 1 \in 0 .. n
      BY <1>1
    <2> QED  BY <2>1, <2>2
  <1> HIDE DEF step
  <1>6. Wanted(f)
    <2>1. \A i \in 0 .. n : f[i] = IF i = 0 THEN c ELSE Walked(f[i - 1], l[i])
      <3>1. \A i \in 0 .. n : i = 0 \/ i \in 1 .. n
        BY <1>1
      <3> QED  BY <1>5, <3>1
    <2>2. f = [i \in 0 .. n |-> f[i]]
      BY <1>5
    <2> QED  BY <2>1, <2>2
  <1>7. Wanted(h)
    <2> HIDE DEF Wanted
    <2> QED  BY <1>6
  <1> HIDE DEF h
  <1>8. \A i \in 0 .. n : h[i] = IF i = 0 THEN c ELSE Walked(h[i - 1], l[i])
    BY <1>7
  <1> HIDE DEF Wanted
  <1> DEFINE Right(i) == /\ h[i] \in Walking /\ h[i].count - Held(h[i].list) = g[n] - g[i]
                        /\ h[i].count <= ip_reass_pbufcount
  <1>9. Right(n)
    <2> DEFINE T == {i \in Nat : i <= n => Right(i)}
    <2>1. 0 \in T
      <3>1. h[0] = c
        BY <1>1, <1>8
      <3>2. Held(<<>>) = 0
        <4>1. PbufsOn(<<>>) = <<>>
          BY DEF PbufsOn
        <4> QED  BY <4>1, HeldIs, TotalOfNone DEF Held, PbufsOn
      <3>3. h[0] \in Walking /\ h[0].list = <<>> /\ h[0].count = g[n]
        BY <1>a, <1>c, <1>d, <3>1
      <3>4. g[n] \in Nat
        BY <1>c, <1>d
      <3>5. Right(0)
        BY <1>c, <1>d, <3>2, <3>3, <3>4
      <3> HIDE DEF Right
      <3> QED  BY <3>5
    <2>2. ASSUME NEW k \in Nat, k \in T PROVE k + 1 \in T
      <3> SUFFICES ASSUME k + 1 <= n PROVE Right(k + 1)
        <4> HIDE DEF Right
        <4> QED  OBVIOUS
      <3>1. k + 1 \in 0 .. n /\ k + 1 # 0 /\ (k + 1) - 1 = k /\ k <= n /\ k + 1 \in 1 .. n /\ k \in 0 .. n /\ n \in 0 .. n
        BY <1>1
      <3>2. Right(k)
        <4> HIDE DEF Right
        <4> QED  BY <2>2, <3>1
      <3>3. h[k + 1] = Walked(h[k], l[k + 1]) /\ l[k + 1] \in Data
        BY <1>1, <1>8, <3>1
      <3> DEFINE u == h[k]
                 v == h[k + 1]
                 r == l[k + 1]
      <3>4. /\ v \in Walking /\ v.count - Held(v.list) = u.count - Held(u.list) - Pbufs(r)
            /\ v.count <= u.count
        BY <3>2, <3>3, WalkedIs
      <3>5. g[k + 1] = g[k] + Pbufs(r) /\ g[k + 1] \in Nat /\ g[k] \in Nat /\ g[n] \in Nat
        BY <1>c, <3>1
      <3>6. Pbufs(r) \in Nat /\ u.count \in Int /\ v.count \in Int
        <4>1. u \in Walking
          BY <3>2
        <4> QED  BY <3>3, <3>4, <4>1, PbufsIs DEF Walking
      <3> DEFINE a == u.count - Held(u.list)
                 d == v.count - Held(v.list)
                 x == g[n]
                 y == g[k]
                 z == g[k + 1]
                 w == Pbufs(r)
                 p == u.count
                 q == v.count
      <3>7. /\ a = x - y /\ d = a - w /\ z = y + w /\ x \in Nat /\ y \in Nat /\ z \in Nat /\ w \in Nat
            /\ p <= ip_reass_pbufcount /\ q <= p /\ p \in Int /\ q \in Int /\ v \in Walking
        BY <3>2, <3>4, <3>5, <3>6
      <3>8. d = x - z /\ q <= ip_reass_pbufcount
        <4> HIDE DEF a, d, x, y, z, w, p, q, Right
        <4> QED  BY <1>d, <3>7
      <3> QED  BY <3>7, <3>8
    <2> HIDE DEF T, Right
    <2>3. Nat \subseteq T
      BY <2>1, <2>2, Induct
    <2>4. n \in T
      BY <1>1, <2>3
    <2> QED  BY <1>1, <2>4 DEF T
  <1> DEFINE e == h[n]
  <1>10. e \in Walking /\ e.count - Held(e.list) = g[n] - g[n] /\ e.count <= ip_reass_pbufcount
    BY <1>9
  <1>11. reassdatagrams' = e.list /\ ip_reass_pbufcount' = e.count
    BY <1>2
  <1> HIDE DEF e, Right
  <1>12. e.list \in Seq(Data) /\ e.count \in Int
    BY <1>10 DEF Walking
  <1>13. Held(e.list) \in Nat /\ g[n] \in Nat
    BY <1>c, <1>d, <1>12, HeldIs
  <1>14. e.count = Held(e.list) /\ e.count \in Nat
    <2> DEFINE x == e.count
               y == Held(e.list)
               z == g[n]
    <2>1. x \in Int /\ y \in Nat /\ z \in Nat /\ x - y = z - z
      BY <1>10, <1>12, <1>13
    <2> HIDE DEF x, y, z
    <2>2. x = y /\ x \in Nat
      BY <2>1
    <2> QED  BY <2>2 DEF x, y
  <1> QED  BY <1>10, <1>11, <1>12, <1>14


(***************************************************************************)
(* The count is right, and within the limit, whatever arrives.             *)
(***************************************************************************)
\* Every step keeps the count (ip_reass, ip_reass_tmr).
LEMMA HeldStep ==
  ASSUME HeldAreCounted, [ReassNext]_reassVars
  PROVE  HeldAreCounted'
  <1>1. /\ reassdatagrams \in Seq(Data) /\ ip_reass_pbufcount \in Nat /\ whole \in Seq(Pieces)
        /\ hung \in BOOLEAN /\ ip_reass_pbufcount = Held(reassdatagrams) /\ ip_reass_pbufcount <= MaxPbufs
    BY DEF HeldAreCounted, ReassTypeOK, Data
  <1>2. MaxPbufs \in Nat
    BY ReassAssumption
  <1> DEFINE Right == /\ reassdatagrams' \in Seq(Data) /\ ip_reass_pbufcount' \in Nat /\ whole' \in Seq(Pieces)
                     /\ hung' \in BOOLEAN /\ ip_reass_pbufcount' = Held(reassdatagrams')
                     /\ ip_reass_pbufcount' <= MaxPbufs
  <1> SUFFICES Right
    BY DEF HeldAreCounted, ReassTypeOK, Data
  <1>3. <<>> \in Seq(Pieces)
    OBVIOUS
  <1>4. ASSUME NEW t \in Counted(MaxPbufs), Becomes(t), whole' \in Seq(Pieces) PROVE Right
    <2>1. /\ t.list \in Seq(Data) /\ t.count \in Nat /\ t.hung \in BOOLEAN
          /\ t.count = Held(t.list) /\ t.count <= MaxPbufs
      BY <1>2, CountedHas
    <2>2. reassdatagrams' = t.list /\ ip_reass_pbufcount' = t.count /\ hung' = t.hung
      BY <1>4 DEF Becomes
    <2> QED  BY <1>4, <2>1, <2>2
  <1>5. CASE UNCHANGED reassVars
    BY <1>1, <1>5 DEF reassVars
  <1>6. CASE ip_reass_tmr
    <2>1. /\ reassdatagrams' \in Seq(Data) /\ ip_reass_pbufcount' \in Nat
          /\ ip_reass_pbufcount' = Held(reassdatagrams') /\ ip_reass_pbufcount' <= ip_reass_pbufcount
      BY <1>1, <1>6, TimerKeeps
    <2>2. whole' = <<>> /\ hung' = hung
      BY <1>6 DEF ip_reass_tmr
    <2> QED  BY <1>1, <1>2, <1>3, <2>1, <2>2
  <1>7. ASSUME NEW d \in Datagrams, NEW f \in Pieces, ip_reass(d, f) PROVE Right
    <2> DEFINE B     == Counted(MaxPbufs)
               room  == MadeRoom(Now, d, f)
               found == IF Known(room, d) # {} THEN room ELSE ip_reass_enqueue_new_datagram(room, d, f)
               k     == Min(Known(found, d))
               done  == Chained(found, k, f)
               good  == Last(done.list[k].p).end = Length
    <2>1. \/ /\ Crowded(room, f) \/ room.hung
             /\ Becomes(room) /\ whole' = <<>>
          \/ /\ ~Crowded(room, f) /\ ~room.hung
             /\ found.hung \/ Known(found, d) = {}
             /\ Becomes(found) /\ whole' = <<>>
          \/ /\ ~Crowded(room, f) /\ ~room.hung /\ ~found.hung /\ Known(found, d) # {}
             /\ IF Completes(found, k, f) /\ good
                THEN Becomes(FreeDatagram(done, k)) /\ whole' = done.list[k].p
                ELSE Becomes([done EXCEPT !.hung = Completes(found, k, f)]) /\ whole' = <<>>
      BY <1>7 DEF ip_reass
    <2>2. Now \in B
      BY <1>1, <1>2, CountedIs DEF Now
    <2>3. room \in B
      BY <1>2, <2>2, MadeRoomIs
    <2> HIDE DEF room
    <2>4. room.count \in Nat /\ room \in Counted(room.count)
      BY <1>2, <2>3, CountedHas DEF Counted
    <2>5. found \in Counted(room.count)
      <3>1. ip_reass_enqueue_new_datagram(room, d, f) \in Counted(room.count)
        BY <2>4, EnqueuedIs
      <3> QED  BY <2>4, <3>1
    <2> HIDE DEF found
    <2>6. found.count <= room.count /\ found.count \in Nat /\ room.count <= MaxPbufs
      BY <1>2, <2>3, <2>4, <2>5, CountedHas
    <2>7. found \in B
      <3> DEFINE c == room.count
      <3>1. found \in Work /\ found.count = Held(found.list) /\ found.count <= c /\ c <= MaxPbufs
            /\ c \in Nat /\ found.count \in Nat
        BY <2>4, <2>5, <2>6 DEF Counted
      <3> HIDE DEF c
      <3>2. found.count <= MaxPbufs
        BY <1>2, <3>1
      <3> QED  BY <3>1, <3>2 DEF Counted
    <2>8. CASE /\ Crowded(room, f) \/ room.hung
               /\ Becomes(room) /\ whole' = <<>>
      BY <1>3, <1>4, <2>3, <2>8
    <2>9. CASE /\ ~Crowded(room, f) /\ ~room.hung
               /\ found.hung \/ Known(found, d) = {}
               /\ Becomes(found) /\ whole' = <<>>
      BY <1>3, <1>4, <2>7, <2>9
    <2>10. CASE /\ ~Crowded(room, f) /\ ~room.hung /\ ~found.hung /\ Known(found, d) # {}
                /\ IF Completes(found, k, f) /\ good
                   THEN Becomes(FreeDatagram(done, k)) /\ whole' = done.list[k].p
                   ELSE Becomes([done EXCEPT !.hung = Completes(found, k, f)]) /\ whole' = <<>>
      <3>1. k \in DOMAIN found.list
        <4> DEFINE S == Known(found, d)
        <4>1. S \subseteq DOMAIN found.list
          BY DEF Known
        <4>2. DOMAIN found.list \subseteq Nat
          <5>1. found.list \in Seq(Data)
            BY <1>2, <2>7, CountedHas
          <5> QED  BY <5>1
        <4>3. S # {}
          BY <2>10
        <4> HIDE DEF S
        <4>4. Min(S) \in S
          BY <4>1, <4>2, <4>3, MinOfNats
        <4> QED  BY <4>1, <4>4 DEF S
      <3> HIDE DEF k
      <3>2. Clen(f) \in Nat /\ found.count + Clen(f) <= MaxPbufs
        <4> DEFINE a == room.count
                   b == found.count
                   c == Clen(f)
        <4>1. c \in Nat
          BY <1>7, PiecesAre
        <4>2. ~(a + c > MaxPbufs) /\ a \in Nat /\ b \in Nat /\ b <= a
          BY <2>4, <2>6, <2>10 DEF Crowded
        <4> HIDE DEF a, b, c
        <4>3. b + c <= MaxPbufs
          BY <1>2, <4>1, <4>2
        <4> QED  BY <4>1, <4>3 DEF b, c
      <3>3. done \in B /\ k \in DOMAIN done.list
        BY <1>2, <1>7, <2>7, <3>1, <3>2, ChainedIs
      <3> HIDE DEF done
      <3>4. CASE Completes(found, k, f) /\ good
        <4>1. Becomes(FreeDatagram(done, k)) /\ whole' = done.list[k].p
          BY <2>10, <3>4
        <4>2. FreeDatagram(done, k) \in B
          BY <1>2, <3>3, FreedIs
        <4>3. done.list[k].p \in Seq(Pieces)
          <5>1. done.list \in Seq(Data)
            BY <1>2, <3>3, CountedHas
          <5>2. done.list[k] \in Data
            BY <3>3, <5>1
          <5> QED  BY <5>2 DEF Data
        <4> QED  BY <1>4, <4>1, <4>2, <4>3
      <3>5. CASE ~(Completes(found, k, f) /\ good)
        <4> DEFINE stuck == Completes(found, k, f)
        <4>1. Becomes([done EXCEPT !.hung = stuck]) /\ whole' = <<>>
          BY <2>10, <3>5
        <4>2. stuck \in BOOLEAN
          BY DEF Completes
        <4> HIDE DEF stuck
        <4>3. [done EXCEPT !.hung = stuck] \in B
          BY <1>2, <3>3, <4>2, HungIs
        <4> QED  BY <1>3, <1>4, <4>1, <4>3
      <3> QED  BY <3>4, <3>5
    <2> QED  BY <2>1, <2>8, <2>9, <2>10
  <1>8. CASE ReassNext
    <2>1. ip_reass_tmr \/ \E d \in Datagrams, f \in Pieces : ip_reass(d, f)
      BY <1>8 DEF ReassNext
    <2> QED  BY <1>6, <1>7, <2>1
  <1> QED  BY <1>5, <1>8

\* The pbufs that ip_reass counts are those that are held, and never more than
\* IP_REASS_MAX_PBUFS.
THEOREM FragmentsAreCounted == ReassSpec => []HeldAreCounted
  <1>1. ReassInit => HeldAreCounted
    <2> SUFFICES ASSUME ReassInit PROVE HeldAreCounted
      OBVIOUS
    <2>1. Held(<<>>) = 0
      <3>1. PbufsOn(<<>>) = <<>>
        BY DEF PbufsOn
      <3> QED  BY <3>1, TotalOfNone DEF Held, PbufsOn
    <2>2. MaxPbufs \in Nat
      BY ReassAssumption
    <2>3. reassdatagrams = <<>> /\ ip_reass_pbufcount = 0 /\ whole = <<>> /\ hung = FALSE
      BY DEF ReassInit
    <2>4. reassdatagrams \in Seq(Data) /\ whole \in Seq(Pieces) /\ hung \in BOOLEAN /\ ip_reass_pbufcount \in Nat
      <3>1. <<>> \in Seq(Data) /\ <<>> \in Seq(Pieces)
        OBVIOUS
      <3>2. 0 \in Nat /\ FALSE \in BOOLEAN
        OBVIOUS
      <3> QED  BY <2>3, <3>1, <3>2
    <2>5. ReassTypeOK
      BY <2>4 DEF ReassTypeOK, Data
    <2>6. ip_reass_pbufcount = Held(reassdatagrams) /\ ip_reass_pbufcount <= MaxPbufs
      BY <2>1, <2>2, <2>3
    <2> QED  BY <2>5, <2>6 DEF HeldAreCounted
  <1>2. HeldAreCounted /\ [ReassNext]_reassVars => HeldAreCounted'
    BY HeldStep
  <1> QED  BY <1>1, <1>2, PTL DEF ReassSpec
=============================================================================
