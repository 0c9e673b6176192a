----------------------------- MODULE Tcp_proofs -----------------------------
(***************************************************************************)
(* Proofs about the connections of TCP: each PCB is on the list of its     *)
(* state, whatever the order of segments, calls, callbacks and timers; no  *)
(* user is left with one that was freed; no two are for the same peer and  *)
(* port.                                                                   *)
(*                                                                         *)
(* The lemmas follow the code upwards.  What a function makes of the PCBs  *)
(* is said by Made, field by field; Changed, Follows and Outcome say what  *)
(* of it matters for the next one; Kept is what tcp_input, the user's      *)
(* calls and a turn of tcp_slowtmr have in common.                         *)
(***************************************************************************)
EXTENDS TcpPcbs, Lemmas

TcpType ==
    [pcb : [Ids -> Pcb], bound : Seq(Ids), active : Seq(Ids), tw : Seq(Ids),
     listen : SUBSET WellKnown, holds : SUBSET Ids, untold : BOOLEAN]

\* The lists are in order, and no user has been left with a PCB that is gone.
Good(t) ==
    /\ t \in TcpType
    /\ Once(t.active) /\ Once(t.tw) /\ Once(t.bound)
    /\ \A i \in Ids : /\ i \in ToSet(t.active) <=> t.pcb[i].state \in Sent
                      /\ i \in ToSet(t.tw) <=> t.pcb[i].state = "TIME_WAIT"
                      /\ i \in ToSet(t.bound) => t.pcb[i].state = "CLOSED" /\ t.pcb[i].port \in WellKnown
    /\ t.untold = FALSE

\* What u is made of, where t is known.
Made(u, t, pcb, active, tw, bound, holds) ==
    /\ u \in TcpType /\ u.pcb = pcb /\ u.active = active /\ u.tw = tw /\ u.bound = bound
    /\ u.listen = t.listen /\ u.holds = holds /\ u.untold = t.untold

\* u differs from t in PCB i, which is now p, and in who holds it, at most.
Changed(t, u, i, p) ==
    /\ Good(u) /\ u.listen = t.listen /\ u.pcb[i] = p
    /\ \A j \in Ids \ {i} : /\ u.pcb[j] = t.pcb[j]
                            /\ j \in u.holds <=> j \in t.holds
                            /\ j \in ToSet(u.bound) <=> j \in ToSet(t.bound)

-----------------------------------------------------------------------------
LEMMA WithoutOne ==
  ASSUME NEW q \in Seq(Ids), NEW x, Once(q)
  PROVE  Without(q, x) \in Seq(Ids) /\ Once(Without(q, x)) /\ ToSet(Without(q, x)) = ToSet(q) \ {x}
  <1>1. CASE x \notin ToSet(q)
    BY <1>1 DEF Without
  <1>2. CASE x \in ToSet(q)
    <2>1. PlaceOf(q, x) \in DOMAIN q /\ q[PlaceOf(q, x)] = x
      BY <1>2 DEF PlaceOf, ToSet
    <2>2. OnceEach(q) /\ ElementsOf(q) = ToSet(q)
      BY DEF Once, OnceEach, ElementsOf, ToSet
    <2> DEFINE w == SubSeq(q, 1, PlaceOf(q, x) - 1) \o SubSeq(q, PlaceOf(q, x) + 1, Len(q))
    <2>3. w \in Seq(Ids) /\ OnceEach(w) /\ ElementsOf(w) = ElementsOf(q) \ {q[PlaceOf(q, x)]}
      BY <2>1, <2>2, CutOut
    <2>4. Without(q, x) = w
      BY <1>2 DEF Without
    <2> HIDE DEF w
    <2> QED  BY <2>1, <2>2, <2>3, <2>4, ZenonT(40) DEF Once, OnceEach, ElementsOf, ToSet
  <1> QED  BY <1>1, <1>2

LEMMA OneMore ==
  ASSUME NEW q \in Seq(Ids), NEW x \in Ids, Once(q), x \notin ToSet(q)
  PROVE  <<x>> \o q \in Seq(Ids) /\ Once(<<x>> \o q) /\ ToSet(<<x>> \o q) = ToSet(q) \cup {x}
  <1> DEFINE w == <<x>> \o q
  <1>1. OnceEach(q) /\ x \notin ElementsOf(q)
    BY DEF Once, OnceEach, ElementsOf, ToSet
  <1>2. w \in Seq(Ids) /\ OnceEach(w) /\ ElementsOf(w) = ElementsOf(q) \cup {x}
    BY <1>1, Prepended
  <1> HIDE DEF w
  <1>3. Once(w) /\ ToSet(w) = ToSet(q) \cup {x}
    BY <1>2 DEF Once, OnceEach, ElementsOf, ToSet
  <1> QED  BY <1>2, <1>3 DEF w

\* The fields, after each of the assignments to them.
LEMMA TypeOfPcb == ASSUME NEW t \in TcpType PROVE t.pcb \in [Ids -> Pcb]
  BY DEF TcpType

LEMMA OfPut ==
  ASSUME NEW t \in TcpType, NEW i \in Ids, NEW p \in Pcb
  PROVE  Made(Put(t, i, p), t, [t.pcb EXCEPT ![i] = p], t.active, t.tw, t.bound, t.holds)
  BY DEF TcpType, Put, Made

LEMMA OfLetGo ==
  ASSUME NEW t \in TcpType, NEW i
  PROVE  Made(LetGo(t, i), t, t.pcb, t.active, t.tw, t.bound, t.holds \ {i})
  BY DEF TcpType, LetGo, Made

LEMMA OfLists ==
  ASSUME NEW t \in TcpType, NEW q \in Seq(Ids)
  PROVE  /\ Made([t EXCEPT !.active = q], t, t.pcb, q, t.tw, t.bound, t.holds)
         /\ Made([t EXCEPT !.tw = q], t, t.pcb, t.active, q, t.bound, t.holds)
         /\ Made([t EXCEPT !.bound = q], t, t.pcb, t.active, t.tw, q, t.holds)
  BY DEF TcpType, Made

LEMMA OfHolds ==
  ASSUME NEW t \in TcpType, NEW h \in SUBSET Ids
  PROVE  Made([t EXCEPT !.holds = h], t, t.pcb, t.active, t.tw, t.bound, h)
  BY DEF TcpType, Made

LEMMA InPoolType ==
  InPool \in Pcb /\ InPool.state = "FREE" /\ InPool.port = 0 /\ InPool.rxclosed = FALSE
  BY PcbsAssumption DEF InPool, Pcb, AgeCap

LEMMA OfRelease ==
  ASSUME NEW t \in TcpType, NEW i \in Ids, t.untold = FALSE, i \notin t.holds
  PROVE  Made(Release(t, i), t, [t.pcb EXCEPT ![i] = InPool], t.active, t.tw, t.bound, t.holds)
  <1> DEFINE u == Put(t, i, InPool)
             v == LetGo(u, i)
  <1>1. Made(u, t, [t.pcb EXCEPT ![i] = InPool], t.active, t.tw, t.bound, t.holds)
    BY OfPut, InPoolType
  <1>2. Made(v, u, u.pcb, u.active, u.tw, u.bound, u.holds \ {i})
    BY <1>1, OfLetGo DEF Made
  <1>3. Release(t, i) = [v EXCEPT !.untold = v.untold \/ i \in t.holds]
    BY DEF Release
  <1> HIDE DEF u, v
  <1>4. (v.untold \/ i \in t.holds) = FALSE
    BY <1>1, <1>2 DEF Made
  <1>5. Release(t, i) = [v EXCEPT !.untold = FALSE]
    BY <1>3, <1>4, Zenon
  <1>6. t.holds \ {i} = t.holds
    OBVIOUS
  <1> QED  BY <1>1, <1>2, <1>5, <1>6 DEF TcpType, Made

-----------------------------------------------------------------------------
\* One PCB changes, with its places on the lists and its user.
LEMMA Change ==
  ASSUME NEW t, Good(t), NEW i \in Ids, NEW p \in Pcb,
         NEW a, NEW w, NEW b, NEW h, Once(a), Once(w), Once(b),
         ToSet(a) \ {i} = ToSet(t.active) \ {i}, ToSet(w) \ {i} = ToSet(t.tw) \ {i},
         ToSet(b) \ {i} = ToSet(t.bound) \ {i}, h \ {i} = t.holds \ {i},
         i \in ToSet(a) <=> p.state \in Sent,
         i \in ToSet(w) <=> p.state = "TIME_WAIT",
         i \in ToSet(b) => p.state = "CLOSED" /\ p.port \in WellKnown,
         NEW u, Made(u, t, [t.pcb EXCEPT ![i] = p], a, w, b, h)
  PROVE  Changed(t, u, i, p) /\ u.holds = h
  <1>1. u.pcb[i] = p /\ \A j \in Ids \ {i} : u.pcb[j] = t.pcb[j]
    BY TypeOfPcb DEF Made, Good
  <1>2. \A j \in Ids : /\ j \in ToSet(a) <=> u.pcb[j].state \in Sent
                       /\ j \in ToSet(w) <=> u.pcb[j].state = "TIME_WAIT"
                       /\ j \in ToSet(b) => u.pcb[j].state = "CLOSED" /\ u.pcb[j].port \in WellKnown
    BY <1>1 DEF Good
  <1>3. Good(u)
    BY <1>2 DEF Good, Made
  <1> QED  BY <1>1, <1>3 DEF Changed, Made

LEMMA ListTypes ==
  ASSUME NEW t, Good(t)
  PROVE  /\ t \in TcpType
         /\ t.bound \in Seq(Ids) /\ t.active \in Seq(Ids) /\ t.tw \in Seq(Ids)
         /\ t.holds \in SUBSET Ids /\ t.listen \in SUBSET WellKnown
         /\ \A i \in Ids : t.pcb[i] \in Pcb
  BY DEF Good, TcpType

\* A PCB changes and stays on its list.
SameList(p, q) ==
  \/ p.state \in Sent /\ q.state \in Sent
  \/ p.state = "TIME_WAIT" /\ q.state = "TIME_WAIT"
  \/ p.state = "CLOSED" /\ q.state = "CLOSED" /\ p.port \in {0, q.port}

LEMMA PutStays ==
  ASSUME NEW t, Good(t), NEW i \in Ids, NEW p \in Pcb,
         SameList(t.pcb[i], p) \/ (t.pcb[i].state = "FREE" /\ p.state = "CLOSED")
  PROVE  Changed(t, Put(t, i, p), i, p) /\ Put(t, i, p).holds = t.holds
  <1>1. /\ i \in ToSet(t.active) <=> p.state \in Sent
        /\ i \in ToSet(t.tw) <=> p.state = "TIME_WAIT"
        /\ i \in ToSet(t.bound) => p.state = "CLOSED" /\ p.port \in WellKnown
    BY PcbsAssumption DEF Good, SameList, Sent
  <1>2. Made(Put(t, i, p), t, [t.pcb EXCEPT ![i] = p], t.active, t.tw, t.bound, t.holds)
    BY ListTypes, OfPut
  <1>3. Once(t.active) /\ Once(t.tw) /\ Once(t.bound)
    BY DEF Good
  <1> QED  BY <1>1, <1>2, <1>3, Change

LEMMA LetGoStays ==
  ASSUME NEW t, Good(t), NEW i \in Ids
  PROVE  Changed(t, LetGo(t, i), i, t.pcb[i]) /\ LetGo(t, i).holds = t.holds \ {i}
  BY OfLetGo, ListTypes DEF Made, Good, Changed

LEMMA HoldStays ==
  ASSUME NEW t, Good(t), NEW i \in Ids, NEW u, u = [t EXCEPT !.holds = @ \cup {i}]
  PROVE  Changed(t, u, i, t.pcb[i])
  <1>1. t.holds \cup {i} \in SUBSET Ids
    BY ListTypes
  <1>2. Made(u, t, t.pcb, t.active, t.tw, t.bound, t.holds \cup {i})
    BY <1>1, OfHolds, ListTypes
  <1> QED  BY <1>2 DEF Made, Good, Changed

\* A PCB leaves its list and is freed.
FreedFrom(t, u, i) == Changed(t, u, i, InPool) /\ u.holds = t.holds

LEMMA Freed ==
  ASSUME NEW t, Good(t), NEW i \in Ids, i \notin t.holds
  PROVE  /\ t.pcb[i].state \in Sent => FreedFrom(t, Release([t EXCEPT !.active = Without(@, i)], i), i)
         /\ t.pcb[i].state = "TIME_WAIT" => FreedFrom(t, Release([t EXCEPT !.tw = Without(@, i)], i), i)
         /\ t.pcb[i].state = "CLOSED" => FreedFrom(t, Release([t EXCEPT !.bound = Without(@, i)], i), i)
  <1>1. InPool.state \notin Sent /\ InPool.state # "TIME_WAIT" /\ InPool.state # "CLOSED"
    BY InPoolType DEF Sent
  <1>2. ASSUME NEW x, NEW a, NEW w, NEW b, Made(x, t, t.pcb, a, w, b, t.holds), Once(a), Once(w), Once(b),
               ToSet(a) = ToSet(t.active) \ {i}, ToSet(w) = ToSet(t.tw) \ {i}, ToSet(b) = ToSet(t.bound) \ {i}
        PROVE  FreedFrom(t, Release(x, i), i)
    <2>1. Made(Release(x, i), x, [x.pcb EXCEPT ![i] = InPool], x.active, x.tw, x.bound, x.holds)
      BY <1>2, OfRelease, ZenonT(40) DEF Made, Good
    <2>2. Made(Release(x, i), t, [t.pcb EXCEPT ![i] = InPool], a, w, b, t.holds)
      BY <1>2, <2>1 DEF Made
    <2> HIDE DEF InPool
    <2> QED  BY <1>1, <1>2, <2>2, Change, InPoolType DEF FreedFrom
  <1>3. /\ i \in ToSet(t.active) <=> t.pcb[i].state \in Sent
        /\ i \in ToSet(t.tw) <=> t.pcb[i].state = "TIME_WAIT"
        /\ i \in ToSet(t.bound) => t.pcb[i].state = "CLOSED"
        /\ Once(t.active) /\ Once(t.tw) /\ Once(t.bound)
    BY DEF Good
  <1>4. "TIME_WAIT" \notin Sent /\ "CLOSED" \notin Sent
    BY DEF Sent
  <1>5. CASE t.pcb[i].state \in Sent
    <2>1. ToSet(t.tw) = ToSet(t.tw) \ {i} /\ ToSet(t.bound) = ToSet(t.bound) \ {i}
      BY <1>3, <1>4, <1>5
    <2>2. Made([t EXCEPT !.active = Without(@, i)], t, t.pcb, Without(t.active, i), t.tw, t.bound, t.holds)
      BY <1>3, ListTypes, WithoutOne, OfLists
    <2> QED  BY <1>2, <1>3, <1>4, <1>5, <2>1, <2>2, ListTypes, WithoutOne
  <1>6. CASE t.pcb[i].state = "TIME_WAIT"
    <2>1. ToSet(t.active) = ToSet(t.active) \ {i} /\ ToSet(t.bound) = ToSet(t.bound) \ {i}
      BY <1>3, <1>4, <1>6
    <2>2. Made([t EXCEPT !.tw = Without(@, i)], t, t.pcb, t.active, Without(t.tw, i), t.bound, t.holds)
      BY <1>3, ListTypes, WithoutOne, OfLists
    <2> QED  BY <1>2, <1>3, <1>4, <1>6, <2>1, <2>2, ListTypes, WithoutOne
  <1>7. CASE t.pcb[i].state = "CLOSED"
    <2>1. ToSet(t.active) = ToSet(t.active) \ {i} /\ ToSet(t.tw) = ToSet(t.tw) \ {i}
      BY <1>3, <1>4, <1>7
    <2>2. Made([t EXCEPT !.bound = Without(@, i)], t, t.pcb, t.active, t.tw, Without(t.bound, i), t.holds)
      BY <1>3, ListTypes, WithoutOne, OfLists
    <2> QED  BY <1>2, <1>3, <1>4, <1>7, <2>1, <2>2, ListTypes, WithoutOne
  <1> QED  BY <1>5, <1>6, <1>7

-----------------------------------------------------------------------------
\* What handling one PCB may do: free it, or leave it the same connection.
Conn == Sent \cup {"TIME_WAIT"}

SameOne(p, q) ==
  /\ q.port = p.port /\ q.rem = p.rem
  /\ \/ p.state \in Conn /\ q.state \in Conn
     \/ p.state = "CLOSED" /\ q.state = "CLOSED"

Follows(t, u, i) ==
  /\ Changed(t, u, i, u.pcb[i])
  /\ u.pcb[i].state = "FREE" \/ SameOne(t.pcb[i], u.pcb[i])

\* A user that still holds the PCB sees it as before.
Unnoticed(t, u, i) ==
  i \in u.holds => /\ i \in t.holds
                  /\ u.pcb[i].state = t.pcb[i].state
                  /\ u.pcb[i].rxclosed = t.pcb[i].rxclosed

LEMMA FollowsOn ==
  ASSUME NEW t, NEW u, NEW v, NEW i \in Ids, Follows(t, u, i), Follows(u, v, i), u.pcb[i].state # "FREE"
  PROVE  Follows(t, v, i)
  BY DEF Follows, Changed, SameOne, Sent, Conn

LEMMA UnnoticedOn ==
  ASSUME NEW t, NEW u, NEW v, NEW i \in Ids, Unnoticed(t, u, i), Unnoticed(u, v, i)
  PROVE  Unnoticed(t, v, i)
  BY DEF Unnoticed

LEMMA LetGoFollows ==
  ASSUME NEW t, Good(t), NEW i \in Ids, t.pcb[i].state # "FREE"
  PROVE  /\ Follows(t, LetGo(t, i), i) /\ LetGo(t, i).pcb[i] = t.pcb[i]
         /\ i \notin LetGo(t, i).holds
  <1>1. SameOne(t.pcb[i], t.pcb[i])
    BY ListTypes DEF Pcb, SameOne, Conn
  <1> QED  BY <1>1, LetGoStays DEF Follows, Changed

LEMMA PutFollows ==
  ASSUME NEW t, Good(t), NEW i \in Ids, NEW p \in Pcb,
         SameList(t.pcb[i], p), p.port = t.pcb[i].port, p.rem = t.pcb[i].rem
  PROVE  /\ Follows(t, Put(t, i, p), i) /\ Put(t, i, p).pcb[i] = p
         /\ Put(t, i, p).holds = t.holds
  <1>1. SameOne(t.pcb[i], p)
    BY DEF SameOne, SameList, Conn
  <1> QED  BY <1>1, PutStays DEF Follows, Changed

\* Fields of a PCB that no list depends on.
LEMMA Fields ==
  ASSUME NEW p \in Pcb
  PROVE  /\ \A b \in BOOLEAN : /\ [p EXCEPT !.unread = b] \in Pcb
                              /\ [p EXCEPT !.rxclosed = b] \in Pcb
                              /\ [p EXCEPT !.out = b] \in Pcb
         /\ [p EXCEPT !.age = 0] \in Pcb
         /\ [p EXCEPT !.out = FALSE, !.nrtx = 0] \in Pcb
         /\ \A s \in Sent \cup {"TIME_WAIT"} : /\ [p EXCEPT !.state = s] \in Pcb
                        /\ \A b \in BOOLEAN : [p EXCEPT !.state = s, !.out = b] \in Pcb
         /\ \A q \in WellKnown : [p EXCEPT !.port = q] \in Pcb
  <1>1. 0 \in 0 .. AgeCap /\ 0 \in 0 .. MaxRtx
    BY PcbsAssumption DEF AgeCap
  <1> QED  BY <1>1, ZenonT(40) DEF Pcb

LEMMA ToTimeWaitFollows ==
  ASSUME NEW t, Good(t), NEW i \in Ids, t.pcb[i].state \in Sent
  PROVE  LET u == ToTimeWait(t, i)
         IN /\ Follows(t, u, i) /\ u.pcb[i] = TimeWaiting(t.pcb[i]) /\ u.holds = t.holds
            /\ u.pcb[i].state = "TIME_WAIT"
  <1> DEFINE p == TimeWaiting(t.pcb[i])
             u == ToTimeWait(t, i)
             x == Put(t, i, p)
  <1>1. /\ p \in Pcb /\ p.state = "TIME_WAIT" /\ p.port = t.pcb[i].port /\ p.rem = t.pcb[i].rem
        /\ p.rxclosed = t.pcb[i].rxclosed
    <2>1. t.pcb[i] \in Pcb
      BY ListTypes
    <2>2. p \in Pcb
      BY <2>1, Fields DEF TimeWaiting
    <2> QED  BY <2>1, <2>2 DEF TimeWaiting, Pcb
  <1> HIDE DEF p
  <1>2. "TIME_WAIT" \notin Sent /\ "CLOSED" \notin Sent
    BY DEF Sent
  <1>3. i \notin ToSet(t.tw) /\ i \notin ToSet(t.bound)
    BY <1>2 DEF Good
  <1>4. Once(t.active) /\ Once(t.tw) /\ Once(t.bound)
    BY DEF Good
  <1>5. /\ Without(t.active, i) \in Seq(Ids) /\ Once(Without(t.active, i))
        /\ ToSet(Without(t.active, i)) = ToSet(t.active) \ {i}
    BY <1>4, ListTypes, WithoutOne
  <1>6. <<i>> \o t.tw \in Seq(Ids) /\ Once(<<i>> \o t.tw) /\ ToSet(<<i>> \o t.tw) = ToSet(t.tw) \cup {i}
    BY <1>3, <1>4, ListTypes, OneMore
  <1>7. Made(x, t, [t.pcb EXCEPT ![i] = p], t.active, t.tw, t.bound, t.holds)
    BY <1>1, ListTypes, OfPut
  <1> DEFINE a == Without(t.active, i)
             w == <<i>> \o t.tw
  <1>8. u = [x EXCEPT !.active = a, !.tw = w]
    <2>1. x.active = t.active /\ x.tw = t.tw
      BY <1>7 DEF Made
    <2> QED  BY <2>1 DEF ToTimeWait, p
  <1> HIDE DEF x, u, a, w
  <1>9. Made(u, t, [t.pcb EXCEPT ![i] = p], a, w, t.bound, t.holds)
    BY <1>5, <1>6, <1>7, <1>8 DEF Made, TcpType, a, w
  <1>10. Changed(t, u, i, p) /\ u.holds = t.holds
    BY <1>1, <1>2, <1>3, <1>4, <1>5, <1>6, <1>9, Change DEF a, w
  <1>11. SameOne(t.pcb[i], p)
    BY <1>1 DEF SameOne, Conn
  <1>12. u.pcb[i] = p
    BY <1>10 DEF Changed
  <1> QED  BY <1>1, <1>10, <1>11, <1>12 DEF Follows, u, p

-----------------------------------------------------------------------------
LEMMA FreedFollows ==
  ASSUME NEW t, NEW u, NEW i \in Ids, FreedFrom(t, u, i)
  PROVE  Follows(t, u, i) /\ u.pcb[i].state = "FREE"
  BY InPoolType DEF FreedFrom, Follows, Changed

\* The user is told first, and then the PCB is freed.
LEMMA ToldAndFreed ==
  ASSUME NEW t, Good(t), NEW i \in Ids, t.pcb[i].state \in Sent
  PROVE  /\ FreedFrom(LetGo(t, i), Release(Deactivate(LetGo(t, i), i), i), i)
         /\ Release(LetGo(Deactivate(t, i), i), i) = Release(Deactivate(LetGo(t, i), i), i)
  <1>1. Good(LetGo(t, i)) /\ LetGo(t, i).pcb[i] = t.pcb[i] /\ i \notin LetGo(t, i).holds
    BY LetGoStays DEF Changed
  <1>2. LetGo(Deactivate(t, i), i) = Deactivate(LetGo(t, i), i)
    <2>1. t \in TcpType
      BY DEF Good
    <2> QED  BY <2>1 DEF LetGo, Deactivate, TcpType
  <1> QED  BY <1>1, <1>2, Freed DEF Deactivate

LEMMA AbandonFollows ==
  ASSUME NEW t, Good(t), NEW i \in Ids, t.pcb[i].state \in Conn,
         t.pcb[i].state = "TIME_WAIT" => i \notin t.holds
  PROVE  LET u == tcp_abandon(t, i)
         IN Follows(t, u, i) /\ u.pcb[i].state = "FREE" /\ i \notin u.holds
  <1>1. CASE t.pcb[i].state = "TIME_WAIT"
    <2>1. FreedFrom(t, tcp_abandon(t, i), i)
      BY <1>1, Freed DEF tcp_abandon
    <2> QED  BY <1>1, <2>1, FreedFollows DEF FreedFrom
  <1>2. CASE t.pcb[i].state \in Sent
    <2>1. t.pcb[i].state # "TIME_WAIT" /\ t.pcb[i].state # "FREE"
      BY <1>2 DEF Sent
    <2>2. FreedFrom(LetGo(t, i), tcp_abandon(t, i), i)
      BY <1>2, <2>1, ToldAndFreed DEF tcp_abandon
    <2>3. Follows(t, LetGo(t, i), i) /\ LetGo(t, i).pcb[i] = t.pcb[i] /\ i \notin LetGo(t, i).holds
      BY <2>1, LetGoFollows
    <2> QED  BY <2>1, <2>2, <2>3, FreedFollows, FollowsOn DEF FreedFrom
  <1> QED  BY <1>1, <1>2 DEF Conn

\* The FIN is on its way.
LEMMA FinFollows ==
  ASSUME NEW t, Good(t), NEW i \in Ids, t.pcb[i].state \in Sent, NEW next \in Sent
  PROVE  LET u == SendFin(t, i, next)
         IN /\ Follows(t, u, i) /\ u.holds = t.holds
            /\ u.pcb[i].state = next /\ u.pcb[i].rxclosed = t.pcb[i].rxclosed
  <1> DEFINE p == [t.pcb[i] EXCEPT !.state = next, !.out = TRUE]
  <1>1. t.pcb[i] \in Pcb
    BY ListTypes, SMTT(30)
  <1>2. p \in Pcb
    BY <1>1, Fields
  <1>3. /\ p.state = next /\ p.port = t.pcb[i].port /\ p.rem = t.pcb[i].rem
        /\ p.rxclosed = t.pcb[i].rxclosed
    BY <1>1 DEF Pcb
  <1>4. SendFin(t, i, next) = Put(t, i, p)
    BY DEF SendFin
  <1> HIDE DEF p
  <1> QED  BY <1>2, <1>3, <1>4, PutFollows DEF SameList

\* A call that closes the connection, or half of it.
LEMMA ShutdownFollows ==
  ASSUME NEW t, Good(t), NEW i \in Ids, t.pcb[i].state # "FREE", NEW rst \in BOOLEAN,
         i \in t.holds => rst = FALSE /\ NeedsFin(t, i)
  PROVE  LET u == tcp_close_shutdown(t, i, rst)
         IN /\ Follows(t, u, i) /\ u.holds = t.holds /\ u.pcb[i].state # "CLOSED"
            /\ i \in u.holds => /\ u.pcb[i].state \in {"FIN_WAIT_1", "LAST_ACK"}
                                /\ u.pcb[i].rxclosed = t.pcb[i].rxclosed
  <1> DEFINE u == tcp_close_shutdown(t, i, rst)
             s == t.pcb[i].state
  <1>0. s \in Sent \cup {"CLOSED", "TIME_WAIT"} /\ t.pcb[i].unread \in BOOLEAN
    BY ListTypes DEF Pcb
  <1>1. CASE rst /\ SendsRst(t, i) /\ s = "ESTABLISHED"
    <2>1. u = ToTimeWait(t, i)
      BY <1>1 DEF tcp_close_shutdown
    <2>2. i \notin t.holds /\ s \in Sent
      BY <1>1 DEF Sent
    <2> QED  BY <2>1, <2>2, ToTimeWaitFollows
  <1>2. CASE (rst /\ SendsRst(t, i) /\ s = "CLOSE_WAIT") \/ s = "SYN_SENT"
    <2>1. u = Release(Deactivate(t, i), i)
      BY <1>2 DEF tcp_close_shutdown, SendsRst
    <2>2. i \notin t.holds /\ s \in Sent
      BY <1>2 DEF Sent, NeedsFin
    <2> QED  BY <2>1, <2>2, Freed, FreedFollows, ZenonT(40) DEF FreedFrom, Deactivate
  <1>3. CASE s = "CLOSED"
    <2>1. u = Release([t EXCEPT !.bound = Without(@, i)], i)
      BY <1>3 DEF tcp_close_shutdown, SendsRst
    <2>2. i \notin t.holds
      BY <1>3 DEF NeedsFin
    <2> QED  BY <1>3, <2>1, <2>2, Freed, FreedFollows DEF FreedFrom
  <1>4. CASE ~(rst /\ SendsRst(t, i)) /\ s \in {"SYN_RCVD", "ESTABLISHED"}
    <2>1. u = SendFin(t, i, "FIN_WAIT_1")
      BY <1>4 DEF tcp_close_shutdown, SendsRst
    <2> QED  BY <1>4, <2>1, FinFollows DEF Sent
  <1>5. CASE ~(rst /\ SendsRst(t, i)) /\ s = "CLOSE_WAIT"
    <2>1. u = SendFin(t, i, "LAST_ACK")
      BY <1>5 DEF tcp_close_shutdown, SendsRst
    <2> QED  BY <1>5, <2>1, FinFollows DEF Sent
  <1>6. CASE s \in {"FIN_WAIT_1", "FIN_WAIT_2", "CLOSING", "LAST_ACK", "TIME_WAIT"}
    <2>1. u = t
      BY <1>6 DEF tcp_close_shutdown, SendsRst
    <2>2. i \notin t.holds
      BY <1>6 DEF NeedsFin
    <2>3. SameOne(t.pcb[i], t.pcb[i]) /\ Changed(t, t, i, t.pcb[i])
      BY <1>6 DEF SameOne, Conn, Sent, Changed
    <2> QED  BY <1>6, <2>1, <2>2, <2>3 DEF Follows
  <1> QED  BY <1>0, <1>1, <1>2, <1>3, <1>4, <1>5, <1>6 DEF Sent, SendsRst

\* A user that closes or aborts holds the PCB no longer.
LEMMA CloseFollows ==
  ASSUME NEW t, Good(t), NEW i \in Ids, t.pcb[i].state # "FREE"
  PROVE  /\ Follows(t, tcp_close(t, i), i) /\ i \notin tcp_close(t, i).holds
         /\ tcp_close(t, i).pcb[i].state # "CLOSED"
  <1> DEFINE v == LetGo(t, i)
             p == [v.pcb[i] EXCEPT !.rxclosed = TRUE]
             w == Put(v, i, p)
  <1>1. Follows(t, v, i) /\ v.pcb[i] = t.pcb[i] /\ i \notin v.holds /\ Good(v)
    BY LetGoFollows DEF Follows, Changed
  <1> HIDE DEF v
  <1>2. v.pcb[i] \in Pcb
    BY <1>1, ListTypes
  <1>3. p \in Pcb /\ p.state = v.pcb[i].state /\ p.port = v.pcb[i].port /\ p.rem = v.pcb[i].rem
    <2>1. p \in Pcb
      BY <1>2, Fields
    <2> QED  BY <1>2, <2>1 DEF Pcb
  <1>4. SameList(v.pcb[i], p)
    BY <1>1, <1>2, <1>3 DEF SameList, Pcb
  <1> HIDE DEF p
  <1>5. Follows(v, w, i) /\ w.pcb[i] = p /\ w.holds = v.holds /\ Good(w)
    BY <1>1, <1>3, <1>4, PutFollows DEF Follows, Changed
  <1>6. tcp_close(t, i) = tcp_close_shutdown(w, i, TRUE)
    BY DEF tcp_close, NotClosed, v, p
  <1> HIDE DEF w
  <1>7. /\ Follows(w, tcp_close(t, i), i) /\ tcp_close(t, i).holds = w.holds
        /\ tcp_close(t, i).pcb[i].state # "CLOSED"
    <2>1. Good(w) /\ w.pcb[i].state # "FREE" /\ i \notin w.holds /\ TRUE \in BOOLEAN
      BY <1>1, <1>3, <1>5
    <2> QED  BY <1>6, <2>1, ShutdownFollows, ZenonT(40)
  <1>8. Follows(t, w, i)
    BY <1>1, <1>5, FollowsOn
  <1> QED  BY <1>1, <1>3, <1>5, <1>7, <1>8, FollowsOn

LEMMA AbortFollows ==
  ASSUME NEW t, Good(t), NEW i \in Ids, t.pcb[i].state \in Conn
  PROVE  /\ Follows(t, tcp_abort(t, i), i) /\ tcp_abort(t, i).pcb[i].state = "FREE"
         /\ i \notin tcp_abort(t, i).holds
  <1>1. t.pcb[i].state # "FREE"
    BY DEF Conn, Sent
  <1>2. Follows(t, LetGo(t, i), i) /\ LetGo(t, i).pcb[i] = t.pcb[i] /\ i \notin LetGo(t, i).holds
    BY <1>1, LetGoFollows
  <1>3. Follows(LetGo(t, i), tcp_abort(t, i), i) /\ tcp_abort(t, i).pcb[i].state = "FREE"
        /\ i \notin tcp_abort(t, i).holds
    BY <1>2, AbandonFollows DEF tcp_abort, Follows, Changed
  <1> QED  BY <1>1, <1>2, <1>3, FollowsOn

LEMMA Stays ==
  ASSUME NEW t, Good(t), NEW i \in Ids, t.pcb[i].state # "FREE"
  PROVE  Follows(t, t, i) /\ Unnoticed(t, t, i)
  BY ListTypes DEF Follows, Changed, SameOne, Conn, Unnoticed, Pcb

\* A callback.
LEMMA ReactFollows ==
  ASSUME NEW t, Good(t), NEW i \in Ids, t.pcb[i].state \in Conn, NEW c
  PROVE  LET u == React(t, i, c) IN Follows(t, u, i) /\ Unnoticed(t, u, i)
  <1>1. t.pcb[i].state # "FREE"
    BY DEF Conn, Sent
  <1>2. CASE i \in t.holds /\ c = "close"
    BY <1>1, <1>2, CloseFollows DEF React, Unnoticed
  <1>3. CASE i \in t.holds /\ c = "abort"
    BY <1>1, <1>3, AbortFollows DEF React, Unnoticed
  <1>4. CASE i \notin t.holds \/ c \notin {"close", "abort"}
    BY <1>1, <1>4, Stays DEF React
  <1> QED  BY <1>2, <1>3, <1>4

LEMMA UnreadFollows ==
  ASSUME NEW t, Good(t), NEW i \in Ids, t.pcb[i].state \in Conn, NEW b \in BOOLEAN
  PROVE  LET u == Unread(t, i, b)
         IN /\ Follows(t, u, i) /\ u.holds = t.holds
            /\ u.pcb[i].state = t.pcb[i].state /\ u.pcb[i].rxclosed = t.pcb[i].rxclosed
  <1> DEFINE p == [t.pcb[i] EXCEPT !.unread = b]
  <1>1. t.pcb[i] \in Pcb
    BY ListTypes
  <1>2. p \in Pcb
    BY <1>1, Fields
  <1>3. /\ p.state = t.pcb[i].state /\ p.port = t.pcb[i].port /\ p.rem = t.pcb[i].rem
        /\ p.rxclosed = t.pcb[i].rxclosed
    BY <1>1 DEF Pcb
  <1>4. Unread(t, i, b) = Put(t, i, p)
    BY DEF Unread
  <1> HIDE DEF p
  <1>5. SameList(t.pcb[i], p)
    BY <1>3 DEF SameList, Conn
  <1> QED  BY <1>2, <1>3, <1>4, <1>5, PutFollows

\* Data and the end of the stream go to the user.
LEMMA DataFollows ==
  ASSUME NEW t, Good(t), NEW i \in Ids, t.pcb[i].state \in Conn, NEW fin \in BOOLEAN, NEW c,
         t.pcb[i].state = "TIME_WAIT" /\ i \in t.holds => t.pcb[i].rxclosed = FALSE
  PROVE  LET u == ReceiveData(t, i, fin, c) IN Follows(t, u, i) /\ Unnoticed(t, u, i)
  <1> DEFINE b == t.pcb[i].unread \/ c = "keep" \/ fin
             v == Unread(t, i, b)
  <1>1. CASE t.pcb[i].rxclosed
    BY <1>1, AbandonFollows DEF ReceiveData, Unnoticed
  <1>2. CASE ~t.pcb[i].rxclosed
    <2>1. b \in BOOLEAN
      OBVIOUS
    <2> HIDE DEF b
    <2>2. /\ Follows(t, v, i) /\ v.holds = t.holds /\ v.pcb[i].state = t.pcb[i].state
          /\ v.pcb[i].rxclosed = t.pcb[i].rxclosed
      BY <2>1, UnreadFollows
    <2>3. ReceiveData(t, i, fin, c) = React(v, i, c)
      BY <1>2 DEF ReceiveData, b
    <2> HIDE DEF v
    <2>4. Good(v) /\ Unnoticed(t, v, i) /\ v.pcb[i].state # "FREE"
      BY <2>2 DEF Follows, Changed, Unnoticed, Conn, Sent
    <2> QED  BY <2>2, <2>3, <2>4, ReactFollows, FollowsOn, UnnoticedOn
  <1> QED  BY <1>1, <1>2

\* No user holds a PCB whose two halves have ended.
Over(u, i) == i \in u.holds => u.pcb[i].state \notin {"CLOSING", "TIME_WAIT"}

LEMMA EndFollows ==
  ASSUME NEW t, Good(t), NEW i \in Ids, t.pcb[i].state \in Conn, NEW c
  PROVE  LET u == ReceiveEnd(t, i, c) IN Follows(t, u, i) /\ Unnoticed(t, u, i) /\ Over(u, i)
  <1> DEFINE v == React(t, i, c)
  <1>1. Follows(t, v, i) /\ Unnoticed(t, v, i)
    BY ReactFollows
  <1>2. ReceiveEnd(t, i, c) = IF v.pcb[i].state \in {"CLOSING", "TIME_WAIT"} THEN LetGo(v, i) ELSE v
    BY DEF ReceiveEnd
  <1> HIDE DEF v
  <1>3. CASE v.pcb[i].state \in {"CLOSING", "TIME_WAIT"}
    <2>1. Good(v)
      BY <1>1 DEF Follows, Changed
    <2>2. Follows(v, LetGo(v, i), i) /\ i \notin LetGo(v, i).holds
      BY <1>3, <2>1, LetGoFollows
    <2> QED  BY <1>1, <1>2, <1>3, <2>2, FollowsOn DEF Unnoticed, Over
  <1>4. CASE v.pcb[i].state \notin {"CLOSING", "TIME_WAIT"}
    BY <1>1, <1>2, <1>4 DEF Over
  <1> QED  BY <1>3, <1>4

LEMMA DeliverFollows ==
  ASSUME NEW t, Good(t), NEW i \in Ids, t.pcb[i].state \in Conn,
         NEW data \in BOOLEAN, NEW fin \in BOOLEAN, NEW c,
         t.pcb[i].state = "TIME_WAIT" /\ i \in t.holds => t.pcb[i].rxclosed = FALSE
  PROVE  LET u == Deliver(t, i, data, fin, c)
         IN Follows(t, u, i) /\ Unnoticed(t, u, i) /\ (fin => Over(u, i))
  <1> DEFINE u == Deliver(t, i, data, fin, c)
             v == ReceiveData(t, i, fin, c)
             b == t.pcb[i].unread \/ c = "keep"
             w == Unread(v, i, b)
  <1>0. t.pcb[i].state # "FREE"
    BY DEF Conn, Sent
  <1>1. Follows(t, v, i) /\ Unnoticed(t, v, i) /\ Good(v)
    <2>1. Follows(t, v, i) /\ Unnoticed(t, v, i)
      BY DataFollows
    <2> QED  BY <2>1 DEF Follows, Changed
  <1>2. b \in BOOLEAN
    <2>1. t.pcb[i].unread \in BOOLEAN
      BY ListTypes DEF Pcb
    <2> QED  BY <2>1
  <1>3. CASE data /\ (~fin \/ v.pcb[i].state = "FREE")
    <2>1. u = v
      BY <1>3 DEF Deliver
    <2>2. fin => i \notin v.holds
      BY <1>0, <1>1, <1>3 DEF Unnoticed
    <2> QED  BY <1>1, <2>1, <2>2 DEF Over
  <1>4. CASE data /\ fin /\ v.pcb[i].state # "FREE"
    <2>1. u = ReceiveEnd(w, i, "keep")
      BY <1>4 DEF Deliver
    <2>2. v.pcb[i].state \in Conn
      BY <1>0, <1>1, <1>4 DEF Follows, SameOne, Conn, Sent
    <2> HIDE DEF v, b
    <2>3. Follows(v, w, i) /\ Unnoticed(v, w, i) /\ w.pcb[i].state = v.pcb[i].state
      BY <1>1, <1>2, <2>2, UnreadFollows DEF Unnoticed
    <2> HIDE DEF w
    <2>4. Good(w) /\ w.pcb[i].state \in Conn /\ w.pcb[i].state # "FREE"
      BY <1>4, <2>2, <2>3 DEF Follows, Changed
    <2>5. Follows(w, u, i) /\ Unnoticed(w, u, i) /\ Over(u, i)
      BY <2>1, <2>4, EndFollows
    <2> HIDE DEF u
    <2>6. Follows(t, u, i) /\ Unnoticed(t, u, i)
      BY <1>1, <1>4, <2>3, <2>4, <2>5, FollowsOn, UnnoticedOn
    <2> QED  BY <2>5, <2>6 DEF u
  <1>5. CASE ~data /\ fin
    <2>1. u = ReceiveEnd(t, i, c)
      BY <1>5 DEF Deliver
    <2> QED  BY <2>1, EndFollows
  <1>6. CASE ~data /\ ~fin
    <2>1. u = t
      BY <1>6 DEF Deliver
    <2> QED  BY <1>0, <1>6, <2>1, Stays
  <1> QED  BY <1>3, <1>4, <1>5, <1>6

-----------------------------------------------------------------------------
\* Which PCBs a user holds: never one that is over, and one that it has closed
\* only if it has to close it again, for want of memory for the FIN.
HeldStates == {"CLOSED", "SYN_SENT", "ESTABLISHED", "CLOSE_WAIT", "FIN_WAIT_1", "FIN_WAIT_2", "LAST_ACK"}
HeldWell(t, i) ==
    i \in t.holds => /\ t.pcb[i].state \in HeldStates
                     /\ t.pcb[i].state \notin {"ESTABLISHED", "CLOSE_WAIT"} => t.pcb[i].rxclosed = FALSE

Outcome(t, u, i) == Follows(t, u, i) /\ HeldWell(u, i)

\* A segment has come for i, and nothing more.
Heard(t, u, i) ==
    /\ Follows(t, u, i) /\ u.holds = t.holds
    /\ u.pcb[i].state = t.pcb[i].state /\ u.pcb[i].rxclosed = t.pcb[i].rxclosed

LEMMA PutHeard ==
  ASSUME NEW t, Good(t), NEW i \in Ids, t.pcb[i].state \in Conn, NEW p \in Pcb,
         p.state = t.pcb[i].state, p.port = t.pcb[i].port, p.rem = t.pcb[i].rem, p.rxclosed = t.pcb[i].rxclosed
  PROVE  Heard(t, Put(t, i, p), i)
  <1>1. SameList(t.pcb[i], p)
    BY DEF SameList, Conn
  <1> QED  BY <1>1, PutFollows DEF Heard

LEMMA AckHeard ==
  ASSUME NEW t, Good(t), NEW i \in Ids, t.pcb[i].state \in Conn, NEW s
  PROVE  /\ Heard(t, t, i)
         /\ Heard(t, Touched(t, i), i)
         /\ Heard(t, Acked(t, i, s), i)
         /\ Heard(t, Acked(Touched(t, i), i, s), i)
  <1>1. \A x : Good(x) /\ x.pcb[i].state \in Conn => Heard(x, x, i) /\ Heard(x, Acked(x, i, s), i)
    <2> SUFFICES ASSUME NEW x, Good(x), x.pcb[i].state \in Conn
                 PROVE  Heard(x, x, i) /\ Heard(x, Acked(x, i, s), i)
      OBVIOUS
    <2>1. Heard(x, x, i)
      BY Stays DEF Heard, Conn, Sent
    <2> DEFINE p == [x.pcb[i] EXCEPT !.out = FALSE, !.nrtx = 0]
    <2>2. x.pcb[i] \in Pcb
      BY ListTypes, SMTT(30)
    <2>3. p \in Pcb
      BY <2>2, Fields
    <2>4. p.state = x.pcb[i].state /\ p.port = x.pcb[i].port /\ p.rem = x.pcb[i].rem /\ p.rxclosed = x.pcb[i].rxclosed
      BY <2>2 DEF Pcb
    <2>5. Acked(x, i, s) = Put(x, i, p) \/ Acked(x, i, s) = x
      BY DEF Acked
    <2> HIDE DEF p
    <2> QED  BY <2>1, <2>3, <2>4, <2>5, PutHeard
  <1>2. Heard(t, Touched(t, i), i)
    <2> DEFINE p == [t.pcb[i] EXCEPT !.age = 0]
    <2>2. t.pcb[i] \in Pcb
      BY ListTypes
    <2>3. p \in Pcb
      BY <2>2, Fields
    <2>4. p.state = t.pcb[i].state /\ p.port = t.pcb[i].port /\ p.rem = t.pcb[i].rem /\ p.rxclosed = t.pcb[i].rxclosed
      BY <2>2 DEF Pcb
    <2>5. Touched(t, i) = Put(t, i, p) \/ Touched(t, i) = t
      BY DEF Touched
    <2> HIDE DEF p
    <2> QED  BY <1>1, <2>3, <2>4, <2>5, PutHeard
  <1> DEFINE x == Touched(t, i)
  <1>3. Good(x) /\ x.pcb[i].state = t.pcb[i].state /\ x.pcb[i].state # "FREE"
    BY <1>2 DEF Heard, Follows, Changed, Conn, Sent
  <1> HIDE DEF x
  <1>4. Heard(x, Acked(x, i, s), i)
    BY <1>1, <1>3
  <1>5. Heard(t, Acked(x, i, s), i)
    BY <1>2, <1>3, <1>4, FollowsOn DEF Heard, x
  <1> QED  BY <1>1, <1>2, <1>5 DEF x

\* The state of a connection changes to next, and the segment is delivered.
Entered(t, u, i, next) ==
    /\ Follows(t, u, i) /\ u.holds = t.holds /\ u.pcb[i].state = next
    /\ u.pcb[i].rxclosed = t.pcb[i].rxclosed

LEMMA EnterFollows ==
  ASSUME NEW t, Good(t), NEW i \in Ids, t.pcb[i].state \in Sent, NEW next \in Sent,
         NEW u, u \in {Put(t, i, [t.pcb[i] EXCEPT !.state = next]),
                      Put(t, i, [t.pcb[i] EXCEPT !.state = next, !.out = FALSE])}
  PROVE  Entered(t, u, i, next)
  <1> DEFINE p == [t.pcb[i] EXCEPT !.state = next]
             q == [t.pcb[i] EXCEPT !.state = next, !.out = FALSE]
  <1>1. t.pcb[i] \in Pcb
    BY ListTypes
  <1>2. p \in Pcb /\ q \in Pcb
    BY <1>1, Fields
  <1>3. /\ p.state = next /\ p.port = t.pcb[i].port /\ p.rem = t.pcb[i].rem /\ p.rxclosed = t.pcb[i].rxclosed
        /\ q.state = next /\ q.port = t.pcb[i].port /\ q.rem = t.pcb[i].rem /\ q.rxclosed = t.pcb[i].rxclosed
    BY <1>1 DEF Pcb
  <1>6. u \in {Put(t, i, p), Put(t, i, q)}
    OBVIOUS
  <1> HIDE DEF p, q
  <1>4. SameList(t.pcb[i], p) /\ SameList(t.pcb[i], q)
    BY <1>3 DEF SameList
  <1> QED  BY <1>2, <1>3, <1>4, <1>6, PutFollows DEF Entered

LEMMA FinOrNot == ASSUME NEW s PROVE GotFin(s) \in BOOLEAN
  BY DEF GotFin

\* A segment of a connection that stands.
LEMMA ConnectedFollows ==
  ASSUME NEW t, Good(t), NEW i \in Ids, t.pcb[i].state \in Sent \ {"SYN_SENT", "SYN_RCVD"},
         HeldWell(t, i), NEW s, s.data \in BOOLEAN, NEW c
  PROVE  Outcome(t, Connected(t, i, s, c), i)
  <1> DEFINE v == Acked(Touched(t, i), i, s)
             next == NextState(v.pcb[i].state, s)
             u == Connected(t, i, s, c)
             state == t.pcb[i].state
  <1>1. Heard(t, v, i)
    BY AckHeard DEF Conn
  <1> HIDE DEF v
  <1>2. Good(v) /\ v.pcb[i].state = state /\ state # "FREE" /\ state # "TIME_WAIT" /\ state \in Sent
    BY <1>1 DEF Heard, Follows, Changed, Sent
  <1>3. CASE next = "FREE"
    <2>1. state = "LAST_ACK"
      BY <1>2, <1>3 DEF NextState
    <2>2. u = Release(Deactivate(IF v.pcb[i].rxclosed THEN v ELSE LetGo(v, i), i), i)
      BY <1>3 DEF Connected, v
    <2>3. CASE v.pcb[i].rxclosed
      <3>1. i \notin v.holds
        BY <1>1, <2>1, <2>3 DEF Heard, HeldWell
      <3>2. FreedFrom(v, u, i)
        BY <1>2, <2>2, <2>3, <3>1, Freed, ZenonT(40) DEF Deactivate
      <3> HIDE DEF u
      <3>3. Follows(t, u, i)
        BY <1>1, <1>2, <3>2, FreedFollows, FollowsOn DEF Heard
      <3>4. i \notin u.holds
        BY <3>1, <3>2 DEF FreedFrom
      <3> QED  BY <3>3, <3>4 DEF Outcome, HeldWell, u
    <2>4. CASE ~v.pcb[i].rxclosed
      <3>1. /\ Follows(v, LetGo(v, i), i) /\ LetGo(v, i).pcb[i] = v.pcb[i] /\ i \notin LetGo(v, i).holds
        BY <1>2, LetGoFollows
      <3>2. FreedFrom(LetGo(v, i), u, i)
        BY <1>2, <2>2, <2>4, ToldAndFreed
      <3> HIDE DEF u
      <3>3. Follows(t, u, i)
        BY <1>1, <1>2, <3>1, <3>2, FreedFollows, FollowsOn DEF Heard
      <3>4. i \notin u.holds
        BY <3>1, <3>2 DEF FreedFrom
      <3> QED  BY <3>3, <3>4 DEF Outcome, HeldWell, u
    <2> QED  BY <2>3, <2>4
  <1>4. CASE next = "TIME_WAIT"
    <2> DEFINE w == ToTimeWait(v, i)
    <2>1. u = Deliver(w, i, s.data, GotFin(s), c)
      BY <1>4 DEF Connected, v
    <2>2. GotFin(s) \/ state = "CLOSING"
      BY <1>2, <1>4 DEF NextState
    <2>3. Follows(v, w, i) /\ w.pcb[i] = TimeWaiting(v.pcb[i]) /\ w.holds = v.holds
      BY <1>2, ToTimeWaitFollows
    <2>4. w.pcb[i].state = "TIME_WAIT" /\ w.pcb[i].rxclosed = v.pcb[i].rxclosed
      <3>1. v.pcb[i] \in Pcb
        BY <1>2, ListTypes
      <3> QED  BY <2>3, <3>1 DEF TimeWaiting, Pcb
    <2> HIDE DEF w
    <2>5. i \in w.holds => w.pcb[i].rxclosed = FALSE
      <3>1. state \in {"FIN_WAIT_1", "FIN_WAIT_2", "CLOSING"}
        BY <1>2, <1>4 DEF NextState
      <3> QED  BY <1>1, <2>3, <2>4, <3>1 DEF Heard, HeldWell
    <2>6. Good(w) /\ w.pcb[i].state \in Conn
      BY <2>3, <2>4 DEF Follows, Changed, Conn
    <2> HIDE DEF u
    <2>7. Follows(w, u, i) /\ Unnoticed(w, u, i) /\ (GotFin(s) => Over(u, i))
      BY <2>1, <2>5, <2>6, DeliverFollows, FinOrNot
    <2>8. i \notin u.holds
      <3>1. CASE GotFin(s)
        BY <2>4, <2>7, <3>1 DEF Over, Unnoticed
      <3>2. CASE state = "CLOSING"
        BY <1>1, <2>3, <2>7, <3>2 DEF Unnoticed, Heard, HeldWell, HeldStates
      <3> QED  BY <2>2, <3>1, <3>2
    <2>9. Follows(t, u, i)
      <3>1. Follows(t, w, i)
        BY <1>1, <1>2, <2>3, FollowsOn DEF Heard
      <3> QED  BY <2>4, <2>7, <3>1, FollowsOn
    <2> QED  BY <2>8, <2>9 DEF Outcome, HeldWell, u
  <1>5. CASE next \notin {"FREE", "TIME_WAIT"}
    <2> DEFINE w == Put(v, i, [v.pcb[i] EXCEPT !.state = next])
    <2>1. u = Deliver(w, i, s.data, GotFin(s), c)
      BY <1>5 DEF Connected, v
    <2>2. /\ next \in Sent
          /\ \/ next = state
             \/ next = "CLOSE_WAIT" /\ state = "ESTABLISHED"
             \/ next = "CLOSING" /\ GotFin(s)
             \/ next = "FIN_WAIT_2" /\ state = "FIN_WAIT_1"
      BY <1>2, <1>5 DEF NextState, Sent
    <2> HIDE DEF next
    <2>a. Entered(v, w, i, next)
      BY <1>2, <2>2, EnterFollows
    <2>3. /\ Follows(v, w, i) /\ w.holds = v.holds /\ w.pcb[i].state = next
          /\ w.pcb[i].rxclosed = v.pcb[i].rxclosed
      BY <2>a DEF Entered
    <2> HIDE DEF w
    <2>4. Good(w) /\ w.pcb[i].state \in Conn /\ w.pcb[i].state # "TIME_WAIT"
      BY <1>5, <2>2, <2>3 DEF Follows, Changed, Conn
    <2> HIDE DEF u
    <2>5. Follows(w, u, i) /\ Unnoticed(w, u, i) /\ (GotFin(s) => Over(u, i))
      BY <2>1, <2>4, DeliverFollows, FinOrNot
    <2>6. Follows(t, u, i)
      <3>1. Follows(t, w, i)
        BY <1>1, <1>2, <2>3, FollowsOn DEF Heard
      <3> QED  BY <1>5, <2>3, <2>5, <3>1, FollowsOn
    <2>7. HeldWell(u, i)
      <3> SUFFICES ASSUME i \in u.holds PROVE HeldWell(u, i)
        BY DEF HeldWell
      <3>1. /\ i \in t.holds /\ u.pcb[i].state = next /\ u.pcb[i].rxclosed = t.pcb[i].rxclosed
            /\ GotFin(s) => next # "CLOSING"
        BY <1>1, <2>3, <2>5 DEF Unnoticed, Over, Heard
      <3> QED  BY <2>2, <3>1 DEF HeldWell, HeldStates
    <2> QED  BY <2>6, <2>7 DEF Outcome, u
  <1> QED  BY <1>3, <1>4, <1>5

\* The accept callback.
LEMMA AcceptFollows ==
  ASSUME NEW t, Good(t), NEW i \in Ids, t.pcb[i].state = "SYN_RCVD", i \notin t.holds,
         NEW s, s.data \in BOOLEAN, NEW c
  PROVE  Outcome(t, Accept(t, i, s, c), i)
  <1> DEFINE u == Accept(t, i, s, c)
  <1>0. t.pcb[i].state \in Sent /\ t.pcb[i].state \in Conn
    BY DEF Sent, Conn
  <1>1. CASE c = "abort"
    <2> DEFINE v == Touched(t, i)
    <2>1. Heard(t, v, i)
      BY <1>0, AckHeard
    <2>2. u = tcp_abandon(v, i)
      BY <1>1 DEF Accept
    <2> HIDE DEF v, u
    <2>3. Good(v) /\ v.pcb[i].state \in Conn /\ v.pcb[i].state # "TIME_WAIT" /\ v.pcb[i].state # "FREE"
      BY <1>0, <2>1 DEF Heard, Follows, Changed
    <2>4. Follows(v, u, i) /\ i \notin u.holds
      BY <2>2, <2>3, AbandonFollows
    <2> QED  BY <2>1, <2>3, <2>4, FollowsOn DEF Heard, Outcome, HeldWell, u
  <1>2. CASE c # "abort"
    <2> DEFINE v == Acked(Touched(t, i), i, s)
               next == NextState("ESTABLISHED", s)
               w == Put(v, i, [v.pcb[i] EXCEPT !.state = next])
               x == [w EXCEPT !.holds = @ \cup {i}]
    <2>1. u = Deliver(x, i, s.data, GotFin(s), c)
      BY <1>2 DEF Accept
    <2>2. next \in {"ESTABLISHED", "CLOSE_WAIT"} /\ next \in Sent
      BY DEF NextState, Sent
    <2>3. Heard(t, v, i)
      BY <1>0, AckHeard
    <2> HIDE DEF v, next, u
    <2>4. Good(v) /\ v.pcb[i].state \in Sent /\ v.pcb[i].state # "FREE"
      BY <1>0, <2>3 DEF Heard, Follows, Changed
    <2>a. Entered(v, w, i, next)
      BY <2>2, <2>4, EnterFollows
    <2>5. Follows(v, w, i) /\ w.pcb[i].state = next
      BY <2>a DEF Entered
    <2> HIDE DEF w
    <2>6. Good(w)
      BY <2>5 DEF Follows, Changed
    <2>7. Changed(w, x, i, w.pcb[i])
      BY <2>6, HoldStays
    <2> HIDE DEF x
    <2>8. Good(x) /\ x.pcb[i].state = next /\ next \in Conn /\ next # "TIME_WAIT" /\ next # "FREE"
      BY <2>2, <2>5, <2>7 DEF Changed, Conn
    <2>9. Follows(w, x, i)
      BY <2>5, <2>7, <2>8 DEF Follows, Changed, SameOne
    <2>10. Follows(x, u, i) /\ Unnoticed(x, u, i)
      BY <2>1, <2>8, DeliverFollows, FinOrNot
    <2>11. HeldWell(u, i)
      BY <2>2, <2>8, <2>10 DEF HeldWell, HeldStates, Unnoticed
    <2>12. Follows(t, u, i)
      <3>1. Follows(t, w, i)
        BY <2>3, <2>4, <2>5, FollowsOn DEF Heard
      <3>2. Follows(t, x, i)
        BY <2>5, <2>8, <2>9, <3>1, FollowsOn
      <3> QED  BY <2>8, <2>10, <3>2, FollowsOn
    <2> QED  BY <2>11, <2>12 DEF Outcome, u
  <1> QED  BY <1>1, <1>2

\* The connected callback.
LEMMA EstablishFollows ==
  ASSUME NEW t, Good(t), NEW i \in Ids, t.pcb[i].state = "SYN_SENT", NEW c
  PROVE  Outcome(t, Establish(t, i, c), i)
  <1> DEFINE u == Establish(t, i, c)
             v == Touched(t, i)
             w == Put(v, i, [v.pcb[i] EXCEPT !.state = "ESTABLISHED", !.out = FALSE])
  <1>0. t.pcb[i].state \in Sent /\ t.pcb[i].state \in Conn /\ "ESTABLISHED" \in Sent /\ "ESTABLISHED" \in Conn
    BY DEF Sent, Conn
  <1>1. u = React(w, i, c)
    BY DEF Establish
  <1>2. Heard(t, v, i)
    BY <1>0, AckHeard
  <1> HIDE DEF v, u
  <1>3. Good(v) /\ v.pcb[i].state \in Sent /\ v.pcb[i].state # "FREE"
    BY <1>0, <1>2 DEF Heard, Follows, Changed
  <1>a. Entered(v, w, i, "ESTABLISHED")
    BY <1>0, <1>3, EnterFollows
  <1>4. Follows(v, w, i) /\ w.pcb[i].state = "ESTABLISHED"
    BY <1>a DEF Entered
  <1> HIDE DEF w
  <1>5. Good(w)
    BY <1>4 DEF Follows, Changed
  <1>6. Follows(w, u, i) /\ Unnoticed(w, u, i)
    BY <1>0, <1>1, <1>4, <1>5, ReactFollows
  <1>7. Follows(t, u, i)
    <2>1. Follows(t, w, i)
      BY <1>2, <1>3, <1>4, FollowsOn DEF Heard
    <2> QED  BY <1>4, <1>6, <2>1, FollowsOn
  <1>8. HeldWell(u, i)
    BY <1>4, <1>6 DEF HeldWell, HeldStates, Unnoticed
  <1> QED  BY <1>7, <1>8 DEF Outcome, u

\* tcp_process.
LEMMA ProcessFollows ==
  ASSUME NEW t, Good(t), NEW i \in Ids, t.pcb[i].state \in Sent, HeldWell(t, i),
         NEW s, s.data \in BOOLEAN, NEW c
  PROVE  Outcome(t, Process(t, i, s, c), i)
  <1> DEFINE u == Process(t, i, s, c)
             state == t.pcb[i].state
  <1>1. state \in Conn /\ state # "FREE"
    BY DEF Sent, Conn
  <1>2. Outcome(t, t, i)
    BY <1>1, Stays DEF Outcome
  <1>3. ASSUME NEW x, Heard(t, x, i) PROVE Outcome(t, x, i)
    BY <1>3 DEF Heard, Outcome, HeldWell
  <1>4. CASE "RST" \in s.flags
    <2>1. u = Release(Deactivate(LetGo(t, i), i), i) \/ u = t
      BY <1>4 DEF Process
    <2>2. Follows(t, LetGo(t, i), i) /\ LetGo(t, i).pcb[i] = t.pcb[i] /\ i \notin LetGo(t, i).holds
      BY <1>1, LetGoFollows
    <2>3. FreedFrom(LetGo(t, i), Release(Deactivate(LetGo(t, i), i), i), i)
      BY ToldAndFreed
    <2> DEFINE x == Release(Deactivate(LetGo(t, i), i), i)
    <2> HIDE DEF x
    <2>4. Follows(t, x, i)
      BY <1>1, <2>2, <2>3, FreedFollows, FollowsOn DEF x
    <2>5. i \notin x.holds
      BY <2>2, <2>3 DEF FreedFrom, x
    <2>6. Outcome(t, x, i)
      BY <2>4, <2>5 DEF Outcome, HeldWell
    <2> QED  BY <1>2, <2>1, <2>6 DEF x
  <1>5. CASE "RST" \notin s.flags /\ state = "SYN_SENT"
    <2>1. u = Establish(t, i, c) \/ u = Touched(t, i)
      BY <1>5 DEF Process
    <2>2. Outcome(t, Establish(t, i, c), i)
      BY <1>5, EstablishFollows
    <2>3. Outcome(t, Touched(t, i), i)
      BY <1>1, <1>3, AckHeard
    <2> QED  BY <2>1, <2>2, <2>3
  <1>6. CASE "RST" \notin s.flags /\ state = "SYN_RCVD"
    <2>1. u = Accept(t, i, s, c) \/ u = Touched(t, i)
      BY <1>6 DEF Process
    <2>2. i \notin t.holds
      BY <1>6 DEF HeldWell, HeldStates
    <2>3. Outcome(t, Accept(t, i, s, c), i)
      BY <1>6, <2>2, AcceptFollows
    <2>4. Outcome(t, Touched(t, i), i)
      BY <1>1, <1>3, AckHeard
    <2> QED  BY <2>1, <2>3, <2>4
  <1>7. CASE "RST" \notin s.flags /\ state \notin {"SYN_SENT", "SYN_RCVD"}
    <2>1. u = t \/ u = Connected(t, i, s, c)
      BY <1>7 DEF Process
    <2>2. Outcome(t, Connected(t, i, s, c), i)
      BY <1>7, ConnectedFollows
    <2> QED  BY <1>2, <2>1, <2>2
  <1> QED  BY <1>4, <1>5, <1>6, <1>7

-----------------------------------------------------------------------------
\* All PCBs together.
Sane(t) == Good(t) /\ \A i \in Ids : HeldWell(t, i)

\* Every PCB with a port is on a list; a bound one has its port to itself; and
\* no two connections have the same port and peer.
Unshared(t) ==
    /\ \A i \in Ids : t.pcb[i].state = "CLOSED" /\ t.pcb[i].port # 0 =>
         /\ i \in ToSet(t.bound) /\ t.pcb[i].port \notin t.listen
         /\ \A j \in Ids \ {i} : t.pcb[j].state # "FREE" => t.pcb[j].port # t.pcb[i].port
    /\ \A i, j \in Ids : i # j /\ t.pcb[i].state \in Conn /\ t.pcb[j].state \in Conn =>
         t.pcb[i].port # t.pcb[j].port \/ t.pcb[i].rem # t.pcb[j].rem

LEMMA OutcomeSane ==
  ASSUME NEW t, Sane(t), NEW u, NEW i \in Ids, Outcome(t, u, i)
  PROVE  Sane(u)
  BY DEF Sane, Outcome, Follows, Changed, HeldWell

LEMMA FollowsUnshared ==
  ASSUME NEW t, Unshared(t), NEW u, NEW i \in Ids, Follows(t, u, i), u.pcb[i].state # "CLOSED"
  PROVE  Unshared(u)
  <1>1. /\ u.listen = t.listen
        /\ \A j \in Ids \ {i} : u.pcb[j] = t.pcb[j] /\ (j \in ToSet(u.bound) <=> j \in ToSet(t.bound))
    BY DEF Follows, Changed
  <1>2. /\ u.pcb[i].state # "FREE" => /\ u.pcb[i].port = t.pcb[i].port /\ u.pcb[i].rem = t.pcb[i].rem
                                     /\ t.pcb[i].state # "FREE"
        /\ u.pcb[i].state \in Conn => t.pcb[i].state \in Conn
    BY DEF Follows, SameOne, Conn, Sent
  <1>3. ASSUME NEW j \in Ids, u.pcb[j].state = "CLOSED", u.pcb[j].port # 0
        PROVE  /\ j \in ToSet(u.bound) /\ u.pcb[j].port \notin u.listen
               /\ \A k \in Ids \ {j} : u.pcb[k].state # "FREE" => u.pcb[k].port # u.pcb[j].port
    <2>1. j # i /\ u.pcb[j] = t.pcb[j]
      BY <1>1, <1>3
    <2> QED  BY <1>1, <1>2, <1>3, <2>1 DEF Unshared
  <1>4. ASSUME NEW j \in Ids, NEW k \in Ids, j # k, u.pcb[j].state \in Conn, u.pcb[k].state \in Conn
        PROVE  u.pcb[j].port # u.pcb[k].port \/ u.pcb[j].rem # u.pcb[k].rem
    <2>1. u.pcb[j].state # "FREE" /\ u.pcb[k].state # "FREE"
      BY <1>4 DEF Conn, Sent
    <2> QED  BY <1>1, <1>2, <1>4, <2>1 DEF Unshared
  <1> QED  BY <1>3, <1>4 DEF Unshared

LEMMA OldestOnList ==
  ASSUME NEW t, Good(t), NEW q \in Seq(Ids), q # <<>>
  PROVE  OldestPcb(t, q) \in ToSet(q)
  <1> DEFINE Age(k) == t.pcb[q[k]].age
             A == {Age(k) : k \in DOMAIN q}
             S == {k \in DOMAIN q : \A m \in DOMAIN q : Age(m) <= Age(k)}
  <1>1. DOMAIN q = 1 .. Len(q) /\ Len(q) \in Nat /\ Len(q) > 0 /\ \A k \in DOMAIN q : q[k] \in Ids
    OBVIOUS
  <1>2. AgeCap \in Nat
    BY PcbsAssumption DEF AgeCap
  <1>3. \A k \in DOMAIN q : Age(k) \in 0 .. AgeCap
    BY <1>1, ListTypes DEF Pcb
  <1> HIDE DEF Age
  <1>4. A \subseteq 0 .. AgeCap /\ A # {}
    <2>1. 1 \in DOMAIN q
      BY <1>1
    <2> QED  BY <1>3, <2>1
  <1>5. Max(A) \in A /\ \A x \in A : x <= Max(A)
    BY <1>2, <1>4, MaxOfBounded
  <1>6. S # {}
    <2>1. PICK k \in DOMAIN q : Max(A) = Age(k)
      BY <1>5
    <2> QED  BY <1>5, <2>1
  <1>7. S \subseteq 0 .. Len(q)
    BY <1>1
  <1>8. Max(S) \in S
    BY <1>1, <1>6, <1>7, MaxOfBounded
  <1>9. OldestPcb(t, q) = q[Max(S)]
    BY DEF OldestPcb, Age
  <1> QED  BY <1>8, <1>9 DEF ToSet

\* Room is made for a new PCB: at most one is freed for it.
OneLess(t, u) ==
    /\ Sane(u) /\ u.listen = t.listen
    /\ Unshared(t) => Unshared(u)
    /\ \A j \in Ids : u.pcb[j] = t.pcb[j] \/ u.pcb[j].state = "FREE"

LEMMA AbandonOne ==
  ASSUME NEW t, Sane(t), NEW i \in Ids, t.pcb[i].state \in Conn
  PROVE  OneLess(t, tcp_abandon(t, i))
  <1> DEFINE u == tcp_abandon(t, i)
  <1>1. t.pcb[i].state = "TIME_WAIT" => i \notin t.holds
    BY DEF Sane, HeldWell, HeldStates
  <1>2. Follows(t, u, i) /\ u.pcb[i].state = "FREE" /\ i \notin u.holds
    BY <1>1, AbandonFollows DEF Sane
  <1> HIDE DEF u
  <1>3. Outcome(t, u, i)
    BY <1>2 DEF Outcome, HeldWell
  <1>4. Sane(u) /\ (Unshared(t) => Unshared(u))
    BY <1>2, <1>3, OutcomeSane, FollowsUnshared
  <1>5. u.listen = t.listen /\ \A j \in Ids : u.pcb[j] = t.pcb[j] \/ u.pcb[j].state = "FREE"
    BY <1>2 DEF Follows, Changed
  <1> QED  BY <1>4, <1>5 DEF OneLess, u

LEMMA MakeRoomSane ==
  ASSUME NEW t, Sane(t)
  PROVE  OneLess(t, MakeRoom(t))
  <1>0. Good(t) /\ t.active \in Seq(Ids) /\ t.tw \in Seq(Ids)
    BY ListTypes DEF Sane
  <1>1. CASE FreeIds(t) = {} /\ t.tw # <<>>
    <2> DEFINE i == OldestPcb(t, t.tw)
    <2>1. i \in ToSet(t.tw)
      BY <1>0, <1>1, OldestOnList
    <2>2. i \in Ids
      BY <1>0, <2>1 DEF ToSet
    <2>3. t.pcb[i].state \in Conn
      BY <1>0, <2>1, <2>2 DEF Good, Conn
    <2>4. MakeRoom(t) = tcp_abandon(t, i)
      BY <1>1 DEF MakeRoom
    <2> QED  BY <2>2, <2>3, <2>4, AbandonOne
  <1>2. CASE FreeIds(t) = {} /\ t.tw = <<>> /\ t.active # <<>>
    <2> DEFINE i == OldestPcb(t, t.active)
    <2>1. i \in ToSet(t.active)
      BY <1>0, <1>2, OldestOnList
    <2>2. i \in Ids
      BY <1>0, <2>1 DEF ToSet
    <2>3. t.pcb[i].state \in Conn
      BY <1>0, <2>1, <2>2 DEF Good, Conn
    <2>4. MakeRoom(t) = tcp_abandon(t, i)
      BY <1>2 DEF MakeRoom
    <2> QED  BY <2>2, <2>3, <2>4, AbandonOne
  <1>3. CASE FreeIds(t) # {} \/ (t.tw = <<>> /\ t.active = <<>>)
    <2>1. MakeRoom(t) = t
      BY <1>3 DEF MakeRoom
    <2> QED  BY <2>1 DEF OneLess
  <1> QED  BY <1>1, <1>2, <1>3

LEMMA NewIsFree ==
  ASSUME NEW t, FreeIds(t) # {}
  PROVE  New(t) \in Ids /\ t.pcb[New(t)].state = "FREE"
  <1>1. FreeIds(t) \subseteq Nat
    BY PcbsAssumption DEF FreeIds
  <1>2. New(t) \in FreeIds(t)
    BY <1>1, MinOfNats DEF New
  <1> QED  BY <1>2 DEF FreeIds

\* A connection is put on the list of active ones.
LEMMA Entering ==
  ASSUME NEW t, Good(t), NEW i \in Ids, t.pcb[i].state \in {"FREE", "CLOSED"},
         NEW p \in Pcb, p.state \in Sent,
         NEW x, \/ x = Put(t, i, p) /\ t.pcb[i].state = "FREE"
                \/ x = [Put(t, i, p) EXCEPT !.bound = Without(@, i)]
  PROVE  Changed(t, Activate(x, i), i, p) /\ Activate(x, i).holds = t.holds
  <1> DEFINE u == Activate(x, i)
             y == Put(t, i, p)
             a == <<i>> \o t.active
  <1>1. /\ p.state # "TIME_WAIT" /\ p.state # "CLOSED" /\ t.pcb[i].state \notin Sent
        /\ t.pcb[i].state # "TIME_WAIT"
    BY DEF Sent
  <1>2. /\ i \notin ToSet(t.active) /\ i \notin ToSet(t.tw)
        /\ t.pcb[i].state = "FREE" => i \notin ToSet(t.bound)
        /\ Once(t.active) /\ Once(t.tw) /\ Once(t.bound)
    BY <1>1 DEF Good
  <1>3. a \in Seq(Ids) /\ Once(a) /\ ToSet(a) = ToSet(t.active) \cup {i}
    BY <1>2, ListTypes, OneMore
  <1>4. Made(y, t, [t.pcb EXCEPT ![i] = p], t.active, t.tw, t.bound, t.holds)
    BY ListTypes, OfPut
  <1>5. /\ Without(t.bound, i) \in Seq(Ids) /\ Once(Without(t.bound, i))
        /\ ToSet(Without(t.bound, i)) = ToSet(t.bound) \ {i}
    BY <1>2, ListTypes, WithoutOne
  <1>6. PICK b : /\ Made(x, t, [t.pcb EXCEPT ![i] = p], t.active, t.tw, b, t.holds)
                 /\ Once(b) /\ ToSet(b) = ToSet(t.bound) \ {i}
    <2>1. CASE x = y /\ t.pcb[i].state = "FREE"
      <3>1. ToSet(t.bound) = ToSet(t.bound) \ {i}
        BY <1>2, <2>1
      <3> QED  BY <1>2, <1>4, <2>1, <3>1
    <2>2. CASE x = [y EXCEPT !.bound = Without(@, i)]
      <3>1. y \in TcpType /\ y.bound = t.bound
        BY <1>4 DEF Made
      <3> HIDE DEF y
      <3>2. Made(x, y, y.pcb, y.active, y.tw, Without(t.bound, i), y.holds)
        BY <1>5, <2>2, <3>1, OfLists
      <3>3. Made(x, t, [t.pcb EXCEPT ![i] = p], t.active, t.tw, Without(t.bound, i), t.holds)
        BY <1>4, <3>2 DEF Made
      <3> QED  BY <1>5, <3>3
    <2> QED  BY <2>1, <2>2
  <1> HIDE DEF y, a
  <1>7. Made(u, t, [t.pcb EXCEPT ![i] = p], a, t.tw, b, t.holds)
    <2>1. x \in TcpType /\ x.active = t.active
      BY <1>6 DEF Made
    <2>2. u = [x EXCEPT !.active = a]
      BY <2>1 DEF Activate, a
    <2>3. Made(u, x, x.pcb, a, x.tw, x.bound, x.holds)
      BY <1>3, <2>1, <2>2, OfLists
    <2> QED  BY <1>6, <2>3 DEF Made
  <1> HIDE DEF u
  <1>8. Changed(t, u, i, p) /\ u.holds = t.holds
    BY <1>1, <1>2, <1>3, <1>6, <1>7, Change
  <1> QED  BY <1>8 DEF u

-----------------------------------------------------------------------------
\* What every step keeps; the second part if no connect fails.
Kept(t, u) == Sane(u) /\ ("connect" \notin Failures /\ Unshared(t) => Unshared(u))

LEMMA OutcomeKept ==
  ASSUME NEW t, Sane(t), NEW u, NEW i \in Ids, Outcome(t, u, i), u.pcb[i].state # "CLOSED"
  PROVE  Kept(t, u)
  BY OutcomeSane, FollowsUnshared DEF Outcome, Kept

\* A new connection or a new PCB takes place i.
LEMMA EnteredKept ==
  ASSUME NEW t, Sane(t), NEW u, NEW i \in Ids, NEW p, Changed(t, u, i, p), HeldWell(u, i)
  PROVE  Sane(u)
  BY DEF Sane, Changed, HeldWell

LEMMA EnteredUnshared ==
  ASSUME NEW t, Unshared(t), NEW u, NEW i \in Ids, NEW p, Changed(t, u, i, p), p.state \in Conn,
         \A j \in Ids \ {i} : t.pcb[j].state = "CLOSED" /\ t.pcb[j].port # 0 => t.pcb[j].port # p.port,
         \A j \in Ids \ {i} : t.pcb[j].state \in Conn => t.pcb[j].port # p.port \/ t.pcb[j].rem # p.rem
  PROVE  Unshared(u)
  <1>1. /\ u.listen = t.listen /\ u.pcb[i] = p /\ p.state # "CLOSED"
        /\ \A j \in Ids \ {i} : u.pcb[j] = t.pcb[j] /\ (j \in ToSet(u.bound) <=> j \in ToSet(t.bound))
    BY DEF Changed, Conn, Sent
  <1>2. ASSUME NEW j \in Ids, u.pcb[j].state = "CLOSED", u.pcb[j].port # 0
        PROVE  /\ j \in ToSet(u.bound) /\ u.pcb[j].port \notin u.listen
               /\ \A k \in Ids \ {j} : u.pcb[k].state # "FREE" => u.pcb[k].port # u.pcb[j].port
    <2>1. j # i /\ u.pcb[j] = t.pcb[j]
      BY <1>1, <1>2
    <2> QED  BY <1>1, <1>2, <2>1 DEF Unshared
  <1>3. ASSUME NEW j \in Ids, NEW k \in Ids, j # k, u.pcb[j].state \in Conn, u.pcb[k].state \in Conn
        PROVE  u.pcb[j].port # u.pcb[k].port \/ u.pcb[j].rem # u.pcb[k].rem
    BY <1>1, <1>3 DEF Unshared
  <1> QED  BY <1>2, <1>3 DEF Unshared

LEMMA Concatenated ==
  ASSUME NEW a \in Seq(Ids), NEW b \in Seq(Ids)
  PROVE  a \o b \in Seq(Ids) /\ ToSet(a \o b) = ToSet(a) \cup ToSet(b)
  <1>1. /\ a \o b \in Seq(Ids) /\ DOMAIN a = 1 .. Len(a) /\ DOMAIN b = 1 .. Len(b)
        /\ Len(a) \in Nat /\ Len(b) \in Nat /\ DOMAIN (a \o b) = 1 .. Len(a) + Len(b)
        /\ \A i \in 1 .. Len(a) + Len(b) : (a \o b)[i] = IF i <= Len(a) THEN a[i] ELSE b[i - Len(a)]
    BY Concatenation
  <1> DEFINE c == a \o b
  <1> HIDE DEF c
  <1>2. ASSUME NEW x \in ToSet(c) PROVE x \in ToSet(a) \cup ToSet(b)
    <2>1. PICK k \in 1 .. Len(a) + Len(b) : x = c[k]
      BY <1>1 DEF ToSet, c
    <2>2. CASE k <= Len(a)
      <3>1. k \in DOMAIN a /\ x = a[k]
        BY <1>1, <2>1, <2>2 DEF c
      <3> QED  BY <3>1 DEF ToSet
    <2>3. CASE ~(k <= Len(a))
      <3>1. k - Len(a) \in DOMAIN b /\ x = b[k - Len(a)]
        BY <1>1, <2>1, <2>3 DEF c
      <3> QED  BY <3>1 DEF ToSet
    <2> QED  BY <2>2, <2>3
  <1>3. ASSUME NEW x \in ToSet(a) PROVE x \in ToSet(c)
    <2>1. PICK k \in DOMAIN a : x = a[k]
      BY DEF ToSet
    <2>2. k \in 1 .. Len(a) + Len(b) /\ k <= Len(a)
      BY <1>1
    <2>3. k \in DOMAIN c /\ c[k] = x
      BY <1>1, <2>1, <2>2 DEF c
    <2> QED  BY <2>3 DEF ToSet
  <1>4. ASSUME NEW x \in ToSet(b) PROVE x \in ToSet(c)
    <2>1. PICK k \in DOMAIN b : x = b[k]
      BY DEF ToSet
    <2>2. k + Len(a) \in 1 .. Len(a) + Len(b) /\ ~(k + Len(a) <= Len(a)) /\ (k + Len(a)) - Len(a) = k
      BY <1>1
    <2>3. k + Len(a) \in DOMAIN c /\ c[k + Len(a)] = x
      BY <1>1, <2>1, <2>2 DEF c
    <2> QED  BY <2>3 DEF ToSet
  <1> QED  BY <1>1, <1>2, <1>3, <1>4 DEF c

\* tcp_input, for a connection that is found.
LEMMA ActiveKept ==
  ASSUME Sane(tcp), NEW s \in Segments, Active(s)
  PROVE  Kept(tcp, tcp')
  <1>0. PICK i \in Found(tcp, tcp.active, s) : \E c \in Reactions(tcp, i, s) :
          tcp' = Process([tcp EXCEPT !.active = <<i>> \o Without(@, i)], i, s, c)
    BY DEF Active
  <1>1. PICK c : tcp' = Process([tcp EXCEPT !.active = <<i>> \o Without(@, i)], i, s, c)
    BY <1>0
  <1> DEFINE t == [tcp EXCEPT !.active = <<i>> \o Without(@, i)]
             a == Without(tcp.active, i)
             u == tcp'
  <1>2. /\ Good(tcp) /\ tcp.active \in Seq(Ids) /\ tcp \in TcpType
        /\ Once(tcp.active) /\ Once(tcp.tw) /\ Once(tcp.bound)
    BY ListTypes DEF Sane, Good
  <1>3. i \in ToSet(tcp.active) /\ i \in Ids
    BY <1>2 DEF Found, ToSet
  <1>4. a \in Seq(Ids) /\ Once(a) /\ ToSet(a) = ToSet(tcp.active) \ {i}
    BY <1>2, WithoutOne
  <1>5. /\ <<i>> \o a \in Seq(Ids) /\ Once(<<i>> \o a) /\ ToSet(<<i>> \o a) = ToSet(tcp.active)
    <2>1. i \notin ToSet(a)
      BY <1>4
    <2> HIDE DEF a
    <2>2. <<i>> \o a \in Seq(Ids) /\ Once(<<i>> \o a) /\ ToSet(<<i>> \o a) = ToSet(a) \cup {i}
      BY <1>3, <1>4, <2>1, OneMore
    <2>3. (ToSet(tcp.active) \ {i}) \cup {i} = ToSet(tcp.active)
      BY <1>3
    <2> QED  BY <1>4, <2>2, <2>3
  <1>6. Made(t, tcp, tcp.pcb, <<i>> \o a, tcp.tw, tcp.bound, tcp.holds)
    BY <1>2, <1>5, OfLists
  <1> HIDE DEF t, a
  <1>7. Sane(t) /\ (Unshared(tcp) => Unshared(t))
    <2>1. Good(t)
      BY <1>2, <1>5, <1>6 DEF Good, Made
    <2> QED  BY <1>6, <2>1 DEF Sane, HeldWell, Unshared, Made
  <1>8. t.pcb[i].state \in Sent /\ HeldWell(t, i) /\ Good(t)
    BY <1>2, <1>3, <1>6, <1>7 DEF Sane, Good, Made
  <1>9. s.data \in BOOLEAN
    BY DEF Segments
  <1>10. Outcome(t, u, i)
    <2>1. u = Process(t, i, s, c)
      BY <1>1 DEF t
    <2> QED  BY <1>3, <1>8, <1>9, <2>1, ProcessFollows
  <1>11. u.pcb[i].state # "CLOSED"
    BY <1>8, <1>10 DEF Outcome, Follows, SameOne, Conn, Sent
  <1>12. Kept(t, u)
    BY <1>3, <1>7, <1>10, <1>11, OutcomeKept
  <1> QED  BY <1>7, <1>12 DEF Kept

\* tcp_timewait_input.
LEMMA TimeWaitKept ==
  ASSUME Sane(tcp), NEW s, TimeWait(s)
  PROVE  Kept(tcp, tcp')
  <1>1. PICK i \in Found(tcp, tcp.tw, s) :
          tcp' = IF "FIN" \in s.flags THEN Put(tcp, i, [tcp.pcb[i] EXCEPT !.age = 0]) ELSE tcp
    BY DEF TimeWait
  <1> DEFINE p == [tcp.pcb[i] EXCEPT !.age = 0]
  <1>2. Good(tcp) /\ tcp.tw \in Seq(Ids)
    BY ListTypes DEF Sane
  <1>3. i \in Ids /\ tcp.pcb[i].state = "TIME_WAIT"
    BY <1>2 DEF Found, ToSet, Good
  <1>4. tcp.pcb[i] \in Pcb
    BY <1>2, <1>3, ListTypes
  <1>5. p \in Pcb
    BY <1>4, Fields
  <1>6. /\ p.state = tcp.pcb[i].state /\ p.port = tcp.pcb[i].port /\ p.rem = tcp.pcb[i].rem
        /\ p.rxclosed = tcp.pcb[i].rxclosed
    BY <1>4 DEF Pcb
  <1>7. tcp' = Put(tcp, i, p) \/ tcp' = tcp
    BY <1>1
  <1> HIDE DEF p
  <1>8. Heard(tcp, Put(tcp, i, p), i)
    BY <1>2, <1>3, <1>5, <1>6, PutHeard DEF Conn
  <1> DEFINE u == Put(tcp, i, p)
  <1> HIDE DEF u
  <1>9. Outcome(tcp, u, i) /\ u.pcb[i].state # "CLOSED"
    BY <1>3, <1>8 DEF Heard, Outcome, HeldWell, Sane, u
  <1>10. Kept(tcp, u)
    BY <1>3, <1>9, OutcomeKept
  <1>11. Kept(tcp, tcp)
    BY DEF Kept
  <1> QED  BY <1>7, <1>10, <1>11 DEF u

\* tcp_listen_input.
LEMMA ListenKept ==
  ASSUME Sane(tcp), NEW s \in Segments, Listen(s)
  PROVE  Kept(tcp, tcp')
  <1> DEFINE t == MakeRoom(tcp)
             i == New(t)
             p == [InPool EXCEPT !.state = "SYN_RCVD", !.out = TRUE, !.rem = s.rem, !.port = s.port]
             u == Activate(Put(t, i, p), i)
  <1>1. OneLess(tcp, t)
    BY MakeRoomSane
  <1>2. tcp' = t \/ (FreeIds(t) # {} /\ tcp' = u)
    BY DEF Listen, Arrives
  <1>3. s.port \in tcp.listen /\ Found(tcp, tcp.active \o tcp.tw, s) = {}
    BY DEF Listen
  <1>4. /\ s.port \in WellKnown \cup Ephemeral /\ s.rem \in Remotes
    BY DEF Segments
  <1>6. p \in Pcb /\ p.state = "SYN_RCVD" /\ p.port = s.port /\ p.rem = s.rem
    <2> DEFINE p1 == [InPool EXCEPT !.state = "SYN_RCVD"]
               p2 == [p1 EXCEPT !.out = TRUE]
               p3 == [p2 EXCEPT !.rem = s.rem]
    <2>1. p1 \in Pcb /\ p1.state = "SYN_RCVD"
      BY InPoolType DEF Pcb, Sent
    <2> HIDE DEF p1
    <2>2. p2 \in Pcb /\ p2.state = "SYN_RCVD"
      BY <2>1 DEF Pcb
    <2> HIDE DEF p2
    <2>3. p3 \in Pcb /\ p3.state = "SYN_RCVD" /\ p3.rem = s.rem
      BY <1>4, <2>2 DEF Pcb
    <2> HIDE DEF p3
    <2>4. p = [p3 EXCEPT !.port = s.port]
      BY DEF p1, p2, p3
    <2> HIDE DEF p
    <2> QED  BY <1>4, <2>3, <2>4 DEF Pcb
  <1> HIDE DEF t, p
  <1>7. Kept(tcp, t)
    BY <1>1 DEF OneLess, Kept
  <1>8. ASSUME FreeIds(t) # {} PROVE Kept(tcp, u)
    <2>1. i \in Ids /\ t.pcb[i].state = "FREE"
      BY <1>8, NewIsFree
    <2> HIDE DEF i
    <2>2. Good(t) /\ Sane(t)
      BY <1>1 DEF OneLess, Sane
    <2>3. p.state \in Sent /\ p.state \in Conn
      BY <1>6 DEF Sent, Conn
    <2>4. Changed(t, u, i, p) /\ u.holds = t.holds
      BY <1>6, <2>1, <2>2, <2>3, Entering
    <2>5. i \notin t.holds
      BY <2>1, <2>2 DEF Sane, HeldWell, HeldStates
    <2> HIDE DEF u
    <2>6. Sane(u)
      BY <2>1, <2>2, <2>4, <2>5, EnteredKept DEF HeldWell
    <2>7. ASSUME Unshared(tcp) PROVE Unshared(u)
      <3>1. Unshared(t) /\ t.listen = tcp.listen
        BY <1>1, <2>7 DEF OneLess
      <3>2. ASSUME NEW j \in Ids \ {i}, t.pcb[j].state = "CLOSED", t.pcb[j].port # 0
            PROVE  t.pcb[j].port # p.port
        BY <1>3, <1>6, <3>1, <3>2 DEF Unshared
      <3>3. ASSUME NEW j \in Ids \ {i}, t.pcb[j].state \in Conn
            PROVE  t.pcb[j].port # p.port \/ t.pcb[j].rem # p.rem
        <4>1. t.pcb[j] = tcp.pcb[j]
          BY <1>1, <3>3 DEF OneLess, Conn, Sent
        <4>2. j \in ToSet(tcp.active) \cup ToSet(tcp.tw)
          BY <3>3, <4>1 DEF Sane, Good, Conn
        <4>3. j \in ToSet(tcp.active \o tcp.tw)
          BY <4>2, Concatenated, ListTypes DEF Sane
        <4> QED  BY <1>3, <1>6, <4>1, <4>3 DEF Found
      <3> QED  BY <2>1, <2>3, <2>4, <3>1, <3>2, <3>3, EnteredUnshared
    <2> QED  BY <2>6, <2>7 DEF Kept
  <1> QED  BY <1>2, <1>7, <1>8

\* tcp_new.
LEMMA NewKept ==
  ASSUME Sane(tcp), tcp_new
  PROVE  Kept(tcp, tcp')
  <1> DEFINE t == MakeRoom(tcp)
             i == New(t)
             p == [InPool EXCEPT !.state = "CLOSED"]
             u == Put(t, i, p)
             v == [u EXCEPT !.holds = @ \cup {i}]
  <1>1. OneLess(tcp, t)
    BY MakeRoomSane
  <1>2. FreeIds(t) # {} /\ tcp' = v
    BY DEF tcp_new, tcp_alloc
  <1>3. p \in Pcb /\ p.state = "CLOSED" /\ p.port = 0 /\ p.rxclosed = FALSE
    <2>1. p \in Pcb
      BY InPoolType DEF Pcb
    <2> QED  BY <2>1, InPoolType DEF Pcb
  <1> HIDE DEF t, p
  <1>4. i \in Ids /\ t.pcb[i].state = "FREE"
    BY <1>2, NewIsFree
  <1>5. Good(t) /\ Sane(t)
    BY <1>1 DEF OneLess, Sane
  <1> HIDE DEF i
  <1>6. Changed(t, u, i, p)
    BY <1>3, <1>4, <1>5, PutStays
  <1> HIDE DEF u
  <1>7. Good(u) /\ u.pcb[i] = p
    BY <1>6 DEF Changed
  <1>8. Changed(u, v, i, p)
    BY <1>4, <1>7, HoldStays
  <1> HIDE DEF v
  <1>9. Changed(t, v, i, p)
    BY <1>6, <1>8 DEF Changed
  <1>10. Sane(v)
    <2>1. HeldWell(v, i)
      BY <1>3, <1>9 DEF HeldWell, HeldStates, Changed
    <2> QED  BY <1>4, <1>5, <1>9, <2>1, EnteredKept
  <1>11. ASSUME Unshared(tcp) PROVE Unshared(v)
    <2>1. Unshared(t)
      BY <1>1, <1>11 DEF OneLess
    <2>2. /\ v.listen = t.listen /\ v.pcb[i] = p
          /\ \A j \in Ids \ {i} : v.pcb[j] = t.pcb[j] /\ (j \in ToSet(v.bound) <=> j \in ToSet(t.bound))
      BY <1>9 DEF Changed
    <2>3. "CLOSED" \notin Conn
      BY DEF Conn, Sent
    <2>4. ASSUME NEW j \in Ids, v.pcb[j].state = "CLOSED", v.pcb[j].port # 0
          PROVE  /\ j \in ToSet(v.bound) /\ v.pcb[j].port \notin v.listen
                 /\ \A k \in Ids \ {j} : v.pcb[k].state # "FREE" => v.pcb[k].port # v.pcb[j].port
      <3>1. j # i /\ v.pcb[j] = t.pcb[j]
        BY <1>3, <2>2, <2>4
      <3> QED  BY <1>3, <2>1, <2>2, <2>4, <3>1 DEF Unshared
    <2>5. ASSUME NEW j \in Ids, NEW k \in Ids, j # k, v.pcb[j].state \in Conn, v.pcb[k].state \in Conn
          PROVE  v.pcb[j].port # v.pcb[k].port \/ v.pcb[j].rem # v.pcb[k].rem
      BY <1>3, <2>1, <2>2, <2>3, <2>5 DEF Unshared
    <2> QED  BY <2>4, <2>5 DEF Unshared
  <1> QED  BY <1>2, <1>10, <1>11 DEF Kept

\* A port that is not in use is that of no PCB.
LEMMA NotInUse ==
  ASSUME Sane(tcp), Unshared(tcp), NEW port \in Nat \ {0}, port \notin InUse
  PROVE  port \notin tcp.listen /\ \A j \in Ids : tcp.pcb[j].state # "FREE" => tcp.pcb[j].port # port
  <1> DEFINE q == tcp.bound \o tcp.active \o tcp.tw
  <1>1. Good(tcp) /\ tcp.bound \in Seq(Ids) /\ tcp.active \in Seq(Ids) /\ tcp.tw \in Seq(Ids)
    BY ListTypes DEF Sane
  <1>2. ToSet(q) = ToSet(tcp.bound) \cup ToSet(tcp.active) \cup ToSet(tcp.tw)
    <2> DEFINE r == tcp.bound \o tcp.active
    <2>1. r \in Seq(Ids) /\ ToSet(r) = ToSet(tcp.bound) \cup ToSet(tcp.active)
      BY <1>1, Concatenated
    <2> HIDE DEF r
    <2>2. ToSet(r \o tcp.tw) = ToSet(r) \cup ToSet(tcp.tw)
      BY <1>1, <2>1, Concatenated
    <2> QED  BY <2>1, <2>2 DEF r
  <1> HIDE DEF q
  <1>3. \A j \in ToSet(q) : tcp.pcb[j].port # port
    BY DEF InUse, Ports, q
  <1>4. port \notin tcp.listen
    BY DEF InUse
  <1>5. ASSUME NEW j \in Ids, tcp.pcb[j].state # "FREE", tcp.pcb[j].port = port
        PROVE  FALSE
    <2>1. j \in ToSet(q)
      <3>1. tcp.pcb[j].state \in Conn \cup {"CLOSED"}
        BY <1>1, <1>5, ListTypes DEF Pcb, Conn
      <3>2. CASE tcp.pcb[j].state \in Conn
        BY <1>1, <1>2, <3>2 DEF Good, Conn
      <3>3. CASE tcp.pcb[j].state = "CLOSED"
        BY <1>2, <1>5, <3>3 DEF Unshared
      <3> QED  BY <3>1, <3>2, <3>3
    <2> QED  BY <1>3, <1>5, <2>1
  <1> QED  BY <1>4, <1>5

\* tcp_bind.
LEMMA BindKept ==
  ASSUME Sane(tcp), NEW i \in tcp.holds, NEW port \in WellKnown, tcp_bind(i, port)
  PROVE  Kept(tcp, tcp')
  <1> DEFINE p == [tcp.pcb[i] EXCEPT !.port = port]
             x == Put(tcp, i, p)
             b == <<i>> \o tcp.bound
             u == tcp'
  <1>1. i \in Ids /\ Good(tcp) /\ tcp.pcb[i] \in Pcb /\ HeldWell(tcp, i)
    BY ListTypes DEF Sane
  <1>2. /\ tcp.pcb[i].state = "CLOSED" /\ tcp.pcb[i].port = 0 /\ port \notin InUse
        /\ u = [x EXCEPT !.bound = <<i>> \o @]
    BY DEF tcp_bind
  <1>3. p \in Pcb /\ p.state = "CLOSED" /\ p.port = port /\ p.rxclosed = tcp.pcb[i].rxclosed
    <2>1. p \in Pcb
      BY <1>1, Fields
    <2> QED  BY <1>1, <1>2, <2>1 DEF Pcb
  <1> HIDE DEF p
  <1>4. Made(x, tcp, [tcp.pcb EXCEPT ![i] = p], tcp.active, tcp.tw, tcp.bound, tcp.holds)
    BY <1>1, <1>3, ListTypes, OfPut
  <1>5. port \in Nat \ {0}
    BY PcbsAssumption
  <1>6. i \notin ToSet(tcp.bound) /\ i \notin ToSet(tcp.active) /\ i \notin ToSet(tcp.tw)
        /\ Once(tcp.active) /\ Once(tcp.tw) /\ Once(tcp.bound)
    BY <1>1, <1>2, PcbsAssumption DEF Good, Sent
  <1>7. b \in Seq(Ids) /\ Once(b) /\ ToSet(b) = ToSet(tcp.bound) \cup {i}
    BY <1>1, <1>6, ListTypes, OneMore
  <1> HIDE DEF x, b
  <1>8. Made(u, tcp, [tcp.pcb EXCEPT ![i] = p], tcp.active, tcp.tw, b, tcp.holds)
    <2>1. x \in TcpType /\ u = [x EXCEPT !.bound = b]
      BY <1>2, <1>4 DEF Made, b
    <2>2. Made(u, x, x.pcb, x.active, x.tw, b, x.holds)
      BY <1>7, <2>1, OfLists
    <2> QED  BY <1>4, <2>2 DEF Made
  <1> HIDE DEF u
  <1>9. Changed(tcp, u, i, p) /\ u.holds = tcp.holds
    <2>1. p.state \notin Sent /\ p.state # "TIME_WAIT"
      BY <1>3 DEF Sent
    <2> QED  BY <1>1, <1>3, <1>6, <1>7, <1>8, <2>1, Change
  <1>10. Sane(u)
    <2>1. HeldWell(u, i)
      BY <1>1, <1>2, <1>3, <1>9 DEF HeldWell, Changed
    <2> QED  BY <1>1, <1>9, <2>1, EnteredKept
  <1>11. ASSUME Unshared(tcp) PROVE Unshared(u)
    <2>1. port \notin tcp.listen /\ \A j \in Ids : tcp.pcb[j].state # "FREE" => tcp.pcb[j].port # port
      BY <1>2, <1>5, <1>11, NotInUse
    <2>2. /\ u.listen = tcp.listen /\ u.pcb[i] = p
          /\ \A j \in Ids \ {i} : u.pcb[j] = tcp.pcb[j] /\ (j \in ToSet(u.bound) <=> j \in ToSet(tcp.bound))
      BY <1>9 DEF Changed
    <2>3. i \in ToSet(u.bound)
      BY <1>7, <1>8 DEF Made
    <2>4. "CLOSED" \notin Conn
      BY DEF Conn, Sent
    <2>5. ASSUME NEW j \in Ids, u.pcb[j].state = "CLOSED", u.pcb[j].port # 0
          PROVE  /\ j \in ToSet(u.bound) /\ u.pcb[j].port \notin u.listen
                 /\ \A k \in Ids \ {j} : u.pcb[k].state # "FREE" => u.pcb[k].port # u.pcb[j].port
      <3>1. CASE j = i
        BY <1>3, <2>1, <2>2, <2>3, <3>1
      <3>2. CASE j # i
        <4>1. tcp.pcb[j].state = "CLOSED" /\ tcp.pcb[j].port # 0 /\ tcp.pcb[j].port # port
          BY <2>1, <2>2, <2>5, <3>2
        <4> QED  BY <1>3, <1>11, <2>2, <3>2, <4>1 DEF Unshared
      <3> QED  BY <3>1, <3>2
    <2>6. ASSUME NEW j \in Ids, NEW k \in Ids, j # k, u.pcb[j].state \in Conn, u.pcb[k].state \in Conn
          PROVE  u.pcb[j].port # u.pcb[k].port \/ u.pcb[j].rem # u.pcb[k].rem
      BY <1>3, <1>11, <2>2, <2>4, <2>6 DEF Unshared
    <2> QED  BY <2>5, <2>6 DEF Unshared
  <1> QED  BY <1>10, <1>11 DEF Kept, u

\* Only the listening ports change.
LEMMA ListenOnly ==
  ASSUME NEW t, Sane(t), NEW l \in SUBSET WellKnown, NEW u, u = [t EXCEPT !.listen = l]
  PROVE  /\ Sane(u) /\ u.pcb = t.pcb /\ u.holds = t.holds /\ u.bound = t.bound /\ u.listen = l
  <1>1. t \in TcpType
    BY DEF Sane, Good
  <1>2. /\ u \in TcpType /\ u.pcb = t.pcb /\ u.active = t.active /\ u.tw = t.tw /\ u.bound = t.bound
        /\ u.listen = l /\ u.holds = t.holds /\ u.untold = t.untold
    BY <1>1 DEF TcpType
  <1> QED  BY <1>2 DEF Sane, Good, HeldWell

LEMMA CloseListeningKept ==
  ASSUME Sane(tcp), CloseListening
  PROVE  Kept(tcp, tcp')
  <1>1. PICK port \in tcp.listen : tcp' = [tcp EXCEPT !.listen = @ \ {port}]
    BY DEF CloseListening
  <1> DEFINE l == tcp.listen \ {port}
             u == tcp'
  <1>2. l \in SUBSET WellKnown
    BY ListTypes DEF Sane
  <1>3. u = [tcp EXCEPT !.listen = l]
    BY <1>1
  <1> HIDE DEF u
  <1>4. Sane(u) /\ u.pcb = tcp.pcb /\ u.bound = tcp.bound /\ u.listen = l
    BY <1>2, <1>3, ListenOnly, SMTT(30)
  <1>5. Unshared(tcp) => Unshared(u)
    BY <1>4 DEF Unshared
  <1> QED  BY <1>4, <1>5 DEF Kept, u

\* tcp_listen: the port is now the listener's.
LEMMA TcpListenKept ==
  ASSUME Sane(tcp), NEW i \in tcp.holds, tcp_listen(i)
  PROVE  Kept(tcp, tcp')
  <1> DEFINE port == tcp.pcb[i].port
             l == tcp.listen \cup {port}
             t == [tcp EXCEPT !.listen = l]
             v == LetGo(t, i)
             u == tcp'
  <1>1. i \in Ids /\ Good(tcp) /\ tcp \in TcpType
    BY ListTypes DEF Sane
  <1>2. /\ tcp.pcb[i].state = "CLOSED" /\ i \in ToSet(tcp.bound)
        /\ u = Release(LetGo([tcp EXCEPT !.bound = Without(@, i), !.listen = l], i), i)
    BY DEF tcp_listen
  <1>3. port \in WellKnown /\ l \in SUBSET WellKnown
    BY <1>1, <1>2, ListTypes DEF Good
  <1>4. Sane(t) /\ t.pcb = tcp.pcb /\ t.holds = tcp.holds /\ t.bound = tcp.bound /\ t.listen = l
    BY <1>3, ListenOnly
  <1>5. LetGo([tcp EXCEPT !.bound = Without(@, i), !.listen = l], i) = [v EXCEPT !.bound = Without(@, i)]
    <2> HIDE DEF l
    <2> QED  BY <1>1 DEF LetGo, TcpType
  <1>6. u = Release([v EXCEPT !.bound = Without(@, i)], i)
    BY <1>2, <1>5
  <1> HIDE DEF t, u
  <1>7. Follows(t, v, i) /\ v.pcb[i] = t.pcb[i] /\ i \notin v.holds
    BY <1>1, <1>2, <1>4, LetGoFollows DEF Sane
  <1> HIDE DEF v, l
  <1>8. FreedFrom(v, u, i)
    <2>1. Good(v) /\ v.pcb[i].state = "CLOSED" /\ i \notin v.holds
      BY <1>2, <1>4, <1>7 DEF Follows, Changed
    <2> QED  BY <1>1, <1>6, <2>1, Freed
  <1>9. Follows(t, u, i) /\ u.pcb[i].state = "FREE" /\ i \notin u.holds
    BY <1>1, <1>2, <1>4, <1>7, <1>8, FreedFollows, FollowsOn DEF FreedFrom
  <1>10. Sane(u)
    BY <1>1, <1>4, <1>9, OutcomeSane DEF Outcome, HeldWell
  <1>11. ASSUME Unshared(tcp) PROVE Unshared(u)
    <2>1. u.listen = l /\ \A j \in Ids \ {i} : /\ u.pcb[j] = tcp.pcb[j]
                                               /\ j \in ToSet(u.bound) <=> j \in ToSet(tcp.bound)
      BY <1>4, <1>9 DEF Follows, Changed
    <2>2. \A j \in Ids \ {i} : tcp.pcb[j].state # "FREE" => tcp.pcb[j].port # port
      BY <1>1, <1>2, <1>3, <1>11, PcbsAssumption DEF Unshared
    <2>3. "FREE" \notin Conn
      BY DEF Conn, Sent
    <2>4. ASSUME NEW j \in Ids, u.pcb[j].state = "CLOSED", u.pcb[j].port # 0
          PROVE  /\ j \in ToSet(u.bound) /\ u.pcb[j].port \notin u.listen
                 /\ \A k \in Ids \ {j} : u.pcb[k].state # "FREE" => u.pcb[k].port # u.pcb[j].port
      <3>1. j # i
        BY <1>9, <2>4
      <3>2. tcp.pcb[j].state = "CLOSED" /\ tcp.pcb[j].port # 0 /\ tcp.pcb[j].port # port
        BY <2>1, <2>2, <2>4, <3>1
      <3> QED  BY <1>9, <1>11, <2>1, <3>1, <3>2 DEF Unshared, l
    <2>5. ASSUME NEW j \in Ids, NEW k \in Ids, j # k, u.pcb[j].state \in Conn, u.pcb[k].state \in Conn
          PROVE  u.pcb[j].port # u.pcb[k].port \/ u.pcb[j].rem # u.pcb[k].rem
      BY <1>9, <1>11, <2>1, <2>3, <2>5 DEF Unshared
    <2> QED  BY <2>4, <2>5 DEF Unshared
  <1> QED  BY <1>10, <1>11 DEF Kept, u

\* tcp_connect.  The PCB has a port of its own already, or is given a free one.
LEMMA ConnectKept ==
  ASSUME Sane(tcp), NEW i \in tcp.holds, NEW rem \in Remotes, tcp_connect(i, rem)
  PROVE  Kept(tcp, tcp')
  <1>1. PICK port \in IF tcp.pcb[i].port # 0 THEN {tcp.pcb[i].port} ELSE Ephemeral \ InUse :
          LET p == [tcp.pcb[i] EXCEPT !.port = port, !.rem = rem]
              q == [p EXCEPT !.state = "SYN_SENT", !.out = TRUE]
          IN \/ tcp' = Activate([Put(tcp, i, q) EXCEPT !.bound = Without(@, i)], i)
             \/ "connect" \in Failures /\ tcp' = Put(tcp, i, p)
    BY DEF tcp_connect
  <1> DEFINE p0 == [tcp.pcb[i] EXCEPT !.port = port]
             p == [p0 EXCEPT !.rem = rem]
             q0 == [p EXCEPT !.state = "SYN_SENT"]
             q == [q0 EXCEPT !.out = TRUE]
             x == [Put(tcp, i, q) EXCEPT !.bound = Without(@, i)]
             u == Activate(x, i)
             v == Put(tcp, i, p)
  <1>2. tcp' = u \/ ("connect" \in Failures /\ tcp' = v)
    BY <1>1
  <1>3. i \in Ids /\ Good(tcp) /\ tcp.pcb[i] \in Pcb /\ HeldWell(tcp, i) /\ tcp.pcb[i].state = "CLOSED"
    BY ListTypes DEF Sane, tcp_connect
  <1>4. port \in WellKnown \cup Ephemeral /\ port \in Nat \ {0}
    BY <1>1, <1>3, PcbsAssumption DEF Pcb
  <1>5. p \in Pcb /\ p.state = "CLOSED" /\ p.port = port /\ p.rem = rem /\ p.rxclosed = tcp.pcb[i].rxclosed
    <2>1. p0 \in Pcb /\ p0.state = "CLOSED" /\ p0.port = port /\ p0.rxclosed = tcp.pcb[i].rxclosed
      BY <1>3, <1>4 DEF Pcb
    <2> HIDE DEF p0
    <2> QED  BY <2>1 DEF Pcb
  <1> HIDE DEF p
  <1>6. /\ q \in Pcb /\ q.state = "SYN_SENT" /\ q.port = port /\ q.rem = rem
        /\ q.rxclosed = tcp.pcb[i].rxclosed
    <2>1. q0 \in Pcb /\ q0.state = "SYN_SENT" /\ q0.port = port /\ q0.rem = rem /\ q0.rxclosed = tcp.pcb[i].rxclosed
      BY <1>5 DEF Pcb, Sent
    <2> HIDE DEF q0
    <2> QED  BY <2>1 DEF Pcb
  <1> HIDE DEF q
  <1>7. q.state \in Sent /\ q.state \in Conn
    BY <1>6 DEF Sent, Conn
  <1>8. Changed(tcp, u, i, q) /\ u.holds = tcp.holds
    BY <1>3, <1>6, <1>7, Entering
  <1> HIDE DEF u
  <1>9. Kept(tcp, u)
    <2>1. HeldWell(u, i)
      BY <1>3, <1>6, <1>8 DEF HeldWell, HeldStates, Changed
    <2>2. Sane(u)
      BY <1>3, <1>8, <2>1, EnteredKept
    <2>3. ASSUME Unshared(tcp) PROVE Unshared(u)
      <3>1. \A j \in Ids \ {i} : tcp.pcb[j].state # "FREE" => tcp.pcb[j].port # port
        <4>1. CASE tcp.pcb[i].port # 0
          BY <1>1, <1>3, <2>3, <4>1 DEF Unshared
        <4>2. CASE tcp.pcb[i].port = 0
          BY <1>1, <1>4, <2>3, <4>2, NotInUse
        <4> QED  BY <4>1, <4>2
      <3>2. "FREE" \notin Conn
        BY DEF Conn, Sent
      <3> QED  BY <1>3, <1>6, <1>7, <1>8, <2>3, <3>1, <3>2, EnteredUnshared
    <2> QED  BY <2>2, <2>3 DEF Kept
  <1>10. ASSUME "connect" \in Failures PROVE Kept(tcp, v)
    <2>1. SameList(tcp.pcb[i], p)
      BY <1>1, <1>3, <1>5 DEF SameList
    <2>2. Changed(tcp, v, i, p) /\ v.holds = tcp.holds
      BY <1>3, <1>5, <2>1, PutStays
    <2> HIDE DEF v
    <2>3. HeldWell(v, i)
      BY <1>3, <1>5, <2>2 DEF HeldWell, HeldStates, Changed
    <2> QED  BY <1>3, <1>10, <2>2, <2>3, EnteredKept DEF Kept
  <1> QED  BY <1>2, <1>9, <1>10, SMTT(30)

\* tcp_write, tcp_recved.
LEMMA WriteKept ==
  ASSUME Sane(tcp), NEW i \in tcp.holds, Write(i) \/ Recved(i)
  PROVE  Kept(tcp, tcp')
  <1> DEFINE p == [tcp.pcb[i] EXCEPT !.out = TRUE]
             q == [tcp.pcb[i] EXCEPT !.unread = FALSE]
  <1>1. i \in Ids /\ Good(tcp) /\ tcp.pcb[i] \in Pcb /\ HeldWell(tcp, i)
    BY ListTypes DEF Sane
  <1>2. p \in Pcb /\ q \in Pcb
    BY <1>1, Fields
  <1>3. /\ p.state = tcp.pcb[i].state /\ p.port = tcp.pcb[i].port /\ p.rem = tcp.pcb[i].rem
        /\ p.rxclosed = tcp.pcb[i].rxclosed
        /\ q.state = tcp.pcb[i].state /\ q.port = tcp.pcb[i].port /\ q.rem = tcp.pcb[i].rem
        /\ q.rxclosed = tcp.pcb[i].rxclosed
    BY <1>1 DEF Pcb
  <1>4. PICK r \in Pcb : /\ tcp' = Put(tcp, i, r)
                         /\ r.state = tcp.pcb[i].state /\ r.port = tcp.pcb[i].port
                         /\ r.rem = tcp.pcb[i].rem /\ r.rxclosed = tcp.pcb[i].rxclosed
    <2>1. tcp' = Put(tcp, i, p) \/ tcp' = Put(tcp, i, q)
      BY DEF Write, Recved, Unread
    <2> HIDE DEF p, q
    <2> QED  BY <1>2, <1>3, <2>1
  <1> DEFINE u == tcp'
  <1>5. tcp.pcb[i].state \in Conn \cup {"CLOSED"}
    BY <1>1 DEF HeldWell, HeldStates, Conn, Sent
  <1>6. SameList(tcp.pcb[i], r) /\ SameOne(tcp.pcb[i], r)
    BY <1>4, <1>5 DEF SameList, SameOne, Conn
  <1>7. Changed(tcp, u, i, r) /\ u.holds = tcp.holds
    BY <1>1, <1>4, <1>6, PutStays
  <1>8. u.bound = tcp.bound
    <2>1. Made(u, tcp, [tcp.pcb EXCEPT ![i] = r], tcp.active, tcp.tw, tcp.bound, tcp.holds)
      BY <1>1, <1>4, ListTypes, OfPut
    <2> QED  BY <2>1 DEF Made
  <1> HIDE DEF u
  <1>9. Sane(u)
    <2>1. HeldWell(u, i)
      BY <1>1, <1>4, <1>7 DEF HeldWell, Changed
    <2> QED  BY <1>1, <1>7, <2>1, EnteredKept
  <1>10. ASSUME Unshared(tcp) PROVE Unshared(u)
    <2>1. /\ u.listen = tcp.listen
          /\ \A j \in Ids : /\ u.pcb[j].state = tcp.pcb[j].state /\ u.pcb[j].port = tcp.pcb[j].port
                            /\ u.pcb[j].rem = tcp.pcb[j].rem
      BY <1>4, <1>7 DEF Changed
    <2> QED  BY <1>8, <1>10, <2>1 DEF Unshared
  <1> QED  BY <1>9, <1>10 DEF Kept, u

\* tcp_close, also when it fails, tcp_shutdown and tcp_abort.
LEMMA CloseKept ==
  ASSUME Sane(tcp), NEW i \in tcp.holds, Close(i)
  PROVE  Kept(tcp, tcp')
  <1>1. i \in Ids /\ Good(tcp) /\ tcp.pcb[i] \in Pcb /\ HeldWell(tcp, i)
    BY ListTypes DEF Sane
  <1>2. tcp.pcb[i].state # "FREE"
    BY <1>1 DEF HeldWell, HeldStates
  <1>3. CASE tcp' = tcp_close(tcp, i)
    <2> DEFINE u == tcp_close(tcp, i)
    <2>1. Follows(tcp, u, i) /\ i \notin u.holds /\ u.pcb[i].state # "CLOSED"
      BY <1>1, <1>2, CloseFollows
    <2> HIDE DEF u
    <2>2. Kept(tcp, u)
      BY <1>1, <2>1, OutcomeKept DEF Outcome, HeldWell
    <2> QED  BY <1>3, <2>2 DEF u
  <1>4. CASE CloseFails(tcp, i) /\ tcp' = NotClosed(tcp, i)
    <2> DEFINE p == [tcp.pcb[i] EXCEPT !.rxclosed = TRUE]
               u == Put(tcp, i, p)
    <2>1. p \in Pcb
      BY <1>1, Fields
    <2>2. p.state = tcp.pcb[i].state /\ p.port = tcp.pcb[i].port /\ p.rem = tcp.pcb[i].rem
      BY <1>1, <2>1 DEF Pcb
    <2>3. tcp' = u
      BY <1>4 DEF NotClosed
    <2> HIDE DEF p
    <2>4. tcp.pcb[i].state \in {"ESTABLISHED", "CLOSE_WAIT"}
      BY <1>1, <1>4 DEF CloseFails, NeedsFin, HeldWell, HeldStates
    <2>5. SameList(tcp.pcb[i], p) /\ p.state \in Conn
      BY <2>2, <2>4 DEF SameList, Conn, Sent
    <2>6. Follows(tcp, u, i) /\ u.pcb[i] = p
      BY <1>1, <2>1, <2>2, <2>5, PutFollows
    <2> HIDE DEF u
    <2>7. HeldWell(u, i) /\ u.pcb[i].state # "CLOSED"
      BY <2>2, <2>4, <2>6 DEF HeldWell, HeldStates
    <2>8. Kept(tcp, u)
      BY <1>1, <2>6, <2>7, OutcomeKept DEF Outcome
    <2> QED  BY <2>3, <2>8
  <1> QED  BY <1>3, <1>4 DEF Close

LEMMA EndKept ==
  ASSUME Sane(tcp), NEW i \in tcp.holds, Shutdown(i) \/ Abort(i)
  PROVE  Kept(tcp, tcp')
  <1>1. i \in Ids /\ Good(tcp) /\ tcp.pcb[i] \in Pcb /\ HeldWell(tcp, i)
    BY ListTypes DEF Sane
  <1>2. CASE Shutdown(i)
    <2> DEFINE u == tcp_close_shutdown(tcp, i, FALSE)
    <2>1. NeedsFin(tcp, i) /\ ~tcp.pcb[i].rxclosed /\ tcp' = u
      BY <1>2 DEF Shutdown
    <2>2. tcp.pcb[i].state # "FREE" /\ tcp.pcb[i].rxclosed = FALSE
      BY <1>1, <2>1 DEF NeedsFin, Pcb
    <2>3. /\ Follows(tcp, u, i) /\ u.pcb[i].state # "CLOSED"
          /\ i \in u.holds => /\ u.pcb[i].state \in {"FIN_WAIT_1", "LAST_ACK"}
                              /\ u.pcb[i].rxclosed = tcp.pcb[i].rxclosed
      BY <1>1, <2>1, <2>2, ShutdownFollows
    <2> HIDE DEF u
    <2>4. HeldWell(u, i)
      BY <2>2, <2>3 DEF HeldWell, HeldStates
    <2> QED  BY <1>1, <2>1, <2>3, <2>4, OutcomeKept DEF Outcome
  <1>3. CASE Abort(i)
    <2> DEFINE u == tcp_abort(tcp, i)
    <2>1. tcp.pcb[i].state # "CLOSED" /\ tcp' = u
      BY <1>3 DEF Abort
    <2>2. tcp.pcb[i].state \in Conn
      BY <1>1, <2>1 DEF HeldWell, HeldStates, Conn, Sent
    <2>3. Follows(tcp, u, i) /\ u.pcb[i].state = "FREE" /\ i \notin u.holds
      BY <1>1, <2>2, AbortFollows
    <2> HIDE DEF u
    <2> QED  BY <1>1, <2>1, <2>3, OutcomeKept DEF Outcome, HeldWell
  <1> QED  BY <1>2, <1>3

-----------------------------------------------------------------------------
\* Every PCB is the same connection, in the same state, on the same lists.
AsBefore(t, u) ==
    /\ u \in TcpType /\ u.active = t.active /\ u.tw = t.tw /\ u.bound = t.bound
    /\ u.listen = t.listen /\ u.holds = t.holds /\ u.untold = t.untold
    /\ \A i \in Ids : /\ u.pcb[i].state = t.pcb[i].state /\ u.pcb[i].port = t.pcb[i].port
                      /\ u.pcb[i].rem = t.pcb[i].rem /\ u.pcb[i].rxclosed = t.pcb[i].rxclosed

LEMMA AsBeforeKept ==
  ASSUME NEW t, Sane(t), NEW u, AsBefore(t, u)
  PROVE  Kept(t, u)
  <1>1. Good(u)
    BY DEF Sane, Good, AsBefore
  <1>2. Sane(u)
    BY <1>1 DEF Sane, AsBefore, HeldWell
  <1>3. Unshared(t) => Unshared(u)
    BY DEF Unshared, AsBefore
  <1> QED  BY <1>2, <1>3 DEF Kept

\* The loop of tcp_slowtmr stands behind the first n connections of list q, and
\* has not seen those that are to come.
Stands(q, w, n) ==
    /\ n \in 0 .. Len(q) /\ w.on = TRUE
    /\ w.prev = IF n = 0 THEN 0 ELSE q[n]
    /\ w.pcb = IF n = Len(q) THEN 0 ELSE q[n + 1]
    /\ w.seen \subseteq Ids
    /\ \A k \in n + 1 .. Len(q) : q[k] \notin w.seen

WalkSane == \E n \in 0 .. Len(tcp.active) : Stands(tcp.active, walk, n)

TcpInv ==
    /\ Sane(tcp)
    /\ walk = NoWalk \/ WalkSane

LEMMA PlaceFound ==
  ASSUME NEW q \in Seq(Ids), Once(q), NEW k \in DOMAIN q
  PROVE  PlaceOf(q, q[k]) = k
  BY DEF PlaceOf, Once

\* The loop begins: the ages only are changed.
LEMMA StartKept ==
  ASSUME Sane(tcp), SlowStart
  PROVE  Kept(tcp, tcp') /\ WalkSane'
  <1> DEFINE Older(p) == IF p.state = "FREE" THEN p ELSE [p EXCEPT !.age = Min({p.age + 1, AgeCap})]
             f == [i \in Ids |-> Older(tcp.pcb[i])]
             u == [tcp EXCEPT !.pcb = f]
  <1>1. tcp' = u /\ walk' = [on |-> TRUE, prev |-> 0, pcb |-> First(tcp.active), seen |-> {}]
    BY DEF SlowStart
  <1>2. tcp \in TcpType /\ tcp.active \in Seq(Ids) /\ \A i \in Ids : tcp.pcb[i] \in Pcb
    BY ListTypes DEF Sane
  <1>3. AgeCap \in Nat
    BY PcbsAssumption DEF AgeCap
  <1>4. ASSUME NEW p \in Pcb
        PROVE  /\ Older(p) \in Pcb /\ Older(p).state = p.state /\ Older(p).port = p.port
               /\ Older(p).rem = p.rem /\ Older(p).rxclosed = p.rxclosed
    <2>1. Min({p.age + 1, AgeCap}) \in 0 .. AgeCap
      <3>1. p.age \in 0 .. AgeCap
        BY DEF Pcb
      <3> QED  BY <1>3, <3>1, MinOfTwo
    <2> DEFINE n == Min({p.age + 1, AgeCap})
    <2> HIDE DEF n
    <2>2. [p EXCEPT !.age = n] \in Pcb
      BY <2>1 DEF Pcb, n
    <2>3. /\ [p EXCEPT !.age = n].state = p.state /\ [p EXCEPT !.age = n].port = p.port
          /\ [p EXCEPT !.age = n].rem = p.rem /\ [p EXCEPT !.age = n].rxclosed = p.rxclosed
      BY DEF Pcb
    <2>4. Older(p) = p \/ Older(p) = [p EXCEPT !.age = n]
      BY DEF n
    <2> QED  BY <2>2, <2>3, <2>4
  <1> HIDE DEF Older
  <1>5. f \in [Ids -> Pcb] /\ \A i \in Ids : f[i] = Older(tcp.pcb[i])
    BY <1>2, <1>4
  <1> HIDE DEF f
  <1>6. /\ u \in TcpType /\ u.pcb = f /\ u.active = tcp.active /\ u.tw = tcp.tw /\ u.bound = tcp.bound
        /\ u.listen = tcp.listen /\ u.holds = tcp.holds /\ u.untold = tcp.untold
    BY <1>2, <1>5 DEF TcpType
  <1> HIDE DEF u
  <1>7. AsBefore(tcp, u)
    BY <1>2, <1>4, <1>5, <1>6 DEF AsBefore
  <1>8. Kept(tcp, tcp')
    BY <1>1, <1>7, AsBeforeKept
  <1>9. Stands(tcp.active, walk', 0)
    BY <1>1, <1>2 DEF Stands, First
  <1>10. WalkSane'
    BY <1>1, <1>2, <1>6, <1>9 DEF WalkSane
  <1> QED  BY <1>8, <1>10

\* No one is visited twice, so that Skip has nothing to do.
LEMMA NothingSkipped ==
  ASSUME Sane(tcp), WalkSane
  PROVE  ~Skip
  <1>1. PICK n \in 0 .. Len(tcp.active) : Stands(tcp.active, walk, n)
    BY DEF WalkSane
  <1>2. 0 \notin walk.seen
    BY <1>1, PcbsAssumption DEF Stands
  <1>3. CASE n = Len(tcp.active)
    BY <1>1, <1>2, <1>3 DEF Stands, Skip
  <1>4. CASE n # Len(tcp.active)
    <2>1. n + 1 \in n + 1 .. Len(tcp.active)
      BY <1>1, <1>4, ListTypes DEF Sane
    <2> QED  BY <1>1, <1>4, <2>1 DEF Stands, Skip
  <1> QED  BY <1>3, <1>4

\* One turn of the loop.  A PCB that has timed out is cut off the list between
\* prev and the next one, and prev stays where it is.
LEMMA VisitKept ==
  ASSUME TimerCallbacks = {}, Sane(tcp), WalkSane, NEW due \in BOOLEAN, Visit(due)
  PROVE  Kept(tcp, tcp') /\ WalkSane'
  <1> DEFINE q    == tcp.active
             i    == walk.pcb
             next == After(q, i)
             seen == walk.seen \cup {i}
             p    == [tcp.pcb[i] EXCEPT !.nrtx = @ + 1]
             sent == IF due /\ tcp.pcb[i].out THEN Put(tcp, i, p) ELSE tcp
             cut  == [tcp EXCEPT !.active = Unlinked(q, walk.prev, i)]
             gone == Release(LetGo(cut, i), i)
  <1>1. PICK n \in 0 .. Len(q) : Stands(q, walk, n)
    BY DEF WalkSane
  <1>2. i # 0 /\ i \notin walk.seen
    BY DEF Visit
  <1>3. IF TimedOut(tcp.pcb[i])
        THEN tcp' = gone /\ walk' = [on |-> TRUE, prev |-> walk.prev, pcb |-> next, seen |-> seen]
        ELSE tcp' = sent /\ walk' = [on |-> TRUE, prev |-> i, pcb |-> next, seen |-> seen]
    BY DEF Visit, Callback
  <1>4. Good(tcp) /\ q \in Seq(Ids) /\ Once(q) /\ Len(q) \in Nat /\ DOMAIN q = 1 .. Len(q)
    <2>1. Good(tcp)
      BY DEF Sane
    <2>2. q \in Seq(Ids)
      BY <2>1, ListTypes
    <2> QED  BY <2>1, <2>2 DEF Good
  <1>5. n < Len(q) /\ n + 1 \in DOMAIN q /\ i = q[n + 1] /\ i \in Ids /\ i \in ToSet(q) /\ seen \subseteq Ids
    BY <1>1, <1>2, <1>4 DEF Stands, ToSet
  <1>6. tcp.pcb[i] \in Pcb /\ tcp.pcb[i].state \in Sent
    BY <1>4, <1>5, ListTypes DEF Good
  <1>7. PlaceOf(q, i) = n + 1 /\ next = IF n + 1 = Len(q) THEN 0 ELSE q[n + 2]
    <2>1. PlaceOf(q, i) = n + 1
      BY <1>4, <1>5, PlaceFound
    <2> QED  BY <2>1 DEF After
  <1>8. \A k \in n + 2 .. Len(q) : q[k] \notin seen
    <2> SUFFICES ASSUME NEW k \in n + 2 .. Len(q) PROVE q[k] \notin walk.seen /\ q[k] # i
      OBVIOUS
    <2>1. k \in n + 1 .. Len(q) /\ k \in DOMAIN q /\ k # n + 1
      BY <1>1, <1>4
    <2> QED  BY <1>1, <1>4, <1>5, <2>1 DEF Stands, Once
  <1> HIDE DEF next, seen
  <1>9. CASE ~TimedOut(tcp.pcb[i])
    <2>1. tcp' = sent /\ walk' = [on |-> TRUE, prev |-> i, pcb |-> next, seen |-> seen]
      BY <1>3, <1>9
    <2>2. p \in Pcb /\ p.state = tcp.pcb[i].state /\ p.port = tcp.pcb[i].port
          /\ p.rem = tcp.pcb[i].rem /\ p.rxclosed = tcp.pcb[i].rxclosed
      <3>1. tcp.pcb[i].nrtx # MaxRtx /\ tcp.pcb[i].nrtx \in 0 .. MaxRtx /\ MaxRtx \in Nat
        BY <1>6, <1>9, PcbsAssumption DEF TimedOut, Pcb
      <3>2. tcp.pcb[i].nrtx + 1 \in 0 .. MaxRtx
        BY <3>1, SMTT(30)
      <3>3. p \in Pcb
        BY <1>6, <3>2 DEF Pcb
      <3> QED  BY <1>6, <3>3 DEF Pcb
    <2> HIDE DEF p
    <2>3. AsBefore(tcp, sent)
      <3>1. AsBefore(tcp, tcp)
        BY <1>4 DEF AsBefore, Good
      <3>2. Made(Put(tcp, i, p), tcp, [tcp.pcb EXCEPT ![i] = p], q, tcp.tw, tcp.bound, tcp.holds)
        BY <1>4, <1>5, <2>2, OfPut, ListTypes
      <3>3. \A j \in Ids : [tcp.pcb EXCEPT ![i] = p][j] = IF j = i THEN p ELSE tcp.pcb[j]
        BY <1>4, TypeOfPcb, ListTypes
      <3>4. AsBefore(tcp, Put(tcp, i, p))
        BY <2>2, <3>2, <3>3 DEF AsBefore, Made
      <3> QED  BY <3>1, <3>4
    <2> HIDE DEF sent
    <2>4. Kept(tcp, tcp')
      BY <2>1, <2>3, AsBeforeKept
    <2>5. tcp'.active = q
      BY <2>1, <2>3 DEF AsBefore
    <2>6. Stands(q, walk', n + 1)
      BY <1>1, <1>4, <1>5, <1>7, <1>8, <2>1 DEF Stands, seen
    <2>7. WalkSane'
      BY <1>5, <2>5, <2>6 DEF WalkSane
    <2> QED  BY <2>4, <2>7
  <1>10. CASE TimedOut(tcp.pcb[i])
    <2> DEFINE w == Without(q, i)
    <2>1. tcp' = gone /\ walk' = [on |-> TRUE, prev |-> walk.prev, pcb |-> next, seen |-> seen]
      BY <1>3, <1>10
    <2>2. w = SubSeq(q, 1, n) \o SubSeq(q, n + 2, Len(q))
      <3>1. (n + 1) - 1 = n /\ (n + 1) + 1 = n + 2
        BY <1>1
      <3>2. w = SubSeq(q, 1, PlaceOf(q, i) - 1) \o SubSeq(q, PlaceOf(q, i) + 1, Len(q))
        BY <1>5 DEF Without
      <3> QED  BY <1>7, <3>1, <3>2
    <2>3. Unlinked(q, walk.prev, i) = w
      <3>1. CASE n = 0
        <4>1. walk.prev = 0
          BY <1>1, <3>1 DEF Stands
        <4> QED  BY <1>7, <2>2, <3>1, <4>1 DEF Unlinked
      <3>2. CASE n # 0
        <4>1. n \in DOMAIN q /\ walk.prev = q[n] /\ q[n] # 0
          BY <1>1, <1>4, <3>2, PcbsAssumption DEF Stands
        <4>2. PlaceOf(q, walk.prev) = n
          BY <1>4, <4>1, PlaceFound
        <4>3. walk.prev # 0 /\ (n + 1) + 1 = n + 2
          BY <1>1, <4>1
        <4> QED  BY <1>7, <2>2, <4>2, <4>3 DEF Unlinked
      <3> QED  BY <3>1, <3>2
    <2>4. gone = Release(LetGo(Deactivate(tcp, i), i), i)
      BY <2>3 DEF Deactivate
    <2> HIDE DEF w
    <2>5. w \in Seq(Ids) /\ Len(w) = Len(q) - 1 /\ \A k \in 1 .. Len(q) - 1 : w[k] = IF k < n + 1 THEN q[k] ELSE q[k + 1]
      <3>1. (n + 1) - 1 = n /\ (n + 1) + 1 = n + 2
        BY <1>1
      <3>2. LET t == SubSeq(q, 1, (n + 1) - 1) \o SubSeq(q, (n + 1) + 1, Len(q))
            IN /\ t \in Seq(Ids) /\ Len(t) = Len(q) - 1
               /\ \A k \in 1 .. Len(q) - 1 : t[k] = IF k < n + 1 THEN q[k] ELSE q[k + 1]
        BY <1>4, <1>5, CutAt
      <3> QED  BY <2>2, <3>1, <3>2
    <2> DEFINE t == LetGo(tcp, i)
               x == Deactivate(t, i)
    <2>6. FreedFrom(t, gone, i)
      BY <1>4, <1>5, <1>6, <2>4, ToldAndFreed
    <2>7. Made(t, tcp, tcp.pcb, q, tcp.tw, tcp.bound, tcp.holds \ {i})
      BY <1>4, OfLetGo, ListTypes
    <2>8. Follows(tcp, t, i) /\ i \notin t.holds /\ t.pcb[i] = tcp.pcb[i]
      BY <1>4, <1>5, <1>6, LetGoFollows DEF Sent
    <2>9. gone.active = w
      <3>1. gone = Release(x, i)
        BY <1>4, <1>5, <1>6, <2>4, ToldAndFreed
      <3> HIDE DEF t
      <3>2. Made(x, t, t.pcb, w, t.tw, t.bound, t.holds)
        <4>1. t \in TcpType /\ t.active = q
          BY <2>7 DEF Made
        <4>2. x = [t EXCEPT !.active = w]
          BY <4>1 DEF Deactivate, w
        <4> QED  BY <2>5, <4>1, <4>2, OfLists
      <3>3. x \in TcpType /\ x.active = w /\ x.untold = FALSE /\ x.holds = t.holds
        BY <1>4, <2>7, <3>2 DEF Made, Good
      <3> HIDE DEF x, gone
      <3>4. Made(Release(x, i), x, [x.pcb EXCEPT ![i] = InPool], x.active, x.tw, x.bound, x.holds)
        BY <1>5, <2>8, <3>3, OfRelease
      <3> QED  BY <3>1, <3>3, <3>4 DEF Made
    <2> HIDE DEF t, x, gone
    <2>10. Follows(tcp, gone, i) /\ gone.pcb[i].state = "FREE" /\ i \notin gone.holds
      <3>1. Follows(t, gone, i) /\ gone.pcb[i].state = "FREE" /\ gone.holds = t.holds
        BY <1>5, <2>6, FreedFollows DEF FreedFrom
      <3>2. t.pcb[i].state # "FREE"
        BY <1>6, <2>8 DEF Sent
      <3> QED  BY <1>5, <2>8, <3>1, <3>2, FollowsOn
    <2>11. Kept(tcp, gone)
      BY <1>5, <2>10, OutcomeKept DEF Outcome, HeldWell
    <2>12. Stands(w, walk', n)
      <3>1. n \in 0 .. Len(w)
        BY <1>1, <1>4, <1>5, <2>5
      <3>2. walk'.prev = IF n = 0 THEN 0 ELSE w[n]
        BY <1>1, <1>4, <1>5, <2>1, <2>5 DEF Stands
      <3>3. walk'.pcb = IF n = Len(w) THEN 0 ELSE w[n + 1]
        BY <1>1, <1>4, <1>5, <1>7, <2>1, <2>5, SMTT(30)
      <3>4. \A k \in n + 1 .. Len(w) : w[k] \notin walk'.seen
        <4> SUFFICES ASSUME NEW k \in n + 1 .. Len(w) PROVE w[k] \notin seen
          BY <2>1
        <4>1. k \in 1 .. Len(q) - 1 /\ ~(k < n + 1) /\ k + 1 \in n + 2 .. Len(q)
          BY <1>1, <1>4, <2>5
        <4> QED  BY <1>8, <2>5, <4>1
      <3> QED  BY <1>5, <2>1, <3>1, <3>2, <3>3, <3>4 DEF Stands
    <2>13. n \in 0 .. Len(w)
      BY <2>12 DEF Stands
    <2>14. WalkSane'
      BY <2>1, <2>9, <2>12, <2>13 DEF WalkSane
    <2> QED  BY <2>1, <2>11, <2>14
  <1> QED  BY <1>9, <1>10

-----------------------------------------------------------------------------
\* The loop over the connections in TIME_WAIT, which have no user.
LEMMA SweepKept ==
  ASSUME NEW t, Sane(t), NEW i \in Ids, t.pcb[i].state = "TIME_WAIT"
  PROVE  Kept(t, Sweep(t, i)) /\ \A j \in Ids \ {i} : Sweep(t, i).pcb[j] = t.pcb[j]
  <1> DEFINE u == Release([t EXCEPT !.tw = Without(@, i)], i)
  <1>1. i \notin t.holds
    BY DEF Sane, HeldWell, HeldStates
  <1>2. FreedFrom(t, u, i)
    BY <1>1, Freed DEF Sane
  <1>3. Sweep(t, i) = u \/ Sweep(t, i) = t
    BY DEF Sweep
  <1> HIDE DEF u
  <1>4. Follows(t, u, i) /\ u.pcb[i].state = "FREE" /\ i \notin u.holds
    BY <1>1, <1>2, FreedFollows DEF FreedFrom
  <1>5. Kept(t, u)
    BY <1>4, OutcomeKept DEF Outcome, HeldWell
  <1>6. Kept(t, t)
    BY DEF Kept
  <1> QED  BY <1>3, <1>4, <1>5, <1>6 DEF Follows, Changed

SweepLoop(f, n) == f = [k \in 0 .. n |-> IF k = 0 THEN tcp ELSE Sweep(f[k - 1], tcp.tw[k])]

LEMMA SweepLoopExtends ==
  ASSUME NEW n \in Nat, NEW f, SweepLoop(f, n)
  PROVE  \E g : SweepLoop(g, n + 1)
  <1> DEFINE g == [k \in 0 .. n + 1 |-> IF k <= n THEN f[k] ELSE Sweep(f[n], tcp.tw[n + 1])]
             h == [k \in 0 .. n + 1 |-> IF k = 0 THEN tcp ELSE Sweep(g[k - 1], tcp.tw[k])]
  <1>1. \A k \in 0 .. n : f[k] = IF k = 0 THEN tcp ELSE Sweep(f[k - 1], tcp.tw[k])
    BY DEF SweepLoop
  <1>2. ASSUME NEW k \in 0 .. n + 1 PROVE g[k] = h[k]
    <2>1. CASE k = 0
      BY <1>1, <2>1
    <2>2. CASE k \in 1 .. n
      <3>1. k - 1 \in 0 .. n /\ k \in 0 .. n /\ k # 0
        BY <2>2
      <3>2. g[k - 1] = f[k - 1] /\ g[k] = f[k]
        BY <3>1
      <3> QED  BY <1>1, <3>1, <3>2
    <2>3. CASE k = n + 1
      <3>1. k - 1 = n /\ ~(k <= n) /\ n \in 0 .. n + 1 /\ k # 0 /\ n <= n
        BY <2>3
      <3>2. g[n] = f[n] /\ g[k] = Sweep(f[n], tcp.tw[k])
        BY <2>3, <3>1
      <3>3. h[k] = Sweep(g[k - 1], tcp.tw[k])
        BY <3>1
      <3> QED  BY <3>1, <3>2, <3>3
    <2> QED  BY <2>1, <2>2, <2>3
  <1>3. g = h
    BY <1>2
  <1> QED  BY <1>3 DEF SweepLoop

LEMMA SweptIs ==
  ASSUME Len(tcp.tw) \in Nat
  PROVE  \A k \in 0 .. Len(tcp.tw) : Swept[k] = IF k = 0 THEN tcp ELSE Sweep(Swept[k - 1], tcp.tw[k])
  <1> DEFINE S == {n \in Nat : \E f : SweepLoop(f, n)}
  <1>1. 0 \in S
    <2>1. SweepLoop([k \in 0 .. 0 |-> tcp], 0)
      BY DEF SweepLoop
    <2> QED  BY <2>1
  <1>2. \A n \in Nat : n \in S => n + 1 \in S
    BY SweepLoopExtends
  <1>3. Len(tcp.tw) \in S
    <2> HIDE DEF S
    <2> QED  BY <1>1, <1>2, Induct
  <1>4. SweepLoop(Swept, Len(tcp.tw))
    BY <1>3 DEF Swept, SweepLoop
  <1> QED  BY <1>4 DEF SweepLoop

\* What k turns of the loop have done, those that are to come not touched.
LEMMA SlowEndKept ==
  ASSUME Sane(tcp), SlowEnd
  PROVE  Kept(tcp, tcp')
  <1> DEFINE q == tcp.tw
             Far(k) == /\ Kept(tcp, Swept[k])
                       /\ \A m \in k + 1 .. Len(q) : Swept[k].pcb[q[m]].state = "TIME_WAIT"
             S == {k \in Nat : k <= Len(q) => Far(k)}
  <1>0. Good(tcp)
    BY DEF Sane
  <1>1. q \in Seq(Ids) /\ Len(q) \in Nat /\ DOMAIN q = 1 .. Len(q) /\ Once(q)
    <2>1. q \in Seq(Ids)
      BY <1>0, ListTypes
    <2> QED  BY <1>0, <2>1 DEF Good
  <1>2. \A m \in 1 .. Len(q) : q[m] \in Ids /\ tcp.pcb[q[m]].state = "TIME_WAIT"
    <2>1. \A m \in 1 .. Len(q) : q[m] \in Ids /\ q[m] \in ToSet(q)
      BY <1>1 DEF ToSet
    <2> QED  BY <1>0, <2>1 DEF Good
  <1>3. \A k \in 0 .. Len(q) : Swept[k] = IF k = 0 THEN tcp ELSE Sweep(Swept[k - 1], q[k])
    BY <1>1, SweptIs
  <1> HIDE DEF q
  <1>4. 0 \in S
    <2>1. Swept[0] = tcp
      BY <1>1, <1>3
    <2> QED  BY <1>2, <2>1 DEF Kept
  <1>5. ASSUME NEW k \in Nat, k \in S PROVE k + 1 \in S
    <2> SUFFICES ASSUME k + 1 <= Len(q) PROVE Far(k + 1)
      OBVIOUS
    <2>1. k + 1 \in 1 .. Len(q) /\ k + 1 \in 0 .. Len(q) /\ k + 1 # 0 /\ (k + 1) - 1 = k /\ k <= Len(q)
      BY <1>1
    <2> DEFINE t == Swept[k]
               u == Swept[k + 1]
               i == q[k + 1]
    <2>2. Kept(tcp, t) /\ \A m \in k + 1 .. Len(q) : t.pcb[q[m]].state = "TIME_WAIT"
      BY <1>5, <2>1
    <2>3. u = Sweep(t, i)
      BY <1>3, <2>1
    <2>4. i \in Ids /\ t.pcb[i].state = "TIME_WAIT"
      <3>1. k + 1 \in k + 1 .. Len(q)
        BY <1>1, <2>1
      <3> QED  BY <1>2, <2>1, <2>2, <3>1
    <2>5. \A m \in (k + 1) + 1 .. Len(q) : q[m] \in Ids \ {i} /\ t.pcb[q[m]].state = "TIME_WAIT"
      <3> SUFFICES ASSUME NEW m \in (k + 1) + 1 .. Len(q)
                   PROVE  q[m] \in Ids \ {i} /\ t.pcb[q[m]].state = "TIME_WAIT"
        OBVIOUS
      <3>1. m \in 1 .. Len(q) /\ m \in k + 1 .. Len(q) /\ m # k + 1
        BY <1>1, <2>1
      <3>2. q[m] # i
        BY <1>1, <2>1, <3>1 DEF Once
      <3> QED  BY <1>2, <2>2, <3>1, <3>2
    <2> HIDE DEF t, u, i
    <2>6. Kept(t, u) /\ \A j \in Ids \ {i} : u.pcb[j] = t.pcb[j]
      BY <2>2, <2>3, <2>4, SweepKept DEF Kept
    <2>7. Kept(tcp, u)
      BY <2>2, <2>6 DEF Kept
    <2>8. \A m \in (k + 1) + 1 .. Len(q) : u.pcb[q[m]].state = "TIME_WAIT"
      BY <2>5, <2>6
    <2> QED  BY <2>7, <2>8 DEF u
  <1>6. Len(q) \in S
    <2> HIDE DEF S
    <2> QED  BY <1>1, <1>4, <1>5, Induct
  <1>7. Kept(tcp, Swept[Len(q)])
    BY <1>1, <1>6
  <1> QED  BY <1>7 DEF SlowEnd, q

-----------------------------------------------------------------------------
\* Every step, and the theorems.
LEMMA NextKept ==
  ASSUME TimerCallbacks = {}, TcpInv, PcbsNext
  PROVE  Kept(tcp, tcp') /\ TcpInv'
  <1>1. Sane(tcp) /\ (walk.on => WalkSane)
    BY DEF TcpInv, NoWalk
  <1>2. Kept(tcp, tcp') => Sane(tcp')
    BY DEF Kept
  <1>3. ASSUME tcp_input PROVE Kept(tcp, tcp') /\ TcpInv'
    <2>1. ~walk.on /\ walk' = walk
      BY <1>3 DEF tcp_input
    <2>2. PICK s \in Segments : Active(s) \/ TimeWait(s) \/ Listen(s)
      BY <1>3 DEF tcp_input
    <2>3. Kept(tcp, tcp')
      BY <1>1, <2>2, ActiveKept, TimeWaitKept, ListenKept
    <2>4. walk = NoWalk
      BY <2>1 DEF TcpInv, WalkSane, Stands
    <2> QED  BY <1>2, <2>1, <2>3, <2>4 DEF TcpInv
  <1>4. ASSUME User PROVE Kept(tcp, tcp') /\ TcpInv'
    <2>1. ~walk.on /\ walk' = walk
      BY <1>4 DEF User
    <2>2. Kept(tcp, tcp')
      <3>1. CASE tcp_new
        BY <1>1, <3>1, NewKept
      <3>2. CASE CloseListening
        BY <1>1, <3>2, CloseListeningKept
      <3>3. CASE \E i \in tcp.holds :
                   \/ \E port \in WellKnown : tcp_bind(i, port)
                   \/ tcp_listen(i)
                   \/ \E rem \in Remotes : tcp_connect(i, rem)
                   \/ Write(i) \/ Recved(i)
                   \/ Close(i) \/ Shutdown(i) \/ Abort(i)
        BY <1>1, <3>3, BindKept, TcpListenKept, ConnectKept, WriteKept, CloseKept, EndKept
      <3> QED  BY <1>4, <3>1, <3>2, <3>3 DEF User
    <2>3. walk = NoWalk
      BY <2>1 DEF TcpInv, WalkSane, Stands
    <2> QED  BY <1>2, <2>1, <2>2, <2>3 DEF TcpInv
  <1>5. ASSUME tcp_slowtmr PROVE Kept(tcp, tcp') /\ TcpInv'
    <2>1. CASE SlowStart
      BY <1>1, <1>2, <2>1, StartKept DEF TcpInv
    <2>2. CASE walk.on /\ Skip
      BY <1>1, <2>2, NothingSkipped
    <2>3. CASE walk.on /\ \E due \in BOOLEAN : Visit(due)
      BY <1>1, <1>2, <2>3, VisitKept DEF TcpInv
    <2>4. CASE SlowEnd
      <3>1. walk' = NoWalk
        BY <2>4 DEF SlowEnd
      <3>2. Kept(tcp, tcp')
        BY <1>1, <2>4, SlowEndKept
      <3> QED  BY <1>2, <3>1, <3>2 DEF TcpInv
    <2> QED  BY <1>5, <2>1, <2>2, <2>3, <2>4 DEF tcp_slowtmr
  <1> QED  BY <1>3, <1>4, <1>5 DEF PcbsNext

LEMMA AtFirst ==
  ASSUME PcbsInit
  PROVE  TcpInv /\ Unshared(tcp)
  <1>1. /\ tcp.active = <<>> /\ tcp.tw = <<>> /\ tcp.bound = <<>> /\ tcp.listen = {} /\ tcp.holds = {}
        /\ tcp.untold = FALSE /\ \A i \in Ids : tcp.pcb[i] = InPool
    BY DEF PcbsInit
  <1>2. tcp \in TcpType
    BY InPoolType DEF PcbsInit, TcpType
  <1>3. InPool.state = "FREE" /\ "FREE" \notin Sent /\ "FREE" \notin Conn
    BY InPoolType DEF Sent, Conn
  <1>4. \A i \in Ids : tcp.pcb[i].state = "FREE"
    BY <1>1, <1>3
  <1>5. Good(tcp)
    BY <1>1, <1>2, <1>3, <1>4 DEF Good, Once, ToSet
  <1>6. Sane(tcp)
    BY <1>1, <1>5 DEF Sane, HeldWell
  <1>7. Unshared(tcp)
    BY <1>3, <1>4 DEF Unshared
  <1> QED  BY <1>6, <1>7 DEF TcpInv, PcbsInit

\* The inductive invariant: the lists and the loop are in order, and who is
\* held is in a state in which the user knows of the PCB.
THEOREM TcpInvariance == TimerCallbacks = {} => (PcbsSpec => []TcpInv)
  <1> SUFFICES ASSUME TimerCallbacks = {} PROVE PcbsSpec => []TcpInv
    OBVIOUS
  <1>1. PcbsInit => TcpInv
    BY AtFirst
  <1>2. TcpInv /\ [PcbsNext]_pcbsVars => TcpInv'
    <2>1. ASSUME TcpInv, PcbsNext PROVE TcpInv'
      BY <2>1, NextKept
    <2>2. ASSUME TcpInv, UNCHANGED pcbsVars PROVE TcpInv'
      BY <2>2 DEF pcbsVars, TcpInv, WalkSane
    <2> QED  BY <2>1, <2>2
  <1> QED  BY <1>1, <1>2, PTL DEF PcbsSpec

\* The lists of tcp_impl.h:326 stay what the comment there says, for any number
\* of PCBs, peers and ports, through tcp_input, tcp_slowtmr, the calls of the
\* user and those in its callbacks.
THEOREM ListsStaySane == TimerCallbacks = {} => (PcbsSpec => []ListsSane)
  <1> SUFFICES ASSUME TimerCallbacks = {} PROVE PcbsSpec => []ListsSane
    OBVIOUS
  <1>1. TcpInv => ListsSane
    <2> SUFFICES ASSUME TcpInv PROVE ListsSane
      OBVIOUS
    <2>1. Good(tcp)
      BY DEF TcpInv, Sane
    <2>2. PcbsTypeOK /\ Once(tcp.active) /\ Once(tcp.tw) /\ Once(tcp.bound)
      BY <2>1 DEF Good, PcbsTypeOK, TcpType
    <2>3. ToSet(tcp.active) \subseteq Ids /\ ToSet(tcp.tw) \subseteq Ids /\ ToSet(tcp.bound) \subseteq Ids
      BY <2>1, ListTypes DEF ToSet
    <2>4. /\ ToSet(tcp.active) = {i \in Ids : tcp.pcb[i].state \in Sent}
          /\ ToSet(tcp.tw) = {i \in Ids : tcp.pcb[i].state = "TIME_WAIT"}
          /\ ToSet(tcp.bound) \subseteq {i \in Ids : tcp.pcb[i].state = "CLOSED"}
      BY <2>1, <2>3 DEF Good
    <2>5. {walk.prev, walk.pcb} \subseteq {0} \cup ToSet(tcp.active)
      <3>1. CASE walk = NoWalk
        BY <3>1 DEF NoWalk
      <3>2. CASE WalkSane
        <4>1. PICK n \in 0 .. Len(tcp.active) : Stands(tcp.active, walk, n)
          BY <3>2 DEF WalkSane
        <4>2. tcp.active \in Seq(Ids)
          BY <2>1, ListTypes
        <4>3. n # 0 => n \in DOMAIN tcp.active
          BY <4>2
        <4>4. n # Len(tcp.active) => n + 1 \in DOMAIN tcp.active
          BY <4>2
        <4> QED  BY <4>1, <4>3, <4>4 DEF Stands, ToSet
      <3> QED  BY <3>1, <3>2 DEF TcpInv
    <2> QED  BY <2>2, <2>4, <2>5 DEF ListsSane
  <1> QED  BY <1>1, TcpInvariance, PTL

\* No PCB is freed under a user that has not been told.
THEOREM UserAlwaysTold == TimerCallbacks = {} => (PcbsSpec => []UserTold)
  <1> SUFFICES ASSUME TimerCallbacks = {} PROVE PcbsSpec => []UserTold
    OBVIOUS
  <1>1. TcpInv => UserTold
    <2> SUFFICES ASSUME TcpInv PROVE UserTold
      OBVIOUS
    <2>1. Good(tcp) /\ \A i \in Ids : HeldWell(tcp, i)
      BY DEF TcpInv, Sane
    <2>2. tcp.untold = FALSE /\ tcp.holds \in SUBSET Ids
      BY <2>1, ListTypes DEF Good
    <2> QED  BY <2>1, <2>2 DEF UserTold, HeldWell, HeldStates
  <1> QED  BY <1>1, TcpInvariance, PTL

\* A segment belongs to one connection, when tcp_connect finds memory for its
\* SYN: a PCB whose connect failed has an ephemeral port, and is on no list on
\* which tcp_new_port and tcp_bind would look for it.
THEOREM OneConnectionForEach ==
  (TimerCallbacks = {} /\ "connect" \notin Failures) => (PcbsSpec => []OneForEach)
  <1> SUFFICES ASSUME TimerCallbacks = {}, "connect" \notin Failures PROVE PcbsSpec => []OneForEach
    OBVIOUS
  <1>1. PcbsInit => Unshared(tcp)
    BY AtFirst
  <1>2. TcpInv /\ Unshared(tcp) /\ [PcbsNext]_pcbsVars => Unshared(tcp)'
    <2>1. ASSUME TcpInv, Unshared(tcp), PcbsNext PROVE Unshared(tcp')
      BY <2>1, NextKept DEF Kept
    <2>2. ASSUME Unshared(tcp), UNCHANGED pcbsVars PROVE Unshared(tcp')
      BY <2>2 DEF pcbsVars
    <2> QED  BY <2>1, <2>2
  <1>3. TcpInv /\ Unshared(tcp) => OneForEach
    <2> SUFFICES ASSUME TcpInv, Unshared(tcp) PROVE OneForEach
      OBVIOUS
    <2>1. Good(tcp) /\ tcp.active \in Seq(Ids) /\ tcp.tw \in Seq(Ids)
      BY ListTypes DEF TcpInv, Sane
    <2>2. ToSet(tcp.active \o tcp.tw) = ToSet(tcp.active) \cup ToSet(tcp.tw)
      BY <2>1, Concatenated
    <2>3. \A i \in ToSet(tcp.active \o tcp.tw) : i \in Ids /\ tcp.pcb[i].state \in Conn
      <3>1. ToSet(tcp.active) \subseteq Ids /\ ToSet(tcp.tw) \subseteq Ids
        BY <2>1 DEF ToSet
      <3> QED  BY <2>1, <2>2, <3>1 DEF Good, Conn
    <2> QED  BY <2>3 DEF Unshared, OneForEach
  <1> QED  BY <1>1, <1>2, <1>3, TcpInvariance, PTL DEF PcbsSpec
=============================================================================
