-------------------------------- MODULE Pbuf --------------------------------
(***************************************************************************)
(* Packet buffers (src/src/lwip/src/core/pbuf.c) out of the fixed pools of *)
(* memp.c and the heap.  A pbuf is a buffer in a chain; a chain may be     *)
(* held by several users and may end in a chain of somebody else.  Lengths *)
(* are counted in units of the headers; contents are left out.             *)
(***************************************************************************)
EXTENDS Integers, Sequences, FiniteSets, FiniteSetsExt

CONSTANTS
    PoolIds, RefIds, RamIds,  \* MEMP_PBUF_POOL, MEMP_PBUF, what the heap can hold
    BufSize,                  \* PBUF_POOL_BUFSIZE_ALIGNED
    Layers,                   \* room for headers that the layers ask for
    Lengths,                  \* lengths asked for
    Users                     \* those who hold pointers to chains

ASSUME PbufAssumption ==
    /\ PoolIds \cup RefIds \cup RamIds \subseteq Nat \ {0}
    /\ PoolIds \cap RefIds = {} /\ (PoolIds \cup RefIds) \cap RamIds = {}
    /\ BufSize \in Nat \ {0}
    /\ Layers \subseteq 0 .. BufSize - 1 /\ Lengths \subseteq Nat

VARIABLES
    pbuf,          \* the pbufs by number; one with ref = 0 is in its pool
    held,          \* the pointer each user holds, 0 for none
    pbuf_free_ooseq_pending

pbufVars == <<pbuf, held, pbuf_free_ooseq_pending>>

Ids == PoolIds \cup RefIds \cup RamIds

InPool == [ref |-> 0, len |-> 0, tot_len |-> 0, room |-> 0, size |-> 0, next |-> 0]

Free(ids) == {i \in ids : pbuf[i].ref = 0}

\* The chain that begins at i.
Chain(b, i) ==
    LET from[j \in Ids \cup {0}] ==
            IF j = 0 THEN <<>> ELSE <<j>> \o from[b[j].next]
    IN from[i]

Members(i) == {Chain(pbuf, i)[k] : k \in 1 .. Len(Chain(pbuf, i))}
LastIn(i)    == Chain(pbuf, i)[Len(Chain(pbuf, i))]

\* Nobody's chain runs into i from before it, or into the pbufs after it.
IsHead(i)    == \A j \in Ids : pbuf[j].next # i
Exclusive(i) == IsHead(i) /\ \A j \in Members(i) \ {i} : pbuf[j].ref = 1

-----------------------------------------------------------------------------
PbufInit ==
    /\ pbuf = [i \in Ids |-> InPool]
    /\ held = [u \in Users |-> 0]
    /\ pbuf_free_ooseq_pending = FALSE

-----------------------------------------------------------------------------
\* pbuf_alloc, PBUF_POOL: the first buffer has the headers, the rest follow.
NeededFrom(offset, length) ==
    IF length <= BufSize - offset THEN 1
    ELSE 1 + ((length - (BufSize - offset) + BufSize - 1) \div BufSize)

\* The n pbufs of a chain that lacks none; the last has what is left over.
PoolChain(b, ids, offset, length) ==
    LET n      == Len(ids)
        before == [k \in 1 .. n |-> IF k = 1 THEN 0 ELSE BufSize - offset + (k - 2) * BufSize]
        rest   == [k \in 1 .. n |-> length - before[k]]
        space  == [k \in 1 .. n |-> IF k = 1 THEN BufSize - offset ELSE BufSize]
        at(i)  == CHOOSE k \in 1 .. n : ids[k] = i
    IN [i \in Ids |->
          IF \A k \in 1 .. n : ids[k] # i THEN b[i]
          ELSE [ref |-> 1, tot_len |-> rest[at(i)],
                len |-> Min({rest[at(i)], space[at(i)]}),
                room |-> IF at(i) = 1 THEN offset ELSE 0, size |-> BufSize,
                next |-> IF at(i) = n THEN 0 ELSE ids[at(i) + 1]]]

\* ids in the order of a list of n of them
Lowest(ids, n) ==
    [k \in 1 .. n |-> CHOOSE i \in ids : Cardinality({j \in ids : j < i}) = k - 1]

AllocPool(u, offset, length) ==
    LET n == NeededFrom(offset, length)
    IN /\ held[u] = 0
       /\ n <= Cardinality(Free(PoolIds))
       /\ pbuf' = PoolChain(pbuf, Lowest(Free(PoolIds), n), offset, length)
       /\ held' = [held EXCEPT ![u] = Lowest(Free(PoolIds), n)[1]]
       /\ UNCHANGED pbuf_free_ooseq_pending

\* The pool runs out on the way: the part of the chain there is is freed, and
\* the next sys_check_timeouts is asked to free out-of-sequence segments.
AllocPoolFails(offset, length) ==
    /\ NeededFrom(offset, length) > Cardinality(Free(PoolIds))
    /\ pbuf_free_ooseq_pending' = TRUE
    /\ UNCHANGED <<pbuf, held>>

\* pbuf_alloc, PBUF_RAM, PBUF_REF and PBUF_ROM: one block, or NULL.
AllocOne(u, ids, offset, length) ==
    /\ held[u] = 0
    /\ Free(ids) # {}
    /\ LET i == Min(Free(ids))
       IN /\ pbuf' = [pbuf EXCEPT ![i] =
                        [ref |-> 1, len |-> length, tot_len |-> length,
                         room |-> IF i \in RamIds THEN offset ELSE 0,
                         size |-> IF i \in RamIds THEN offset + length ELSE length,
                         next |-> 0]]
          /\ held' = [held EXCEPT ![u] = i]
    /\ UNCHANGED pbuf_free_ooseq_pending

-----------------------------------------------------------------------------
\* pbuf_free: pbufs from the head of the chain on are given back as long as
\* their count comes down to 0.
Dropped(b, i) ==
    LET walk[j \in Ids \cup {0}] ==
            IF j = 0 THEN {}
            ELSE IF b[j].ref > 1 THEN {} ELSE {j} \cup walk[b[j].next]
    IN walk[i]

\* The pbuf that the walk stops at, still referenced; 0 at the end of the chain.
StopsAt(b, i) ==
    LET walk[j \in Ids \cup {0}] ==
            IF j = 0 THEN 0 ELSE IF b[j].ref > 1 THEN j ELSE walk[b[j].next]
    IN walk[i]

Bug_Freed(b, i) ==
    [j \in Ids |->
        IF j \in Members(i) /\ b[i].ref = 1 THEN InPool
        ELSE IF j = i THEN [b[j] EXCEPT !.ref = @ - 1] ELSE b[j]]
Freed(b, i) ==
    [j \in Ids |->
        IF j \in Dropped(b, i) THEN InPool
        ELSE IF j = StopsAt(b, i) THEN [b[j] EXCEPT !.ref = @ - 1]
        ELSE b[j]]

pbuf_free(u) ==
    /\ held[u] # 0
    /\ pbuf' = Freed(pbuf, held[u])
    /\ held' = [held EXCEPT ![u] = 0]
    /\ UNCHANGED pbuf_free_ooseq_pending

\* pbuf_ref: v becomes another user of the chain of u.
pbuf_ref(u, v) ==
    /\ held[u] # 0 /\ held[v] = 0
    /\ pbuf' = [pbuf EXCEPT ![held[u]].ref = @ + 1]
    /\ held' = [held EXCEPT ![v] = held[u]]
    /\ UNCHANGED pbuf_free_ooseq_pending

-----------------------------------------------------------------------------
\* pbuf_cat: all totals of the first chain grow, and its end points to the other.
Bug_Joined(h, t) ==
    [i \in Ids |->
        IF i = LastIn(h) THEN [pbuf[i] EXCEPT !.tot_len = @ + pbuf[t].tot_len, !.next = t]
        ELSE pbuf[i]]
Joined(h, t) ==
    [i \in Ids |->
        IF i \notin Members(h) THEN pbuf[i]
        ELSE [pbuf[i] EXCEPT !.tot_len = @ + pbuf[t].tot_len,
                             !.next = IF i = LastIn(h) THEN t ELSE @]]

\* The callers join chains of their own, the head of which nobody else has
\* put behind another pbuf.
Joinable(h, t) ==
    /\ h # 0 /\ t # 0 /\ Exclusive(h)
    /\ h \notin Members(t) /\ t \notin Members(h)

\* The reference of the caller to the second chain becomes that of the first.
pbuf_cat(u, v) ==
    /\ Joinable(held[u], held[v])
    /\ pbuf' = Joined(held[u], held[v])
    /\ held' = [held EXCEPT ![v] = 0]
    /\ UNCHANGED pbuf_free_ooseq_pending

\* pbuf_chain: the caller keeps its own.
pbuf_chain(u, v) ==
    /\ Joinable(held[u], held[v])
    /\ pbuf' = [Joined(held[u], held[v]) EXCEPT ![held[v]].ref = @ + 1]
    /\ UNCHANGED <<held, pbuf_free_ooseq_pending>>

\* pbuf_dechain: cut the first pbuf off, and drop its reference to the rest.
pbuf_dechain(u) ==
    LET p == held[u]
        q == pbuf[p].next
        cut == [pbuf EXCEPT ![p].next = 0, ![p].tot_len = pbuf[p].len,
                            ![q].tot_len = pbuf[p].tot_len - pbuf[p].len]
    IN /\ p # 0 /\ IsHead(p) /\ q # 0
       /\ pbuf' = Freed(cut, q)
       /\ UNCHANGED <<held, pbuf_free_ooseq_pending>>

-----------------------------------------------------------------------------
\* pbuf_realloc: pbufs that are wholly kept, the new last one, the rest.
Before(i, j) == pbuf[i].tot_len - pbuf[j].tot_len

\* The first pbuf that holds what is left of the new length.
NewLast(i, length) ==
    LET c == Chain(pbuf, i)
    IN c[Min({k \in 1 .. Len(c) : length - Before(i, c[k]) <= pbuf[c[k]].len})]

Shrunk(i, length) ==
    LET q    == NewLast(i, length)
        left == length - Before(i, q)
        kept == Members(i) \ Members(q)
    IN [j \in Ids |->
          CASE j = q -> [pbuf[j] EXCEPT !.len = left, !.tot_len = left, !.next = 0,
                                        !.size = IF j \in RamIds THEN pbuf[j].room + left ELSE @]
            [] j \in kept -> [pbuf[j] EXCEPT !.tot_len = @ + length - pbuf[i].tot_len]
            [] OTHER -> pbuf[j]]

pbuf_realloc(u, length) ==
    LET p    == held[u]
        tail == pbuf[NewLast(p, length)].next
    IN /\ p # 0 /\ Exclusive(p) /\ length < pbuf[p].tot_len
       /\ pbuf' = IF tail = 0 THEN Shrunk(p, length) ELSE Freed(Shrunk(p, length), tail)
       /\ UNCHANGED <<held, pbuf_free_ooseq_pending>>

\* pbuf_header: reveal a header, where there is room for it in front, or hide one.
Movable(i, inc) ==
    IF inc >= 0 THEN i \notin RefIds /\ inc <= pbuf[i].room ELSE -inc <= pbuf[i].len

pbuf_header(u, inc) ==
    LET p == held[u]
    IN /\ p # 0 /\ IsHead(p) /\ inc # 0 /\ Movable(p, inc)
       /\ pbuf' = [pbuf EXCEPT ![p].room = @ - inc, ![p].len = @ + inc, ![p].tot_len = @ + inc]
       /\ UNCHANGED <<held, pbuf_free_ooseq_pending>>

\* pbuf_coalesce: a chain is replaced by one block, if there is memory for it.
pbuf_coalesce(u, offset) ==
    LET p == held[u]
        q == Min(Free(RamIds))
    IN /\ p # 0 /\ pbuf[p].next # 0 /\ Free(RamIds) # {}
       /\ pbuf' = [Freed(pbuf, p) EXCEPT ![q] =
                     [ref |-> 1, len |-> pbuf[p].tot_len, tot_len |-> pbuf[p].tot_len,
                      room |-> offset, size |-> offset + pbuf[p].tot_len, next |-> 0]]
       /\ held' = [held EXCEPT ![u] = q]
       /\ UNCHANGED pbuf_free_ooseq_pending

\* PBUF_CHECK_FREE_OOSEQ in sys_check_timeouts; the segments are TCP's.
pbuf_free_ooseq ==
    /\ pbuf_free_ooseq_pending
    /\ pbuf_free_ooseq_pending' = FALSE
    /\ UNCHANGED <<pbuf, held>>

PbufNext ==
    \/ \E u \in Users, offset \in Layers, length \in Lengths :
          \/ AllocPool(u, offset, length)
          \/ AllocPoolFails(offset, length)
          \/ AllocOne(u, RamIds, offset, length)
    \/ \E u \in Users, length \in Lengths : AllocOne(u, RefIds, 0, length)
    \/ \E u, v \in Users : pbuf_ref(u, v) \/ pbuf_cat(u, v) \/ pbuf_chain(u, v)
    \/ \E u \in Users : pbuf_free(u) \/ pbuf_dechain(u)
    \/ \E u \in Users, length \in Lengths : pbuf_realloc(u, length)
    \/ \E u \in Users, inc \in {-1, 1} : pbuf_header(u, inc)
    \/ \E u \in Users, offset \in Layers : pbuf_coalesce(u, offset)
    \/ pbuf_free_ooseq

PbufSpec == PbufInit /\ [][PbufNext]_pbufVars

-----------------------------------------------------------------------------
PbufTypeOK ==
    /\ \A i \in Ids :
          /\ DOMAIN pbuf[i] = DOMAIN InPool
          /\ \A f \in DOMAIN InPool : pbuf[i][f] \in Nat
          /\ pbuf[i].next \in Ids \cup {0}
    /\ held \in [Users -> Ids \cup {0}]
    /\ pbuf_free_ooseq_pending \in BOOLEAN

\* "the reference count always equals the number of pointers that refer to this
\* pbuf.  This can be pointers from an application, the stack itself, or
\* pbuf->next pointers from a chain" (pbuf.h:105): nothing in use is given back
\* and nothing is kept that nobody can reach.
RefsCounted ==
    \A i \in Ids : pbuf[i].ref = Cardinality({u \in Users : held[u] = i})
                               + Cardinality({j \in Ids : pbuf[j].next = i})

\* "p->tot_len == p->len + (p->next? p->next->tot_len: 0)" (pbuf.h:91), for every
\* pbuf of every chain, and the payload stays within the buffer.
LengthsAgree ==
    /\ PbufTypeOK
    /\ \A i \in Ids : pbuf[i].ref > 0 =>
        /\ pbuf[i].tot_len = pbuf[i].len
                             + (IF pbuf[i].next = 0 THEN 0 ELSE pbuf[pbuf[i].next].tot_len)
        /\ pbuf[i].room + pbuf[i].len <= pbuf[i].size

\* Chains are counted and measured right, however they share their ends: both of
\* the above (pbuf_alloc, pbuf_free, pbuf_cat, pbuf_dechain, pbuf_realloc,
\* pbuf_header).
ChainsSane == RefsCounted /\ LengthsAgree
=============================================================================
