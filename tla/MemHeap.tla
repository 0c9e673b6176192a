------------------------------- MODULE MemHeap -------------------------------
(***************************************************************************)
(* The heap of lwIP (src/src/lwip/src/core/mem.c): a list of blocks in the *)
(* order of their addresses, each with a header that names its neighbours, *)
(* and a pointer to the lowest free one.  Offsets and sizes are counted in *)
(* units of MEM_ALIGNMENT bytes, so a request is already aligned.  One     *)
(* step is one call; with NO_SYS nothing interrupts it.                    *)
(***************************************************************************)
EXTENDS Integers, FiniteSets, FiniteSetsExt, TLC

CONSTANTS
    HeapSize,    \* MEM_SIZE_ALIGNED
    Header,      \* SIZEOF_STRUCT_MEM
    MinSize,     \* MIN_SIZE_ALIGNED
    Requests     \* sizes asked for

ASSUME HeapAssumption ==
    /\ HeapSize \in Nat /\ Header \in Nat \ {0} /\ MinSize \in Nat \ {0}
    /\ Header + MinSize <= HeapSize
    /\ Requests \subseteq Nat

VARIABLES
    ram,     \* the headers in the list, by their offset
    lfree,   \* offset of the lowest free block, or ram_end
    owned    \* history: the blocks given out and the sizes asked for

heapVars == <<ram, lfree, owned>>

ram_end == HeapSize
NULL    == -1

Blocks == DOMAIN ram \ {ram_end}

\* Room for the user between the header at b and the next one.
Room(b) == ram[b].next - (b + Header)

\* A request is rounded up to the least size of a block.
Rounded(size) == IF size < MinSize THEN MinSize ELSE size

\* r with one header put in or changed.
Put(r, b, h) == [x \in DOMAIN r \cup {b} |-> IF x = b THEN h ELSE r[x]]

\* The back link of the block after b, which stays as it is at the end.
Linked(r, b) ==
    LET n == r[b].next
    IN IF n = ram_end THEN r ELSE Put(r, n, [r[n] EXCEPT !.prev = b])

\* Put a free header at mid, splitting what lies between at and its next.
Split(r, at, mid, used) ==
    LET rest == [next |-> r[at].next, prev |-> at, used |-> FALSE]
        cut  == [r[at] EXCEPT !.next = mid, !.used = used]
    IN Linked(Put(Put(r, at, cut), mid, rest), mid)

-----------------------------------------------------------------------------
\* mem_init
HeapInit ==
    /\ ram = [b \in {0, ram_end} |->
                IF b = 0 THEN [next |-> HeapSize, prev |-> 0, used |-> FALSE]
                ELSE [next |-> HeapSize, prev |-> HeapSize, used |-> TRUE]]
    /\ lfree = 0
    /\ owned = [b \in {} |-> 0]

-----------------------------------------------------------------------------
\* mem_malloc: the first free block from lfree on with room for the request.
Candidates(size) ==
    {b \in Blocks : /\ b >= lfree /\ b < HeapSize - size
                    /\ ~ram[b].used /\ Room(b) >= size}

\* The rest of the block is cut off when a header and a least block fit in it.
Bug_CutsOff(b, size) == Room(b) > size
CutsOff(b, size) == Room(b) >= size + Header + MinSize

Allocated(b, size) ==
    IF CutsOff(b, size) THEN Split(ram, b, b + Header + size, TRUE)
    ELSE Put(ram, b, [ram[b] EXCEPT !.used = TRUE])

\* When the lowest free block was taken the next free one is looked for.
LowestAfter(r, b) ==
    IF b # lfree THEN lfree
    ELSE Min({c \in DOMAIN r : c >= b /\ (~r[c].used \/ c = ram_end)})

Malloc(size) ==
    LET want == Rounded(size)
        b    == Min(Candidates(want))
    IN /\ size # 0 /\ want <= HeapSize
       /\ Candidates(want) # {}
       /\ ram' = Allocated(b, want)
       /\ lfree' = LowestAfter(ram', b)
       /\ owned' = Put(owned, b, size)

\* No block is large enough: mem_malloc returns NULL.
MallocFails(size) ==
    /\ size = 0 \/ Rounded(size) > HeapSize \/ Candidates(Rounded(size)) = {}
    /\ UNCHANGED heapVars

-----------------------------------------------------------------------------
\* The block at y, which follows the one at b, becomes part of that.
Combined(r, b, y) ==
    [x \in DOMAIN r \ {y} |->
        CASE x = b         -> [r[b] EXCEPT !.next = r[y].next]
          [] x = r[y].next -> [r[x] EXCEPT !.prev = b]
          [] OTHER         -> r[x]]

\* plug_holes: join b with a free block after it, then with a free one before.
Forward(r, b) ==
    LET n == r[b].next
    IN IF n = ram_end \/ r[n].used THEN r ELSE Combined(r, b, n)

Backward(r, b) ==
    LET p == r[b].prev
    IN IF p = b \/ r[p].used THEN r ELSE Combined(r, p, b)

plug_holes(r, b) == Backward(Forward(r, b), b)

\* The lowest free block moves along when the one it was is joined.
LowestJoined(r, low, b) ==
    LET fwd == IF low = r[b].next /\ low # ram_end THEN b ELSE low
        p   == r[b].prev
    IN IF p # b /\ ~r[p].used /\ fwd = b THEN p ELSE fwd

mem_free(b) ==
    LET freed == Put(ram, b, [ram[b] EXCEPT !.used = FALSE])
        low   == IF b < lfree THEN b ELSE lfree
    IN /\ b \in DOMAIN owned
       /\ ram' = plug_holes(freed, b)
       /\ lfree' = LowestJoined(freed, low, b)
       /\ owned' = [x \in DOMAIN owned \ {b} |-> owned[x]]

-----------------------------------------------------------------------------
\* mem_trim, the next block is free: its header moves down.
Moved(b, size) ==
    LET n    == ram[b].next
        mid  == b + Header + size
        rest == [next |-> ram[n].next, prev |-> b, used |-> FALSE]
        cut  == [x \in DOMAIN ram \ {n} |-> ram[x]]
    IN Linked(Put(Put(cut, b, [ram[b] EXCEPT !.next = mid]), mid, rest), mid)

\* The same when the next block is used and enough is left over.
Shortened(b, size) ==
    IF ~ram[ram[b].next].used THEN Moved(b, size)
    ELSE IF CutsOff(b, size) THEN Split(ram, b, b + Header + size, TRUE)
    ELSE ram

LowestTrimmed(b, size) ==
    LET n   == ram[b].next
        mid == b + Header + size
    IN IF ~ram[n].used THEN (IF lfree = n THEN mid ELSE lfree)
       ELSE IF CutsOff(b, size) /\ mid < lfree THEN mid
       ELSE lfree

mem_trim(b, size) ==
    LET want == Rounded(size)
    IN /\ b \in DOMAIN owned
       /\ size <= owned[b] /\ want < Room(b)
       /\ ram' = Shortened(b, want)
       /\ lfree' = LowestTrimmed(b, want)
       /\ owned' = [owned EXCEPT ![b] = size]

HeapNext ==
    \/ \E size \in Requests : Malloc(size) \/ MallocFails(size)
    \/ \E b \in DOMAIN owned : mem_free(b)
    \/ \E b \in DOMAIN owned, size \in Requests : mem_trim(b, size)

HeapSpec == HeapInit /\ [][HeapNext]_heapVars

-----------------------------------------------------------------------------
HeapTypeOK ==
    /\ {0, ram_end} \subseteq DOMAIN ram /\ DOMAIN ram \subseteq 0 .. HeapSize
    /\ \A b \in Blocks : ram[b].next \in DOMAIN ram /\ ram[b].prev \in Blocks
    /\ lfree \in DOMAIN ram
    /\ DOMAIN owned \subseteq DOMAIN ram

\* The used blocks are those given out, the headers follow one another from 0 to
\* the end, and each block has the room asked for, and the least size (mem.c:158).
Disjoint ==
    /\ DOMAIN owned = {b \in Blocks : ram[b].used}
    /\ \A b \in DOMAIN owned : Room(b) >= owned[b]
    /\ \A b \in Blocks :
          /\ Room(b) >= MinSize
          /\ ram[b].next = Min({c \in DOMAIN ram : c > b})
          /\ ram[b].next # ram_end => ram[ram[b].next].prev = b

\* "After this function is through, there should not exist one empty struct mem
\* pointing to another empty struct mem" (mem.c:228), whatever is called next.
NoHoles == \A b \in Blocks : ~ram[b].used => ram[ram[b].next].used

\* "pointer to the lowest free block" (mem.c:191): a search that begins there
\* misses nothing, so a request fails only if no block has room for it.
LowestFree == lfree = Min({b \in DOMAIN ram : ~ram[b].used \/ b = ram_end})

\* Nobody's memory is anybody else's and none is lost to fragmentation or to the
\* search, although mem.c splits, moves and joins headers in four places.
HeapSane == HeapTypeOK /\ Disjoint /\ NoHoles /\ LowestFree
=============================================================================
