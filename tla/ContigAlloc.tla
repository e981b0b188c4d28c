---------------------------- MODULE ContigAlloc ----------------------------
(***************************************************************************)
(* contiguous_allocator_t, kernel/lib/contig_alloc.cc: the allocator of    *)
(* address space.  It keeps the free ranges in two trees, ordered by       *)
(* address and by size, and every operation runs under free_addr_lock.     *)
(* Addresses are page numbers, the last page of the space is Last.         *)
(* A failed assertion halts the machine.                                   *)
(***************************************************************************)
EXTENDS Naturals

CONSTANTS Last,
          Sizes,      \* the sizes that callers ask for
          FreesFree   \* whether munmap is also called for what is not mapped

VARIABLES free_addr_by_addr,  \* pairs of address and size
          free_addr_by_size,  \* pairs of size and address
          owned,              \* the pages in use
          halted

vars == <<free_addr_by_addr, free_addr_by_size, owned, halted>>

Pages == 1 .. Last
Range(addr, size) == addr .. addr + size - 1
Inside(addr, size) == addr + size - 1 <= Last
End(r) == r[1] + r[2]
Swapped(ranges) == {<<r[2], r[1]>> : r \in ranges}

\* ext::less of pairs, and the ends of a tree.
Less(r, s) == r[1] < s[1] \/ (r[1] = s[1] /\ r[2] < s[2])
First(tree) == CHOOSE r \in tree : \A s \in tree : ~Less(s, r)
Final(tree) == CHOOSE r \in tree : \A s \in tree : ~Less(r, s)
lower_bound(tree, key) == {r \in tree : ~Less(r, key)}

init ==
    /\ free_addr_by_addr = {<<1, Last>>}
    /\ free_addr_by_size = {<<Last, 1>>}
    /\ owned = {} /\ halted = FALSE

\* The entries gone leave both trees, the entries new go into both.
Replace(gone, new) ==
    /\ free_addr_by_addr' = (free_addr_by_addr \ gone) \cup new
    /\ free_addr_by_size' = (free_addr_by_size \ Swapped(gone)) \cup Swapped(new)

\* The nonempty ones of these ranges.
Nonempty(ranges) == {r \in ranges : r[2] > 0}

\* Mutant: the rest of the range goes back into the tree by address only.
alloc_linear_OneTree(size) ==
    LET place == First(lower_bound(free_addr_by_size, <<size, 0>>))
        block == <<place[2], place[1]>>
    IN  /\ lower_bound(free_addr_by_size, <<size, 0>>) # {}
        /\ free_addr_by_addr' = (free_addr_by_addr \ {block})
               \cup Nonempty({<<block[1] + size, block[2] - size>>})
        /\ free_addr_by_size' = free_addr_by_size \ {place}
        /\ owned' = owned \cup Range(block[1], size)
        /\ UNCHANGED halted

\* alloc_linear: the smallest range that is big enough, and of those the lowest.
alloc_linear(size) ==
    LET enough == lower_bound(free_addr_by_size, <<size, 0>>)
        place == First(enough)
        addr == place[2]
    IN  /\ enough # {}
        /\ Replace({<<addr, place[1]>>}, Nonempty({<<addr + size, place[1] - size>>}))
        /\ owned' = owned \cup Range(addr, size)
        /\ UNCHANGED halted

\* take_linear, where it carves [addr, end) out of a range.
Carved(r, addr, end) ==
    Nonempty({<<r[1], IF addr > r[1] THEN addr - r[1] ELSE 0>>,
              <<end, IF End(r) > end THEN End(r) - end ELSE 0>>})

\* take_linear: the ranges from addr on, the one before them and the first of them.
From(addr) == lower_bound(free_addr_by_addr, <<addr, 0>>)
Pred(addr) == LET before == free_addr_by_addr \ From(addr)
              IN  IF before = {} THEN <<0, 0>> ELSE Final(before)
Item(addr) == IF From(addr) = {} THEN <<0, 0>> ELSE First(From(addr))

\* take_linear, the refusal that require_free asks for.
Refuses(addr, size) ==
    \E r \in {Item(addr), Pred(addr)} :
        addr >= r[1] /\ addr < End(r) /\ addr + size - r[1] < size

\* take_linear.  The loop over the ranges from addr on does not advance: it ends at
\* one that is cut in two, and extracts one that is used up a second time, which the
\* assertions of the trees or of the loop catch.
take_linear(addr, size, require_free) ==
    LET end == addr + size
        pred == Pred(addr)
        item == Item(addr)
        cut == (IF End(pred) > addr THEN {pred} ELSE {})
                   \cup (IF From(addr) # {} /\ item[1] < end THEN {item} ELSE {})
    IN  /\ ~(require_free /\ Refuses(addr, size))
        /\ IF free_addr_by_addr = {} \/ (item \in cut /\ End(item) <= end)
           THEN halted' = TRUE /\ UNCHANGED <<free_addr_by_addr, free_addr_by_size, owned>>
           ELSE /\ Replace(cut, UNION {Carved(r, addr, end) : r \in cut})
                /\ owned' = owned \cup Range(addr, size)
                /\ UNCHANGED halted

\* Mutant: a range that only touches the freed one is left alone.
Merges_Overlap(r, end) == r[1] < end

\* release_linear, the ranges after the freed one that are merged with it.
Merges(r, end) == r[1] <= end

\* release_linear: the range goes in and is merged with its predecessor and with its
\* successors.  What the last of these ends at is the new end, except at the end of
\* the tree.
release_linear(addr, size) ==
    LET range == <<addr, size>>
        later == lower_bound(free_addr_by_addr, range)
        before == free_addr_by_addr \ later
        pred == {r \in before : r = Final(before) /\ End(r) >= addr}
        start == IF pred = {} THEN addr ELSE Final(pred)[1]
        end == IF pred # {} /\ End(Final(pred)) > addr + size THEN End(Final(pred))
               ELSE addr + size
        merged == {r \in later : Merges(r, end)}
        stop == IF merged = {} \/ (merged = later /\ End(Final(merged)) < end) THEN end
                ELSE End(Final(merged))
    IN  /\ IF range \in free_addr_by_addr
           THEN UNCHANGED <<free_addr_by_addr, free_addr_by_size>>
           ELSE Replace(pred \cup merged, {<<start, stop - start>>})
        /\ owned' = owned \ Range(addr, size)
        /\ UNCHANGED halted

\* mmap for any address or a given one, mremap in place, and munmap of a part.
Next ==
    /\ ~halted
    /\ \E size \in Sizes :
          \/ alloc_linear(size)
          \/ \E addr \in Pages :
                /\ Inside(addr, size)
                /\ \/ \E require_free \in BOOLEAN : take_linear(addr, size, require_free)
                   \/ /\ FreesFree \/ Range(addr, size) \subseteq owned
                      /\ release_linear(addr, size)

Spec == init /\ [][Next]_vars

-----------------------------------------------------------------------------
\* The free ranges are exactly the pages that nobody has, each of them once, with
\* nothing left unmerged, and the two trees hold the same ranges: what the asserts
\* and validate_locked (contig_alloc.cc:642-684) look for after every operation.
RangesExact ==
    /\ free_addr_by_size = Swapped(free_addr_by_addr)
    /\ UNION {Range(r[1], r[2]) : r \in free_addr_by_addr} = Pages \ owned
    /\ \A r, s \in free_addr_by_addr : r = s \/ End(r) < s[1] \/ End(s) < r[1]

\* No operation runs into one of the assertions.  Not satisfied: a take that uses up a
\* free range from its start does (contig_alloc.cc:353).
NeverHalts == ~halted

\* What require_free refuses includes everything that is in use (mmu.cc:2272, 2607).
\* Not satisfied: the test in contig_alloc.cc:283-291 is never true.
TakesOnlyFree ==
    \A addr \in Pages, size \in Sizes :
        Range(addr, size) \cap owned # {} => Refuses(addr, size)
=============================================================================
