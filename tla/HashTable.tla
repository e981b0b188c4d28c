---------------------------- MODULE HashTable ----------------------------
(***************************************************************************)
(* basic_hashtbl_t, kernel/lib/hash_table.h: the open-addressed table      *)
(* under the futexes, the UDP bindings and the drivers' command tables.    *)
(* An item is its key.  The callers look a key up before they insert it.   *)
(***************************************************************************)
EXTENDS Naturals, FiniteSets, FiniteSetsExt

CONSTANTS Keys,
          Hash,       \* hash_32, a function from Keys to numbers
          FirstLog2,  \* the first size, as a power of two (4 in the code)
          LastLog2,   \* bound: growing past this size is out of memory
          HoleLimit   \* holes that never cause a rehash (64 in the code)

VARIABLES items, used, holes, log2_capacity,
          keys        \* what was inserted and not deleted since

vars == <<items, used, holes, log2_capacity, keys>>

Null == "null"
Hole == "hole"
NotItems == {Null, Hole}

Init ==
    /\ items = <<>> /\ used = 0 /\ holes = 0 /\ log2_capacity = 0
    /\ keys = {}

Capacity(tbl) == Cardinality(DOMAIN tbl)

\* The slot that a search from slot h on meets n slots later.
Slot(tbl, h, n) == (h + n) % Capacity(tbl)

\* The first slot with one of the contents, in the order key is searched for.
Probe(tbl, key, contents) ==
    LET At(n) == Slot(tbl, Hash[key] % Capacity(tbl), n)
        n == Min({i \in 0 .. Capacity(tbl) - 1 : tbl[At(i)] \in contents})
    IN  At(n)

\* lookup: whether the item is found.  The search ends at a null, or after a round.
lookup(key) ==
    /\ used > 0
    /\ \E s \in DOMAIN items : items[s] \in {key, Null}
    /\ items[Probe(items, key, {key, Null})] = key

\* rehash: the table of 2^log2 slots with the items of old.
rehash(old, log2) ==
    LET moved[n \in 0 .. Capacity(old)] ==
            IF n = 0 THEN [s \in 0 .. 2 ^ log2 - 1 |-> Null]
            ELSE LET tbl == moved[n - 1]
                     item == old[n - 1]
                 IN  IF item \in NotItems THEN tbl
                     ELSE [tbl EXCEPT ![Probe(tbl, item, {Null})] = item]
    IN  moved[Capacity(old)]

\* grow: the next size.
grow == IF log2_capacity = 0 THEN FirstLog2 ELSE log2_capacity + 1

\* insert: into the first hole or null, after growing where half of it is used.
\* It returns false, and nothing changes, where there is no memory to grow.
insert(key) ==
    LET grows == items = <<>> \/ used >= (2 ^ log2_capacity) \div 2
        tbl == IF grows THEN rehash(items, grow) ELSE items
        slot == Probe(tbl, key, NotItems)
    IN  /\ key \notin keys
        /\ grows => grow <= LastLog2
        /\ items' = [tbl EXCEPT ![slot] = key]
        /\ holes' = IF grows THEN 0 ELSE IF tbl[slot] = Hole THEN holes - 1 ELSE holes
        /\ log2_capacity' = IF grows THEN grow ELSE log2_capacity
        /\ used' = used + 1
        /\ keys' = keys \cup {key}

\* Mutant: the slot becomes null whatever follows it.
Punched_Null(slot) == [items EXCEPT ![slot] = Null]

\* del, at its item: a hole where the search for another key may have to go on.
Punched(slot) ==
    [items EXCEPT ![slot] = IF items[Slot(items, slot, 1)] = Null THEN Null ELSE Hole]

\* del.  Too many holes make it rehash, unless there is no memory for that.
del(key) ==
    /\ lookup(key)
    /\ LET slot == Probe(items, key, {key, Null})
           tbl == Punched(slot)
           count == IF tbl[slot] = Hole THEN holes + 1 ELSE holes
       IN  \/ /\ items' = tbl /\ holes' = count
           \/ /\ count > HoleLimit /\ count > Capacity(tbl) \div 2
              /\ items' = rehash(tbl, log2_capacity) /\ holes' = 0
    /\ used' = used - 1
    /\ keys' = keys \ {key}
    /\ UNCHANGED log2_capacity

clear ==
    /\ items # <<>>
    /\ items' = <<>> /\ used' = 0 /\ holes' = 0 /\ log2_capacity' = 0
    /\ keys' = {}

Next ==
    \/ \E key \in Keys : insert(key) \/ del(key)
    \/ clear

Spec == Init /\ [][Next]_vars

-----------------------------------------------------------------------------
\* Whatever was inserted, deleted, grown over and rehashed before, a lookup finds
\* exactly the keys that are in the table, and used and holes count what they say
\* (hash_table.h:72-226).
MapExact ==
    /\ \A key \in Keys : lookup(key) <=> key \in keys
    /\ used = Cardinality({s \in DOMAIN items : items[s] \notin NotItems})
    /\ holes = Cardinality({s \in DOMAIN items : items[s] = Hole})
=============================================================================
