---------------------------- MODULE PhysAlloc ----------------------------
(***************************************************************************)
(* The physical page allocator, kernel/arch/x86_64/cpu/phys_alloc.{h,cc}.  *)
(* One word per page: the index of the next free page, or a reference      *)
(* count with the top bit set.  -1, the end of the free list, has the top  *)
(* bit set too.  alloc_lock makes each operation one action, except        *)
(* alloc_multiple, which cuts its pages off the list under the lock, gives *)
(* them to a callback without it, and takes it again to put back what the  *)
(* callback did not want.                                                  *)
(*                                                                         *)
(* A failed assertion halts the machine.                                   *)
(***************************************************************************)
EXTENDS Naturals, Sequences, FiniteSets

CONSTANTS Threads,
          Pages,      \* the number of pages
          EntryBits,  \* bits of entry_t (32 in the code)
          MaxRefs,    \* the most references to a page
          BatchSize,  \* capacity of free_batch_t (16 in the code)
          Counts      \* the numbers of pages alloc_multiple is called for

VARIABLES entries, next_free, free_page_count,
          held,     \* held[t][p]: the references thread t has to page p
          batch,    \* per thread: the pages in its free_batch_t
          want,     \* alloc_multiple: pages still to provide, per thread
          first,    \* and the next of them
          after,    \* and what followed the last of them
          clobbered,\* the list was put back over one that had changed
          halted

state == <<entries, next_free, free_page_count>>
locals == <<want, first, after>>
vars == <<state, held, batch, locals, clobbered, halted>>

Index == 0 .. Pages - 1
Modulus == 2 ^ EntryBits
used_mask == 2 ^ (EntryBits - 1)
Nil == Modulus - 1
Used(e) == e >= used_mask

\* After init and add_free_space for all of the memory.
Init ==
    /\ entries = [p \in Index |-> IF p + 1 = Pages THEN Nil ELSE p + 1]
    /\ next_free = 0 /\ free_page_count = Pages
    /\ held = [t \in Threads |-> [p \in Index |-> 0]]
    /\ batch = [t \in Threads |-> <<>>]
    /\ want = [t \in Threads |-> 0]
    /\ first = [t \in Threads |-> Nil] /\ after = [t \in Threads |-> Nil]
    /\ clobbered = FALSE /\ halted = FALSE

Idle(t) == want[t] = 0

\* Mutant: the page is not marked.
alloc_one_Unmarked(t) ==
    /\ Idle(t) /\ next_free # Nil
    /\ next_free' = entries[next_free]
    /\ held' = [held EXCEPT ![t][next_free] = @ + 1]
    /\ UNCHANGED <<entries, free_page_count, batch, locals, clobbered, halted>>

\* alloc_one: free_page_count stays as it is.
alloc_one(t) ==
    /\ Idle(t) /\ next_free # Nil
    /\ entries' = [entries EXCEPT ![next_free] = used_mask + 1]
    /\ next_free' = entries[next_free]
    /\ held' = [held EXCEPT ![t][next_free] = @ + 1]
    /\ UNCHANGED <<free_page_count, batch, locals, clobbered, halted>>

addref(t, p) ==
    /\ Idle(t) /\ held[t][p] > 0
    /\ entries[p] < used_mask + MaxRefs
    /\ entries' = [entries EXCEPT ![p] = @ + 1]
    /\ held' = [held EXCEPT ![t][p] = @ + 1]
    /\ UNCHANGED <<next_free, free_page_count, batch, locals, clobbered, halted>>

\* release_one_locked, on a list s: the last reference frees the page.
Release(s, p) ==
    IF s.entries[p] = used_mask + 1
    THEN [entries |-> [s.entries EXCEPT ![p] = s.next_free], next_free |-> p,
          count |-> (s.count + 1) % Modulus]
    ELSE [s EXCEPT !.entries[p] = @ - 1]

ReleaseAll(pages) ==
    LET f[n \in 0 .. Len(pages)] ==
            IF n = 0 THEN [entries |-> entries, next_free |-> next_free, count |-> free_page_count]
            ELSE Release(f[n - 1], pages[n])
        s == f[Len(pages)]
    IN  /\ entries' = s.entries /\ next_free' = s.next_free /\ free_page_count' = s.count

release_one(t, p) ==
    /\ Idle(t) /\ held[t][p] > 0
    /\ ReleaseAll(<<p>>)
    /\ held' = [held EXCEPT ![t][p] = @ - 1]
    /\ UNCHANGED <<batch, locals, clobbered, halted>>

\* free_batch_t::flush releases upwards or downwards.
FlushOrder(b) ==
    IF Len(b) < 2 \/ b[1] > b[2] THEN b ELSE [i \in DOMAIN b |-> b[Len(b) + 1 - i]]

\* free_batch_t::free: a full batch is flushed first.
BatchFree(t, p) ==
    /\ Idle(t) /\ held[t][p] > 0
    /\ held' = [held EXCEPT ![t][p] = @ - 1]
    /\ IF Len(batch[t]) = BatchSize
       THEN ReleaseAll(FlushOrder(batch[t])) /\ batch' = [batch EXCEPT ![t] = <<p>>]
       ELSE batch' = [batch EXCEPT ![t] = Append(@, p)] /\ UNCHANGED state
    /\ UNCHANGED <<locals, clobbered, halted>>

\* The destructor of the batch.
BatchFlush(t) ==
    /\ batch[t] # <<>>
    /\ ReleaseAll(FlushOrder(batch[t]))
    /\ batch' = [batch EXCEPT ![t] = <<>>]
    /\ UNCHANGED <<held, locals, clobbered, halted>>

\* The list from entry e on: its n-th follower.
Follower(e, n) ==
    LET f[k \in 0 .. n] == IF k = 0 \/ f[k - 1] = Nil THEN (IF k = 0 THEN e ELSE Nil)
                           ELSE entries[f[k - 1]]
    IN  f[n]

\* alloc_multiple, under the lock.  The assertion that the first entry is not
\* marked fails for the empty list; a list that is too short is not an error.
alloc_multiple(t, n) ==
    /\ Idle(t)
    /\ IF Used(next_free)
       THEN halted' = TRUE /\ UNCHANGED <<next_free, free_page_count, locals>>
       ELSE /\ n = 1 \/ Follower(next_free, n - 1) # Nil
            /\ next_free' = Follower(next_free, n)
            /\ free_page_count' = (free_page_count + Modulus - n) % Modulus
            /\ want' = [want EXCEPT ![t] = n]
            /\ first' = [first EXCEPT ![t] = next_free]
            /\ after' = [after EXCEPT ![t] = Follower(next_free, n)]
            /\ UNCHANGED halted
    /\ UNCHANGED <<entries, held, batch, clobbered>>

\* The callback takes the page.  The assertion that the next entry is not
\* marked fails for the last page of the list.
Provide(t) ==
    /\ want[t] > 0
    /\ LET p == first[t]
       IN  IF Used(entries[p])
           THEN halted' = TRUE /\ UNCHANGED <<entries, held, locals>>
           ELSE /\ entries' = [entries EXCEPT ![p] = used_mask + 1]
                /\ held' = [held EXCEPT ![t][p] = @ + 1]
                /\ want' = [want EXCEPT ![t] = @ - 1]
                /\ first' = [first EXCEPT ![t] = IF want[t] = 1 THEN Nil ELSE entries[p]]
                /\ after' = [after EXCEPT ![t] = IF want[t] = 1 THEN Nil ELSE @]
                /\ UNCHANGED halted
    /\ UNCHANGED <<next_free, free_page_count, batch, clobbered>>

\* The callback has refused as many pages as are left: they become the free
\* list, in front of what followed them.
Splice(t) ==
    /\ want[t] > 0
    /\ free_page_count' = (free_page_count + want[t]) % Modulus
    /\ next_free' = first[t]
    /\ clobbered' = (clobbered \/ next_free # after[t])
    /\ want' = [want EXCEPT ![t] = 0]
    /\ first' = [first EXCEPT ![t] = Nil] /\ after' = [after EXCEPT ![t] = Nil]
    /\ UNCHANGED <<entries, held, batch, halted>>

Next ==
    /\ ~halted /\ ~clobbered
    /\ \E t \in Threads :
        \/ alloc_one(t) \/ BatchFlush(t) \/ Provide(t) \/ Splice(t)
        \/ \E p \in Index : addref(t, p) \/ release_one(t, p) \/ BatchFree(t, p)
        \/ \E n \in Counts : alloc_multiple(t, n)

Spec == Init /\ [][Next]_vars

-----------------------------------------------------------------------------
\* The pages on the list that starts at e.
List(e) == {Follower(e, n) : n \in 0 .. Pages} \ {Nil}

\* The pages alloc_multiple has cut off and not provided yet.
CutOff(t) == {Follower(first[t], n) : n \in 0 .. want[t] - 1} \ {Nil}

References(p) ==
    LET n[S \in SUBSET Threads] ==
            IF S = {} THEN 0
            ELSE LET t == CHOOSE u \in S : TRUE
                 IN  held[t][p] + Cardinality({i \in DOMAIN batch[t] : batch[t][i] = p}) + n[S \ {t}]
    IN  n[Threads]

\* Every page is free, on its way to a callback, or has as many references as
\* its entry counts; no page is two of these.  This holds unless the pages a
\* callback refused overwrote a changed list (phys_alloc.h:253-260).
PagesConserved ==
    ~clobbered =>
    \A p \in Index :
        LET cut == {t \in Threads : p \in CutOff(t)}
            places == IF p \in List(next_free) THEN cut \cup {"free"} ELSE cut
        IN  IF Used(entries[p]) /\ entries[p] # Nil
            THEN places = {} /\ entries[p] = used_mask + References(p) /\ References(p) > 0
            ELSE Cardinality(places) = 1 /\ References(p) = 0

\* validate: assert(free_page_count == free_count) (phys_alloc.cc:112).
FreeCountExact ==
    (\A t \in Threads : want[t] = 0) => free_page_count = Cardinality(List(next_free))

\* "Returns false with no memory allocated on failure" (phys_alloc.h:33).
FailsSoftly == ~halted
=============================================================================
