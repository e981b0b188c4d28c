----------------------------- MODULE Virtio -----------------------------
(***************************************************************************)
(* A virtqueue of kernel/device/virtio-base/virtio-base.cc and the block   *)
(* driver kernel/device/virtio-blk/virtio-blk.cc on top of it.  A request  *)
(* is a chain of descriptors taken from a free list that runs through the  *)
(* descriptor table; the driver offers the chain's head in the available   *)
(* ring, the device returns it in the used ring, and the interrupt handler *)
(* gives the chain back and calls the completions.                         *)
(*                                                                         *)
(* queue_lock makes each of the queue's operations one action.  The block  *)
(* driver's per_queue_lock is held across two of them, and while a thread  *)
(* waits for descriptors.  Ring indexes are unsigned and wrap; the queue   *)
(* starts as one that has been in use, with the indexes at Start.          *)
(***************************************************************************)
EXTENDS Iocp, Sequences, FiniteSets

CONSTANTS Requests,   \* one thread issues each
          Need,       \* Need[r]: the descriptors of the chain of r
          Size,       \* descriptors in the table, entries in each ring
          IndexRange, \* the number of values of a ring index, 2^16 in the code
          Start       \* the ring indexes at the beginning

VARIABLES pc, chain,                   \* per request: its thread, its descriptors
          per_queue_lock,              \* the thread that has it, or "none"
          next, linked,                \* descriptor table: next, flags.next
          desc_first_free, desc_free_count,
          avail_ring, avail_idx, used_tail,
          completions,                 \* head descriptor -> request
          finished_completions,        \* what the interrupt handler has to invoke
          io_iocp, caller_iocp,        \* the completion objects of each request
          deleted,                     \* requests that have been deleted
          seen, busy,                  \* the device: available entries taken, chains
          used_ring, used_idx, irq

table == <<next, linked, desc_first_free, desc_free_count>>
avail == <<avail_ring, avail_idx, completions>>
used == <<used_ring, used_idx>>
done == <<finished_completions, io_iocp, caller_iocp, deleted>>
device == <<seen, busy>>
vars == <<pc, chain, per_queue_lock, table, avail, used_tail, done, device, used, irq>>

Desc == 0 .. Size - 1
Nil == Size      \* the end of the free list
Slot(idx) == idx % Size
Inc(idx, n) == (idx + n) % IndexRange

\* The first n descriptors of the list that starts at d.
Follow(d, n) ==
    LET f[k \in 1 .. Size] == IF k = 1 THEN d ELSE next[f[k - 1]]
    IN  [k \in 1 .. n |-> f[k]]

\* The descriptors of the chain that starts at d: on while flags.next is set.
ChainFrom(d) ==
    LET f[k \in 1 .. Size] == IF k = 1 THEN d ELSE next[f[k - 1]]
        n == CHOOSE k \in 1 .. Size : ~linked[f[k]] /\ \A j \in 1 .. k - 1 : linked[f[j]]
    IN  [k \in 1 .. n |-> f[k]]

\* virtio_virtqueue_t::init links all descriptors into the free list.
Init ==
    /\ pc = [r \in Requests |-> "lock"] /\ chain = [r \in Requests |-> <<>>]
    /\ per_queue_lock = "none"
    /\ next = [d \in Desc |-> d + 1] /\ linked = [d \in Desc |-> FALSE]
    /\ desc_first_free = 0 /\ desc_free_count = Size
    /\ avail_ring = [i \in Desc |-> 0] /\ used_ring = [i \in Desc |-> 0]
    /\ avail_idx = Start /\ used_idx = Start /\ used_tail = Start /\ seen = Start
    /\ completions = [d \in Desc |-> "none"]
    /\ finished_completions = <<>>
    /\ io_iocp = [r \in Requests |-> NewIocp] /\ caller_iocp = [r \in Requests |-> NewIocp]
    /\ deleted = {} /\ busy = {} /\ irq = FALSE

\* per_queue_t::io takes the block driver's lock ...
Lock(r) ==
    /\ pc[r] = "lock" /\ per_queue_lock = "none"
    /\ per_queue_lock' = r
    /\ pc' = [pc EXCEPT ![r] = "alloc"]
    /\ UNCHANGED <<chain, table, avail, used_tail, done, device, used, irq>>

\* ... and all the descriptors it needs, or waits for the queue to have them.
alloc_multiple(r) ==
    /\ pc[r] = "alloc"
    /\ IF desc_free_count < Need[r]
       THEN /\ pc' = [pc EXCEPT ![r] = "asleep"]
            /\ UNCHANGED <<chain, table>>
       ELSE LET descs == Follow(desc_first_free, Need[r])
                got == {descs[k] : k \in 1 .. Need[r]}
            IN  /\ desc_free_count' = desc_free_count - Need[r]
                /\ desc_first_free' = next[descs[Need[r]]]
                /\ chain' = [chain EXCEPT ![r] = descs]
                /\ next' = [d \in Desc |-> IF d \in got THEN Nil ELSE next[d]]
                /\ linked' = [d \in Desc |-> d \notin got /\ linked[d]]
                /\ pc' = [pc EXCEPT ![r] = "enqueue"]
    /\ UNCHANGED <<per_queue_lock, avail, used_tail, done, device, used, irq>>

\* The chain is linked up and its head is made available; per_queue_lock is
\* released on return.  The request's own object expects one completion.
enqueue_avail(r) ==
    /\ pc[r] = "enqueue"
    /\ LET c == chain[r]
           Pos(d) == CHOOSE k \in 1 .. Len(c) : c[k] = d
           inner == {c[k] : k \in 1 .. Len(c) - 1}
       IN  /\ next' = [d \in Desc |-> IF d \in inner THEN c[Pos(d) + 1] ELSE next[d]]
           /\ linked' = [d \in Desc |-> d \in inner \/ linked[d]]
           /\ completions' = [completions EXCEPT ![c[1]] = r]
           /\ avail_ring' = [avail_ring EXCEPT ![Slot(avail_idx)] = c[1]]
    /\ avail_idx' = Inc(avail_idx, 1)
    /\ io_iocp' = [io_iocp EXCEPT ![r] = set_expect(NewIocp, 1)]
    /\ per_queue_lock' = "none"
    /\ pc' = [pc EXCEPT ![r] = "expect"]
    /\ UNCHANGED <<chain, desc_first_free, desc_free_count, used_tail,
                   finished_completions, caller_iocp, deleted, device, used, irq>>

\* virtio_blk_if_t::io announces the one completion to the caller's object.
AnnounceExpect(r) ==
    /\ pc[r] = "expect"
    /\ caller_iocp' = [caller_iocp EXCEPT ![r] = set_expect(@, 1)]
    /\ pc' = [pc EXCEPT ![r] = "wait"]
    /\ UNCHANGED <<chain, per_queue_lock, table, avail, used_tail, finished_completions,
                   io_iocp, deleted, device, used, irq>>

\* The device takes what is available ...
Take ==
    /\ seen # avail_idx
    /\ busy' = busy \cup {avail_ring[Slot(seen)]}
    /\ seen' = Inc(seen, 1)
    /\ UNCHANGED <<pc, chain, per_queue_lock, table, avail, used_tail, done, used, irq>>

\* ... and returns chains in any order.
Use(d) ==
    /\ busy' = busy \ {d}
    /\ used_ring' = [used_ring EXCEPT ![Slot(used_idx)] = d]
    /\ used_idx' = Inc(used_idx, 1)
    /\ irq' = TRUE
    /\ UNCHANGED <<pc, chain, per_queue_lock, table, avail, used_tail, done, seen>>

\* Mutant: one descriptor is counted for the whole chain.
FreeChain_One(t, d) ==
    LET c == ChainFrom(d)
    IN  [next |-> [t.next EXCEPT ![c[Len(c)]] = t.first], first |-> d, count |-> t.count + 1]

\* A chain goes back to the front of the free list as it is.
FreeChain(t, d) ==
    LET c == ChainFrom(d)
    IN  [next |-> [t.next EXCEPT ![c[Len(c)]] = t.first], first |-> d, count |-> t.count + Len(c)]

\* The table after the chains of the sequence of heads have been freed.
FreeAll(heads) ==
    LET f[k \in 0 .. Len(heads)] ==
            IF k = 0 THEN [next |-> next, first |-> desc_first_free, count |-> desc_free_count]
            ELSE FreeChain(f[k - 1], heads[k])
    IN  f[Len(heads)]

\* The part of recycle_used under the lock; it wakes all who wait.
recycle_used ==
    /\ irq /\ finished_completions = <<>>
    /\ irq' = FALSE
    /\ LET n == (used_idx - used_tail + IndexRange) % IndexRange
           heads == [k \in 1 .. n |-> used_ring[Slot(used_tail + k - 1)]]
           t == FreeAll(heads)
           freed == {heads[k] : k \in 1 .. n}
       IN  /\ next' = t.next /\ desc_first_free' = t.first /\ desc_free_count' = t.count
           /\ finished_completions' = [k \in 1 .. n |-> completions[heads[k]]]
           /\ completions' = [d \in Desc |-> IF d \in freed THEN "none" ELSE completions[d]]
           /\ used_tail' = Inc(used_tail, n)
           /\ pc' = [r \in Requests |-> IF pc[r] = "asleep" /\ n > 0 THEN "alloc" ELSE pc[r]]
    /\ UNCHANGED <<chain, per_queue_lock, linked, avail_ring, avail_idx,
                   io_iocp, caller_iocp, deleted, device, used>>

\* After the lock: the request's object calls io_completion, which completes
\* the caller's object and deletes the request.
io_completion ==
    /\ finished_completions # <<>>
    /\ LET r == Head(finished_completions)
           o == invoke(io_iocp[r])
           called == o.calls > io_iocp[r].calls
       IN  /\ io_iocp' = [io_iocp EXCEPT ![r] = o]
           /\ caller_iocp' = [caller_iocp EXCEPT ![r] = IF called THEN invoke(@) ELSE @]
           /\ deleted' = IF called THEN deleted \cup {r} ELSE deleted
    /\ finished_completions' = Tail(finished_completions)
    /\ UNCHANGED <<pc, chain, per_queue_lock, table, avail, used_tail, device, used, irq>>

Thread(r) == Lock(r) \/ alloc_multiple(r) \/ enqueue_avail(r) \/ AnnounceExpect(r)
Next ==
    \/ \E r \in Requests : Thread(r)
    \/ Take
    \/ \E d \in busy : Use(d)
    \/ recycle_used
    \/ io_completion

\* Somebody takes a step while somebody can.
Spec == Init /\ [][Next]_vars /\ WF_vars(Next)

-----------------------------------------------------------------------------
\* The chains a request or the device still has: from alloc_multiple until
\* recycle_used.
Allocated == {r \in Requests : pc[r] = "enqueue" \/ \E d \in Desc : completions[d] = r}

\* Descriptors are neither lost nor given twice: the free list is as long as
\* desc_free_count says, and with the chains in use it is the whole table
\* (virtio-base.cc:492-514, 652-709).
DescriptorsConserved ==
    LET free == Follow(desc_first_free, desc_free_count)
        InUse(r) == {chain[r][k] : k \in DOMAIN chain[r]}
    IN  /\ Cardinality({free[k] : k \in DOMAIN free}) = desc_free_count
        /\ Desc = {free[k] : k \in DOMAIN free} \cup UNION {InUse(r) : r \in Allocated}
        /\ desc_free_count + Cardinality(UNION {InUse(r) : r \in Allocated}) = Size
        /\ \A r, s \in Allocated : r # s => InUse(r) \cap InUse(s) = {}

\* A request is deleted when its completion has been delivered, and nothing
\* refers to it afterwards (virtio-blk.cc:318-324).
NotUsedAfterDelete ==
    \A r \in deleted :
        /\ caller_iocp[r].done_count = 1
        /\ \A d \in Desc : completions[d] # r
        /\ \A k \in DOMAIN finished_completions : finished_completions[k] # r

\* Every request completes if the table is large enough for it.
AllReturned == \A r \in Requests : caller_iocp[r].calls = 1
=============================================================================
