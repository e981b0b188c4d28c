---------------------------- MODULE WorkQueue ----------------------------
(***************************************************************************)
(* The per-processor work queues of kernel/lib/work_queue.{h,cc}: a caller *)
(* allocates an item in a processor's queue, appends it and notifies the   *)
(* worker after it has released the queue's lock; enqueue_on_all_barrier   *)
(* gives every processor an item and waits until all of them have run.     *)
(*                                                                         *)
(* Each critical section is one action; a notification that is made after  *)
(* an unlock is an action of its own.  Items are allocated from a two      *)
(* level bitmap, 32 x 32 bits in the code.                                 *)
(***************************************************************************)
EXTENDS Naturals, Sequences, FiniteSets

CONSTANTS Cpus,      \* the processors, 1 .. n
          Barriers,  \* callers of enqueue_on_all_barrier
          Singles,   \* callers of enqueue or enqueue_on_cpu
          Target,    \* Target[s]: the processor of a single item
          Words, Bits

VARIABLES pc, at,          \* per caller: where it is, the processor it is at
          done_count,      \* per barrier, on the stack of its caller
          worker, item,    \* per processor: its worker, the item it runs
          queue,           \* per processor: the items from head to tail
          top, map,        \* per processor: the item allocator
          ran,             \* ran[k][c]: calls of the functor of k on c
          panicked

callers == <<pc, at, done_count>>
alloc == <<top, map>>
vars == <<callers, worker, item, queue, alloc, ran, panicked>>

Callers == Barriers \cup Singles
None == [who |-> "none", slot |-> <<0, 0>>]
Lowest(S) == CHOOSE x \in S : \A y \in S : x <= y

Init ==
    /\ pc = [k \in Callers |-> "enqueue"]
    /\ at = [k \in Callers |-> IF k \in Barriers THEN 1 ELSE Target[k]]
    /\ done_count = [k \in Barriers |-> 0]
    /\ worker = [c \in Cpus |-> "dequeue"] /\ item = [c \in Cpus |-> None]
    /\ queue = [c \in Cpus |-> <<>>]
    /\ top = [c \in Cpus |-> {}] /\ map = [c \in Cpus |-> [w \in Words |-> {}]]
    /\ ran = [k \in Callers |-> [c \in Cpus |-> 0]] /\ panicked = FALSE

\* alloc_slot: the lowest free bit of the lowest word that is not full.
alloc_slot(c) ==
    LET word == Lowest(Words \ top[c])
    IN  <<word, Lowest(Bits \ map[c][word])>>

\* enqueue_on_cpu, up to the unlock.
enqueue_on_cpu(k) ==
    /\ pc[k] = "enqueue"
    /\ LET c == at[k]
       IN  IF top[c] = Words
           THEN panicked' = TRUE /\ UNCHANGED <<pc, queue, alloc>>
           ELSE LET slot == alloc_slot(c)
                    upd == map[c][slot[1]] \cup {slot[2]}
                IN  /\ map' = [map EXCEPT ![c][slot[1]] = upd]
                    /\ top' = IF upd = Bits THEN [top EXCEPT ![c] = @ \cup {slot[1]}] ELSE top
                    /\ queue' = [queue EXCEPT ![c] = Append(@, [who |-> k, slot |-> slot])]
                    /\ pc' = [pc EXCEPT ![k] = "notify"]
                    /\ UNCHANGED panicked
    /\ UNCHANGED <<at, done_count, worker, item, ran>>

\* not_empty.notify_one, after the unlock; then the next processor, or the wait.
notify_one(k) ==
    /\ pc[k] = "notify"
    /\ worker' = IF worker[at[k]] = "asleep" THEN [worker EXCEPT ![at[k]] = "dequeue"] ELSE worker
    /\ IF k \in Singles
       THEN pc' = [pc EXCEPT ![k] = "returned"] /\ UNCHANGED at
       ELSE IF at[k] + 1 \in Cpus
       THEN pc' = [pc EXCEPT ![k] = "enqueue"] /\ at' = [at EXCEPT ![k] = @ + 1]
       ELSE pc' = [pc EXCEPT ![k] = "wait"] /\ UNCHANGED at
    /\ UNCHANGED <<done_count, item, queue, alloc, ran, panicked>>

\* Mutant: the caller goes on when the first item is done.
Wait_First(k) ==
    /\ pc[k] = "wait"
    /\ pc' = [pc EXCEPT ![k] = IF done_count[k] > 0 THEN "returned" ELSE "asleep"]
    /\ UNCHANGED <<at, done_count, worker, item, queue, alloc, ran, panicked>>

\* The end of enqueue_on_all_barrier, under wait_lock.
Wait(k) ==
    /\ pc[k] = "wait"
    /\ pc' = [pc EXCEPT ![k] =
                IF done_count[k] = Cardinality(Cpus) THEN "returned" ELSE "asleep"]
    /\ UNCHANGED <<at, done_count, worker, item, queue, alloc, ran, panicked>>

\* dequeue_work: take the head of the queue, or wait for not_empty.
dequeue_work(c) ==
    /\ worker[c] = "dequeue"
    /\ IF queue[c] = <<>>
       THEN worker' = [worker EXCEPT ![c] = "asleep"] /\ UNCHANGED <<item, queue>>
       ELSE /\ item' = [item EXCEPT ![c] = Head(queue[c])]
            /\ queue' = [queue EXCEPT ![c] = Tail(@)]
            /\ worker' = [worker EXCEPT ![c] = "invoke"]
    /\ UNCHANGED <<callers, alloc, ran, panicked>>

\* The functor of the item, without a lock.
Functor(c) ==
    /\ worker[c] = "invoke"
    /\ ran' = [ran EXCEPT ![item[c].who][c] = @ + 1]
    /\ worker' = [worker EXCEPT ![c] = IF item[c].who \in Barriers THEN "count" ELSE "free"]
    /\ UNCHANGED <<callers, item, queue, alloc, panicked>>

\* A barrier's item then counts itself, under wait_lock ...
Count(c) ==
    LET k == item[c].who
    IN  /\ worker[c] = "count"
        /\ done_count' = [done_count EXCEPT ![k] = @ + 1]
        /\ worker' = [worker EXCEPT ![c] =
                        IF done_count[k] + 1 = Cardinality(Cpus) THEN "wake" ELSE "free"]
        /\ UNCHANGED <<pc, at, item, queue, alloc, ran, panicked>>

\* ... and the last one wakes the caller, after the unlock.
notify_all(c) ==
    LET k == item[c].who
    IN  /\ worker[c] = "wake"
        /\ pc' = IF pc[k] = "asleep" THEN [pc EXCEPT ![k] = "wait"] ELSE pc
        /\ worker' = [worker EXCEPT ![c] = "free"]
        /\ UNCHANGED <<at, done_count, item, queue, alloc, ran, panicked>>

\* Mutant: the word stays marked as full.
free_TopKept(c) ==
    /\ worker[c] = "free"
    /\ LET slot == item[c].slot
       IN  map' = [map EXCEPT ![c][slot[1]] = @ \ {slot[2]}] /\ UNCHANGED top
    /\ item' = [item EXCEPT ![c] = None]
    /\ worker' = [worker EXCEPT ![c] = "dequeue"]
    /\ UNCHANGED <<callers, queue, ran, panicked>>

\* workq_impl::free with free_slot.
free(c) ==
    /\ worker[c] = "free"
    /\ LET slot == item[c].slot
       IN  /\ map' = [map EXCEPT ![c][slot[1]] = @ \ {slot[2]}]
           /\ top' = [top EXCEPT ![c] = @ \ {slot[1]}]
    /\ item' = [item EXCEPT ![c] = None]
    /\ worker' = [worker EXCEPT ![c] = "dequeue"]
    /\ UNCHANGED <<callers, queue, ran, panicked>>

Next ==
    /\ ~panicked
    /\ \/ \E k \in Callers : enqueue_on_cpu(k) \/ notify_one(k) \/ Wait(k)
       \/ \E c \in Cpus : \/ dequeue_work(c) \/ Functor(c) \/ Count(c)
                          \/ notify_all(c) \/ free(c)

\* Somebody takes a step while somebody can.
Spec == Init /\ [][Next]_vars /\ WF_vars(Next)

-----------------------------------------------------------------------------
\* "Run functor once on every cpu and block until every cpu is finished"
\* (work_queue.h:64).
BarrierCovers ==
    \A k \in Barriers : pc[k] = "returned" =>
        \A c \in Cpus : ran[k][c] = 1

\* An item's memory is in use exactly while the item is queued or runs, and
\* the queue is out of memory only when all of it is in use.
SlotsInUse ==
    \A c \in Cpus :
        LET live == {queue[c][i].slot : i \in DOMAIN queue[c]}
                        \cup (IF item[c] = None THEN {} ELSE {item[c].slot})
        IN  /\ live = {s \in Words \X Bits : s[2] \in map[c][s[1]]}
            /\ Cardinality(live) = Len(queue[c]) + (IF item[c] = None THEN 0 ELSE 1)
            /\ top[c] = {w \in Words : map[c][w] = Bits}

\* Every item is run and every barrier returns, unless memory runs out.
AllDone ==
    panicked \/ /\ \A k \in Callers : pc[k] = "returned"
                /\ \A k \in Singles : ran[k][Target[k]] = 1
WorkDone == <>AllDone

\* A condition variable is alive when it is notified.
WakesALiveCaller ==
    \A c \in Cpus : worker[c] = "wake" => pc[item[c].who] # "returned"
=============================================================================
