------------------------------- MODULE Pipe -------------------------------
(***************************************************************************)
(* pipe_t of kernel/lib/pipe.cc.  Writers append to a chain of pages; a    *)
(* reader that has none takes the writers' whole chain and gives each page *)
(* back to the free list when it has read it.                              *)
(*                                                                         *)
(* pipe_lock is held except in the waits: a thread takes it (Lock), and    *)
(* each turn of the loops of enqueue and dequeue is an action of its       *)
(* holder.  The condition variables are used as CondVar shows them to      *)
(* behave: a wait gives up the lock in the same step, and ends by a        *)
(* notification or a timeout.                                              *)
(***************************************************************************)
EXTENDS Naturals, Sequences, FiniteSets

CONSTANTS Writers, Readers, Reservers,
          Size,      \* Size[t]: the bytes thread t asks to send or receive
          Capacity,  \* payload bytes of a page
          Pages      \* pages a Reserver asks for

VARIABLES write_buffer_first, write_buffer, read_buffer, read_ofs,
          free_buffer, page_bump, page_capacity,
          next, data,       \* the pages: the link, and the bytes put in so far
          owner,            \* who has pipe_lock
          pc, left,         \* per thread: its place, and the bytes to go
          waiting,          \* per thread: the condition variable it sleeps on
          notify_pending,   \* per thread: enqueue's local
          sent, received    \* history: what was copied in and out, in order

chains == <<write_buffer_first, write_buffer, read_buffer, read_ofs>>
pool == <<free_buffer, page_bump, page_capacity>>
pages == <<next, data>>
threads == <<pc, left, waiting, notify_pending>>
vars == <<chains, pool, pages, owner, threads, sent, received>>

Threads == Writers \cup Readers \cup Reservers
Page == 1 .. Pages
Nil == 0
Least(a, b) == IF a < b THEN a ELSE b

\* The pages of the chain that starts at p.
Chain(p) ==
    LET f[k \in 0 .. Pages] == IF k = 0 THEN p ELSE IF f[k - 1] = Nil THEN Nil ELSE next[f[k - 1]]
        n == Cardinality({k \in 0 .. Pages : f[k] # Nil})
    IN  [k \in 1 .. n |-> f[k - 1]]

\* The constructor.  reserve has not been called.
Init ==
    /\ write_buffer_first = Nil /\ write_buffer = Nil
    /\ read_buffer = Nil /\ read_ofs = 0
    /\ free_buffer = Nil /\ page_bump = 0 /\ page_capacity = 0
    /\ next = [p \in Page |-> Nil] /\ data = [p \in Page |-> <<>>]
    /\ owner = "none" /\ waiting = [t \in Threads |-> "none"]
    /\ pc = [t \in Threads |-> IF t \in Writers THEN "enqueue"
                               ELSE IF t \in Readers THEN "dequeue" ELSE "reserve"]
    /\ left = Size
    /\ notify_pending = [t \in Threads |-> FALSE]
    /\ sent = <<>> /\ received = <<>>

Goto(t, place) == pc' = [pc EXCEPT ![t] = place]

Lock(t) ==
    /\ owner = "none" /\ waiting[t] = "none"
    /\ pc[t] \notin {"notify", "returned"}
    /\ owner' = t
    /\ UNCHANGED <<chains, pool, pages, threads, sent, received>>

\* Threads that a notify_all, or a notify_one, of cv may leave asleep.
AfterNotifyAll(cv) == [t \in Threads |-> IF waiting[t] = cv THEN "none" ELSE waiting[t]]
AfterNotifyOne(cv) ==
    LET sleepers == {t \in Threads : waiting[t] = cv}
    IN  IF sleepers = {} THEN {waiting}
        ELSE {[waiting EXCEPT ![t] = "none"] : t \in sleepers}

\* pipe_not_full.wait_until and pipe_not_empty.wait_until.
Wait(t, cv) == waiting' = [waiting EXCEPT ![t] = cv] /\ owner' = "none"

\* A wait that times out: enqueue and dequeue leave their loops.
TimeOut(t) ==
    /\ waiting[t] # "none"
    /\ waiting' = [waiting EXCEPT ![t] = "none"]
    /\ Goto(t, "timeout")
    /\ UNCHANGED <<chains, pool, pages, owner, left, notify_pending, sent, received>>

HasRoom == write_buffer # Nil /\ Len(data[write_buffer]) # Capacity

\* enqueue when it needs a page: what is pending is announced before a wait.
EnqueueNotify(t) ==
    /\ owner = t /\ pc[t] = "enqueue" /\ left[t] > 0 /\ ~HasRoom
    /\ waiting' = IF notify_pending[t] THEN AfterNotifyAll("not_empty") ELSE waiting
    /\ notify_pending' = [notify_pending EXCEPT ![t] = FALSE]
    /\ Goto(t, "allocate")
    /\ UNCHANGED <<chains, pool, pages, owner, left, sent, received>>

\* The page goes behind write_buffer as it is after the wait.
Append_(p) ==
    /\ next' = IF write_buffer = Nil THEN [next EXCEPT ![p] = Nil]
               ELSE [next EXCEPT ![p] = Nil, ![write_buffer] = p]
    /\ write_buffer_first' = IF write_buffer = Nil THEN p ELSE write_buffer_first
    /\ write_buffer' = p
    /\ data' = [data EXCEPT ![p] = <<>>]

\* allocate_page, from the free list or a page that was never used, or a wait.
allocate_page(t) ==
    /\ owner = t /\ pc[t] = "allocate"
    /\ \/ /\ page_capacity = 0
          /\ Goto(t, "timeout")
          /\ UNCHANGED <<chains, pool, pages, owner, waiting>>
       \/ /\ page_capacity > 0 /\ free_buffer # Nil
          /\ Append_(free_buffer) /\ free_buffer' = next[free_buffer]
          /\ Goto(t, "enqueue")
          /\ UNCHANGED <<read_buffer, read_ofs, page_bump, page_capacity, owner, waiting>>
       \/ /\ free_buffer = Nil /\ page_bump < page_capacity
          /\ Append_(page_bump + 1) /\ page_bump' = page_bump + 1
          /\ Goto(t, "enqueue")
          /\ UNCHANGED <<read_buffer, read_ofs, free_buffer, page_capacity, owner, waiting>>
       \/ /\ page_capacity > 0 /\ free_buffer = Nil /\ page_bump = page_capacity
          /\ Wait(t, "not_full")
          /\ UNCHANGED <<chains, pool, pages, pc>>
    /\ UNCHANGED <<left, notify_pending, sent, received>>

\* The rest of a turn of the loop: as many bytes as the page has room for.
EnqueueCopy(t) ==
    /\ owner = t /\ pc[t] = "enqueue" /\ left[t] > 0 /\ HasRoom
    /\ LET n == Least(Capacity - Len(data[write_buffer]), left[t])
           bytes == [i \in 1 .. n |-> <<t, left[t] - i>>]
       IN  /\ data' = [data EXCEPT ![write_buffer] = @ \o bytes]
           /\ sent' = sent \o bytes
           /\ left' = [left EXCEPT ![t] = @ - n]
    /\ notify_pending' = [notify_pending EXCEPT ![t] = TRUE]
    /\ UNCHANGED <<chains, pool, next, owner, pc, waiting, received>>

\* The end of enqueue: unlock, and then notify.
EnqueueUnlock(t) ==
    /\ owner = t /\ t \in Writers
    /\ pc[t] = "timeout" \/ (pc[t] = "enqueue" /\ left[t] = 0)
    /\ owner' = "none"
    /\ Goto(t, IF notify_pending[t] THEN "notify" ELSE "returned")
    /\ UNCHANGED <<chains, pool, pages, left, waiting, notify_pending, sent, received>>

\* notify_all without the lock: enqueue for the readers, reserve for the writers.
NotifyUnlocked(t) ==
    /\ pc[t] = "notify"
    /\ waiting' = AfterNotifyAll(IF t \in Writers THEN "not_empty" ELSE "not_full")
    /\ notify_pending' = [notify_pending EXCEPT ![t] = FALSE]
    /\ Goto(t, "returned")
    /\ UNCHANGED <<chains, pool, pages, owner, left, sent, received>>

\* Mutant: nobody is told of the freed page.
free_page_Silent(p) ==
    /\ next' = [next EXCEPT ![p] = free_buffer] /\ data' = [data EXCEPT ![p] = <<>>]
    /\ free_buffer' = p
    /\ UNCHANGED waiting

free_page(p) ==
    /\ next' = [next EXCEPT ![p] = free_buffer] /\ data' = [data EXCEPT ![p] = <<>>]
    /\ free_buffer' = p
    /\ waiting' \in AfterNotifyOne("not_full")

\* dequeue with a read buffer: copy, and free the page when it is read.
DequeueCopy(t) ==
    /\ owner = t /\ pc[t] = "dequeue" /\ left[t] > 0 /\ read_buffer # Nil
    /\ LET n == Least(Len(data[read_buffer]) - read_ofs, left[t])
       IN  /\ received' = received \o SubSeq(data[read_buffer], read_ofs + 1, read_ofs + n)
           /\ left' = [left EXCEPT ![t] = @ - n]
           /\ IF read_ofs + n = Len(data[read_buffer])
              THEN /\ free_page(read_buffer)
                   /\ read_buffer' = next[read_buffer] /\ read_ofs' = 0
              ELSE /\ read_ofs' = read_ofs + n
                   /\ UNCHANGED <<read_buffer, free_buffer, pages, waiting>>
    /\ UNCHANGED <<write_buffer_first, write_buffer, page_bump, page_capacity, owner, pc,
                   notify_pending, sent>>

\* Mutant: the writers keep their place in the chain that was taken.
DequeueTake_KeepTail(t) ==
    /\ owner = t /\ pc[t] = "dequeue" /\ left[t] > 0 /\ read_buffer = Nil
    /\ write_buffer # Nil
    /\ read_buffer' = write_buffer_first /\ read_ofs' = 0
    /\ write_buffer_first' = Nil
    /\ UNCHANGED <<write_buffer, pool, pages, owner, threads, sent, received>>

\* dequeue without one: take the writers' chain.
DequeueTake(t) ==
    /\ owner = t /\ pc[t] = "dequeue" /\ left[t] > 0 /\ read_buffer = Nil
    /\ write_buffer # Nil
    /\ read_buffer' = write_buffer_first /\ read_ofs' = 0
    /\ write_buffer_first' = Nil /\ write_buffer' = Nil
    /\ UNCHANGED <<pool, pages, owner, threads, sent, received>>

\* dequeue with nothing buffered.
DequeueWait(t) ==
    /\ owner = t /\ pc[t] = "dequeue" /\ left[t] > 0
    /\ read_buffer = Nil /\ write_buffer = Nil
    /\ Wait(t, "not_empty")
    /\ UNCHANGED <<chains, pool, pages, pc, left, notify_pending, sent, received>>

DequeueReturn(t) ==
    /\ owner = t /\ t \in Readers
    /\ pc[t] = "timeout" \/ (pc[t] = "dequeue" /\ left[t] = 0)
    /\ owner' = "none" /\ Goto(t, "returned")
    /\ UNCHANGED <<chains, pool, pages, left, waiting, notify_pending, sent, received>>

\* cleanup_buffer: what was buffered is dropped (the history forgets it too).
cleanup_buffer ==
    /\ write_buffer_first' = Nil /\ write_buffer' = Nil /\ read_buffer' = Nil
    /\ page_bump' = 0 /\ free_buffer' = Nil
    /\ sent' = received
    /\ waiting' = AfterNotifyAll("not_full")

\* reserve, when mmap gives it the memory.
reserve(t) ==
    /\ owner = t /\ pc[t] = "reserve"
    /\ cleanup_buffer
    /\ page_capacity' = Pages
    /\ owner' = "none" /\ Goto(t, "notify")
    /\ UNCHANGED <<read_ofs, pages, left, notify_pending, received>>

Thread(t) ==
    \/ Lock(t) \/ TimeOut(t)
    \/ EnqueueNotify(t) \/ allocate_page(t) \/ EnqueueCopy(t) \/ EnqueueUnlock(t)
    \/ NotifyUnlocked(t)
    \/ DequeueCopy(t) \/ DequeueTake(t) \/ DequeueWait(t) \/ DequeueReturn(t)
    \/ reserve(t)

Next == \E t \in Threads : Thread(t)

Spec == Init /\ [][Next]_vars

-----------------------------------------------------------------------------
Bytes(chain) ==
    LET f[k \in 0 .. Pages] == IF k = 0 THEN <<>>
                               ELSE IF k > Len(chain) THEN f[k - 1]
                               ELSE f[k - 1] \o data[chain[k]]
    IN  f[Pages]

\* Between the turns of the loops, what has been received and what is in the two
\* chains is, byte for byte and in order, what has been sent: whoever waits for a
\* page while a reader takes the chain, nothing is lost, repeated or overtaken.
BytesInOrder ==
    LET unread == Bytes(Chain(read_buffer))
    IN  /\ sent = received \o SubSeq(unread, read_ofs + 1, Len(unread))
                           \o Bytes(Chain(write_buffer_first))
        /\ write_buffer # Nil => /\ write_buffer_first # Nil
                                 /\ next[write_buffer] = Nil

\* Every page that was handed out is in exactly one of the two chains and the
\* free list (allocate_page, free_page).
PagesConserved ==
    LET all == Chain(read_buffer) \o Chain(write_buffer_first) \o Chain(free_buffer)
    IN  Len(all) = page_bump /\ {all[k] : k \in 1 .. Len(all)} = 1 .. page_bump

\* Nobody sleeps through what it waits for.  Whenever the lock is free, while a
\* reader sleeps and bytes are there, a writer still owes a notification; while a
\* writer sleeps and a page is there, a writer that was woken has still to run.
NobodySleepsThrough ==
    owner = "none" =>
        /\ (\E t \in Threads : waiting[t] = "not_empty") =>
              \/ read_buffer = Nil /\ write_buffer = Nil
              \/ \E w \in Writers : notify_pending[w]
        /\ (\E t \in Threads : waiting[t] = "not_full") =>
              \/ free_buffer = Nil /\ page_bump = page_capacity
              \/ \E w \in Writers : pc[w] = "allocate" /\ waiting[w] = "none"
=============================================================================
