---------------------------- MODULE MCResources ----------------------------
(***************************************************************************)
(* The kernel's tables, allocators and queues, and the POSIX locks over    *)
(* the futex, in one run.  A behaviour is one of exactly one of them, the  *)
(* one that the initial state selects; the others stay in their initial    *)
(* states.                                                                 *)
(***************************************************************************)
EXTENDS Integers, Sequences

VARIABLES which,
          m_word, m_tab, m_waiter_count, m_sleepers, m_broken, m_value, m_pc,
          r_word, r_tab, r_waiter_count, r_sleepers, r_broken, r_value, r_pc,
          level0, level1, ids, file_count, f_refcount, f_next_free, file_table_ff, open,
          f_pc, fd, id, src, owns, f_halted,
          entries, next_free, free_page_count, held, batch, want, first, after, clobbered,
          halted,
          write_buffer_first, write_buffer, read_buffer, read_ofs, free_buffer, page_bump,
          page_capacity, p_next, data, owner, p_pc, left, waiting, notify_pending, sent,
          received,
          state, processes_lock, process_lock, asleep, threads, s_pc,
          intr_first, intr_first_free, intr_handlers_count, next, refcount, intr, handler,
          lock, cpu, hooks, due, called,
          items, used, holes, log2_capacity, keys,
          free_addr_by_addr, free_addr_by_size, owned, a_halted,
          pte, accessed, tlb, t_pc, t_irq, todo, done, prot, combined, freed,
          shootdown_lock, shootdown_pending, ipi, abandoned, calls

mutex == <<m_word, m_tab, m_waiter_count, m_sleepers, m_broken, m_value, m_pc>>
rwlock == <<r_word, r_tab, r_waiter_count, r_sleepers, r_broken, r_value, r_pc>>
files == <<level0, level1, ids, file_count, f_refcount, f_next_free, file_table_ff, open,
           f_pc, fd, id, src, owns, f_halted>>
phys == <<entries, next_free, free_page_count, held, batch, want, first, after, clobbered,
          halted>>
pipe == <<write_buffer_first, write_buffer, read_buffer, read_ofs, free_buffer, page_bump,
          page_capacity, p_next, data, owner, p_pc, left, waiting, notify_pending, sent,
          received>>
process == <<state, processes_lock, process_lock, asleep, threads, s_pc>>
irq == <<intr_first, intr_first_free, intr_handlers_count, next, refcount, intr, handler,
         lock, cpu, hooks, due, called>>
hash == <<items, used, holes, log2_capacity, keys>>
addresses == <<free_addr_by_addr, free_addr_by_size, owned, a_halted>>
shootdown == <<pte, accessed, tlb, t_pc, t_irq, todo, done, prot, combined, freed,
               shootdown_lock, shootdown_pending, ipi, abandoned, calls>>
vars == <<which, mutex, rwlock, files, phys, pipe, process, irq, hash, addresses, shootdown>>

PthreadMutex == INSTANCE PthreadMutex WITH
    Threads <- {"t1", "t2", "t3"},
    word <- m_word, tab <- m_tab, waiter_count <- m_waiter_count, sleepers <- m_sleepers,
    broken <- m_broken, value <- m_value, pc <- m_pc

PthreadRwLock == INSTANCE PthreadRwLock WITH
    Threads <- {"t1", "t2", "t3"}, MaxUnlocks <- 2,
    word <- r_word, tab <- r_tab, waiter_count <- r_waiter_count, sleepers <- r_sleepers,
    broken <- r_broken, value <- r_value, pc <- r_pc

\* Two words of descriptors and three files: both run out.
FileTable == INSTANCE FileTable WITH
    Threads <- {"t1", "t2"}, Main <- "t1", Words <- 2, Bits <- 4, MaxFiles <- 3,
    Overwrites <- FALSE, refcount <- f_refcount, next_free <- f_next_free, pc <- f_pc,
    halted <- f_halted

\* Three pages, which two threads share and allocate two at a time.
PhysAlloc == INSTANCE PhysAlloc WITH
    Threads <- {"t1", "t2"}, Pages <- 3, EntryBits <- 3, MaxRefs <- 2, BatchSize <- 2,
    Counts <- {1, 2}

\* More bytes than the pipe has room for, and less room in a page than a call sends.
Pipe == INSTANCE Pipe WITH
    Writers <- {"w1", "w2"}, Readers <- {"r1", "r2"}, Reservers <- {"v"},
    Size <- [w1 |-> 5, w2 |-> 3, r1 |-> 3, r2 |-> 3, v |-> 0], Capacity <- 2, Pages <- 2,
    next <- p_next, pc <- p_pc

Process == INSTANCE Process WITH Waiters <- {"parent", "w1", "w2"}, pc <- s_pc

\* Two handlers share a vector; each is hooked and unhooked, but not hooked twice.
IrqChain == INSTANCE IrqChain WITH
    Cpus <- {1, 2}, Vectors <- {"v1", "v2"}, Handlers <- {"a", "b", "c"},
    Line <- [a |-> "v1", b |-> "v1", c |-> "v2"], MaxEntries <- 3, MaxRefs <- 2, MaxHooks <- 1

\* Keys that collide, at the end of the table too; it grows twice.
HashTable == INSTANCE HashTable WITH
    Keys <- {"a", "b", "c", "d", "e"}, Hash <- [a |-> 3, b |-> 3, c |-> 7, d |-> 0, e |-> 10],
    FirstLog2 <- 2, LastLog2 <- 4, HoleLimit <- 1

ContigAlloc == INSTANCE ContigAlloc WITH
    Last <- 7, Sizes <- {1, 2, 3}, FreesFree <- FALSE, halted <- a_halted

\* A page of system memory and one that is not, and as many calls as MaxCalls.
TlbShootdown == INSTANCE TlbShootdown WITH
    Cpus <- {"c1", "c2"}, Pages <- {1, 2}, Sysmem <- {1}, pc <- t_pc, irq <- t_irq
MaxCalls == 2

Init ==
    /\ which \in {"mutex", "rwlock", "files", "phys", "pipe", "process", "irq", "hash",
                  "addresses", "shootdown"}
    /\ PthreadMutex!Init /\ PthreadRwLock!Init /\ FileTable!Init /\ PhysAlloc!Init
    /\ Pipe!Init /\ Process!Init /\ IrqChain!Init /\ HashTable!Init /\ ContigAlloc!init
    /\ TlbShootdown!Init /\ calls = 0

\* A call of mprotect or munmap, or a step of one.
ShootdownNext ==
    \E c \in {"c1", "c2"} :
        \/ calls < MaxCalls /\ TlbShootdown!Call(c) /\ calls' = calls + 1
        \/ TlbShootdown!Step(c) /\ UNCHANGED calls

Next ==
    /\ \/ which = "mutex" /\ PthreadMutex!Next
          /\ UNCHANGED <<rwlock, files, phys, pipe, process, irq, hash, addresses, shootdown>>
       \/ which = "rwlock" /\ PthreadRwLock!Next
          /\ UNCHANGED <<mutex, files, phys, pipe, process, irq, hash, addresses, shootdown>>
       \/ which = "files" /\ FileTable!Next
          /\ UNCHANGED <<mutex, rwlock, phys, pipe, process, irq, hash, addresses, shootdown>>
       \/ which = "phys" /\ PhysAlloc!Next
          /\ UNCHANGED <<mutex, rwlock, files, pipe, process, irq, hash, addresses, shootdown>>
       \/ which = "pipe" /\ Pipe!Next
          /\ UNCHANGED <<mutex, rwlock, files, phys, process, irq, hash, addresses, shootdown>>
       \/ which = "process" /\ Process!Next
          /\ UNCHANGED <<mutex, rwlock, files, phys, pipe, irq, hash, addresses, shootdown>>
       \/ which = "irq" /\ IrqChain!Next
          /\ UNCHANGED <<mutex, rwlock, files, phys, pipe, process, hash, addresses, shootdown>>
       \/ which = "hash" /\ HashTable!Next
          /\ UNCHANGED <<mutex, rwlock, files, phys, pipe, process, irq, addresses, shootdown>>
       \/ which = "addresses" /\ ContigAlloc!Next
          /\ UNCHANGED <<mutex, rwlock, files, phys, pipe, process, irq, hash, shootdown>>
       \/ which = "shootdown" /\ ShootdownNext
          /\ UNCHANGED <<mutex, rwlock, files, phys, pipe, process, irq, hash, addresses>>
    /\ UNCHANGED which

Spec == Init /\ [][Next]_vars

-----------------------------------------------------------------------------
\* Whoever the POSIX mutex or read-write lock lets in is alone with what it locks:
\* one owner or writer, or readers only (libc/src/pthread).
Exclusion == PthreadMutex!Exclusion /\ PthreadRwLock!Exclusion

\* Who sleeps in FUTEX_WAIT is, once, on the list of the entry that FUTEX_WAKE
\* finds, up to the first use of a deleted entry (sys_process.cc:53-133).
SleeperIsFound == PthreadMutex!SleeperIsFound /\ PthreadRwLock!SleeperIsFound

\* The reference count of an open file is the number of descriptors and calls that
\* refer to it, the file table's free list holds the other entries, and no
\* descriptor is given to two openers (fileio.cc, desc_alloc.cc); a hash table finds
\* exactly the keys that are in it (hash_table.h).
TablesExact ==
    /\ HashTable!MapExact
    /\ FileTable!RefcountsExact
    /\ FileTable!FreeListExact
    /\ FileTable!DescriptorsDistinct

\* A physical page is on the free list, on its way to a callback or counted as often
\* as it is referred to; a page of a pipe is in one chain or on its free list; a page
\* of address space is in use or in one free range, in both trees (contig_alloc.cc).
PagesConserved ==
    /\ PhysAlloc!PagesConserved
    /\ Pipe!PagesConserved
    /\ ContigAlloc!RangesExact

\* The bytes received from a pipe are those sent, in order (pipe.cc).
BytesInOrder == Pipe!BytesInOrder

\* Nobody sleeps through what it waits for: bytes or room in a pipe, or the exit of
\* a process (pipe.cc, process.cc:863-935).
NobodySleepsThrough == Pipe!NobodySleepsThrough /\ Process!ExitIsSeen


\* A CPU with an entry in its TLB that is not the page table's any more has a flush
\* coming, up to the calls that return without a shootdown (mmu.cc:1049-1140).
StaleIsPromised == TlbShootdown!StaleIsPromised
=============================================================================
