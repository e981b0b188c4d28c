----------------------------- MODULE MCBlocking -----------------------------
(***************************************************************************)
(* The mutex, the reader-writer lock and the resume ring that wakes their  *)
(* waiters on another CPU, in one run.  A behaviour is one of exactly one  *)
(* of them, the one that the initial state selects; the others stay in     *)
(* their initial states.                                                   *)
(***************************************************************************)
EXTENDS MCMutex

VARIABLES which,
          reader_count, ex_link, sh_link, r_spin_count, r_pc, r_spin, r_wake,
          slot, head, tail, lock, ipi, g_pc, next, mine, hpc, local, resumed

rwlock == <<reader_count, ex_link, sh_link, r_spin_count, r_pc, r_spin, r_wake>>
ring == <<slot, head, tail, lock, ipi, g_pc, next, mine, hpc, local, resumed>>

\* One of four threads upgrades.
RwLock == INSTANCE RwLock WITH
    Threads <- 1 .. 4, Upgraders <- {1}, SpinMin <- 0, SpinInit <- 1,
    spin_count <- r_spin_count, pc <- r_pc, spin <- r_spin, wake <- r_wake

\* The sizes of the code; 16 wake-ups, of which at most four are under way.
ResumeRing == INSTANCE ResumeRing WITH
    Producers <- {"p1", "p2"}, Slots <- 14, Buffer <- 4, Sleepers <- 16, Pending <- 4,
    pc <- g_pc

MCInit ==
    /\ which \in {"mutex", "rwlock", "ring"}
    /\ Init /\ RwLock!Init /\ ResumeRing!Init

\* A reader that upgrades while others read sleeps for ever, so the reader-writer
\* lock may stop; the other two may not.
MCNext ==
    /\ \/ which = "mutex" /\ Next /\ UNCHANGED <<rwlock, ring>>
       \/ which = "rwlock" /\ RwLock!Next /\ UNCHANGED <<vars, ring>>
       \/ which = "rwlock" /\ UNCHANGED <<vars, rwlock, ring>>
       \/ which = "ring" /\ ResumeRing!Next /\ UNCHANGED <<vars, rwlock>>
    /\ UNCHANGED which

\* The fairness of the selected component (FairSpec of its module).
MCSpec ==
    /\ MCInit /\ [][MCNext]_<<which, vars, rwlock, ring>>
    /\ \A t \in Threads : /\ WF_vars(which = "mutex" /\ Lock(t))
                          /\ WF_vars(which = "mutex" /\ mutex_unlock(t))
                          /\ WF_vars(which = "mutex" /\ thread_resume(t))
    /\ \A t \in 1 .. 4 : /\ SF_rwlock(which = "rwlock" /\ r_pc[t] # "out" /\ RwLock!Lock(t))
                         /\ WF_rwlock(which = "rwlock" /\ RwLock!Unlock(t))
    /\ \A p \in {"p1", "p2"} : WF_ring(which = "ring" /\ ResumeRing!enqueue_resume(p))
    /\ SF_ring(which = "ring" /\ ResumeRing!IpiLock)
    /\ WF_ring(which = "ring" /\ (ResumeRing!IpiDrain \/ ResumeRing!IpiResume))
    /\ WF_ring(which = "ring" /\ ResumeRing!IpiEnter)

-----------------------------------------------------------------------------
\* A writer of the reader-writer lock is alone, and reader_count is minus its id
\* or the number of readers inside (threadsync.cc).
CountsHolders == RwLock!WriterAlone /\ RwLock!CountsReaders

\* Nobody sleeps on a reader-writer lock that is free for it.
NobodyStranded == RwLock!NobodyStranded

\* Writers are not starved by readers or by each other, unless a reader waits for
\* its own share in rwlock_upgrade.
WriterServed == RwLock!WriterServed

\* Each wake-up is delivered exactly once and in the order the ring was entered
\* (enqueue_resume and the drain loop of thread_ipi_resched).
DeliveredOnceInOrder == ResumeRing!DeliveredOnceInOrder

=============================================================================
