---------------------------- MODULE MCSpinlocks ----------------------------
(***************************************************************************)
(* The spinning locks other than the MCS lock in one run.  A behaviour is  *)
(* one of exactly one of them, the one that the initial state selects; the *)
(* others stay in their initial states.                                    *)
(***************************************************************************)
EXTENDS TicketLock

CONSTANTS t1, t2, t3

VARIABLES which,
          word, irq_was_enabled, iflag, n_locks_held, in_isr, n_pc, arg, held, was,
          lock, old_value, own_bit30, expect, r_pc

MCThreads == {t1, t2, t3}
CPUs == {"c1", "c2"}

noirq == <<word, irq_was_enabled, iflag, n_locks_held, in_isr, n_pc, arg, held, was>>
rwspin == <<lock, old_value, own_bit30, expect, r_pc>>

\* Two CPUs with interrupts and one irq_spinlock.
NoIrqLock == INSTANCE NoIrqLock WITH
    Locks <- {"l1"}, MaxDepth <- 1,
    locks_held <- n_locks_held, pc <- n_pc

RwSpinlock == INSTANCE RwSpinlock WITH
    Upgraders <- Threads, TryReaders <- Threads, pc <- r_pc

MCInit ==
    /\ which \in {"ticket", "noirq", "rwspin"}
    /\ Init /\ (which # "ticket" => now_serving = 0)
    /\ NoIrqLock!Init /\ RwSpinlock!Init

MCNext ==
    /\ \/ which = "ticket" /\ Next /\ UNCHANGED <<noirq, rwspin>>
       \/ which = "noirq" /\ NoIrqLock!Next /\ UNCHANGED <<vars, rwspin>>
       \/ which = "rwspin" /\ RwSpinlock!Next /\ UNCHANGED <<vars, noirq>>
    /\ UNCHANGED which

\* The fairness of the selected lock (FairSpec of its module).
MCSpec ==
    /\ MCInit /\ [][MCNext]_<<which, vars, noirq, rwspin>>
    /\ \A t \in Threads : WF_vars(which = "ticket" /\ Goes(t))
    /\ \A x \in NoIrqLock!Contexts : WF_noirq(which = "noirq" /\ NoIrqLock!Advance(x))
    /\ \A c \in CPUs : WF_noirq(which = "noirq" /\ NoIrqLock!ReturnFromInterrupt(c))

-----------------------------------------------------------------------------

\* An interrupt handler never spins on an irq_spinlock held by the code it
\* interrupted.
NoSelfDeadlock == NoIrqLock!NoSelfDeadlock

\* A held irq_spinlock is released, whatever interrupts arrive.
LockReleased == NoIrqLock!LockReleased

\* The word of an rwspinlock counts the readers and the waiting writer exactly, a
\* writer is alone, and a thread that gives its share back finds it counted.
SharesExact ==
    /\ RwSpinlock!WriterAlone
    /\ RwSpinlock!WordExact
    /\ RwSpinlock!UnlockSeesShare
=============================================================================
