----------------------------- MODULE NoIrqLock -----------------------------
(***************************************************************************)
(* spinlock_t (kernel/lib/spinlock.cc) inside ext::noirq_lock              *)
(* (kernel/lib/mutex.h): the irq_spinlock that protects the scheduler, the *)
(* wait queues and the drivers.                                            *)
(*                                                                         *)
(* Each CPU runs a thread context, and an interrupt context on top of it   *)
(* while it serves an interrupt; a context is <<cpu, level>>.  The wrapper *)
(* keeps the caller's interrupt flag in a member of the lock, and writes   *)
(* that member before it has the lock.                                     *)
(***************************************************************************)
EXTENDS Integers, Sequences

CONSTANTS CPUs,
          Locks,
          MaxDepth   \* locks one context holds at once

VARIABLES word,             \* spinlock_t of each lock: 0 or 1
          irq_was_enabled,  \* the member of each noirq_lock
          iflag,            \* RFLAGS.IF of each CPU
          locks_held,       \* cpu_info_t::locks_held of each CPU
          in_isr,           \* is the CPU serving an interrupt?
          pc, arg,          \* where each context is, and in which lock
          held,             \* the locks each context holds, latest last
          was               \* history: IF when the context called lock/try_lock

vars == <<word, irq_was_enabled, iflag, locks_held, in_isr, pc, arg, held, was>>

Contexts == CPUs \X {"thread", "isr"}
Cpu(x) == x[1]
Running(x) == (x[2] = "isr") = in_isr[Cpu(x)]
At(x, label) == Running(x) /\ pc[x] = label
Goto(x, label) == pc' = [pc EXCEPT ![x] = label]
Holds(x, l) == \E i \in 1 .. Len(held[x]) : held[x][i] = l

cs_enter(x) == locks_held' = [locks_held EXCEPT ![Cpu(x)] = @ + 1]
cs_leave(x) == locks_held' = [locks_held EXCEPT ![Cpu(x)] = @ - 1]

Init == /\ word = [l \in Locks |-> 0]
        /\ irq_was_enabled = [l \in Locks |-> FALSE]
        /\ iflag = [c \in CPUs |-> TRUE]
        /\ locks_held = [c \in CPUs |-> 0]
        /\ in_isr = [c \in CPUs |-> FALSE]
        /\ pc = [x \in Contexts |-> "run"]
        /\ arg \in {[x \in Contexts |-> l] : l \in Locks}
        /\ held = [x \in Contexts |-> << >>]
        /\ was = [x \in Contexts |-> [l \in Locks |-> TRUE]]

MayLock(x, l) == At(x, "run") /\ ~Holds(x, l) /\ Len(held[x]) < MaxDepth

\* Mutant: the flag is saved but interrupts stay enabled.
save_disable_NoCli(x, l) ==
    /\ irq_was_enabled' = [irq_was_enabled EXCEPT ![l] = iflag[Cpu(x)]]
    /\ was' = [was EXCEPT ![x][l] = iflag[Cpu(x)]]
    /\ UNCHANGED iflag

\* irq_was_enabled = cpu_irq_save_disable()
save_disable(x, l) ==
    /\ irq_was_enabled' = [irq_was_enabled EXCEPT ![l] = iflag[Cpu(x)]]
    /\ was' = [was EXCEPT ![x][l] = iflag[Cpu(x)]]
    /\ iflag' = [iflag EXCEPT ![Cpu(x)] = FALSE]

\* cpu_irq_toggle(irq_was_enabled)
irq_toggle(x) ==
    /\ iflag' = [iflag EXCEPT ![Cpu(x)] = irq_was_enabled[arg[x]]]
    /\ Goto(x, "run")
    /\ UNCHANGED <<word, irq_was_enabled, locks_held, in_isr, arg, held, was>>

\* noirq_lock::lock up to the cs_enter of spinlock_lock.
lock(x, l) ==
    /\ MayLock(x, l)
    /\ save_disable(x, l)
    /\ cs_enter(x)
    /\ arg' = [arg EXCEPT ![x] = l]
    /\ Goto(x, "spin")
    /\ UNCHANGED <<word, in_isr, held>>

\* noirq_lock::lock_noirq: for callers that disabled interrupts themselves.
lock_noirq(x, l) ==
    /\ MayLock(x, l)
    /\ ~iflag[Cpu(x)]
    /\ cs_enter(x)
    /\ arg' = [arg EXCEPT ![x] = l]
    /\ Goto(x, "spin")
    /\ UNCHANGED <<word, irq_was_enabled, iflag, in_isr, held, was>>

Take(x) == /\ word' = [word EXCEPT ![arg[x]] = 1]
           /\ held' = [held EXCEPT ![x] = Append(@, arg[x])]
           /\ Goto(x, "run")


\* The exchange in the loop of spinlock_lock succeeds.
spinlock_lock(x) ==
    /\ At(x, "spin")
    /\ word[arg[x]] = 0
    /\ Take(x)
    /\ UNCHANGED <<irq_was_enabled, iflag, locks_held, in_isr, arg, was>>

\* noirq_lock::try_lock up to the exchange of spinlock_try_lock.
try_lock(x, l) ==
    /\ MayLock(x, l)
    /\ save_disable(x, l)
    /\ cs_enter(x)
    /\ arg' = [arg EXCEPT ![x] = l]
    /\ Goto(x, "try")
    /\ UNCHANGED <<word, in_isr, held>>

\* Mutant: a failed attempt forgets cs_leave.
spinlock_try_lock_NoLeave(x) ==
    /\ At(x, "try") /\ UNCHANGED locks_held
    /\ \/ word[arg[x]] = 0 /\ Take(x)
       \/ word[arg[x]] = 1 /\ Goto(x, "failed") /\ UNCHANGED <<word, held>>
    /\ UNCHANGED <<irq_was_enabled, iflag, in_isr, arg, was>>

spinlock_try_lock(x) ==
    /\ At(x, "try")
    /\ \/ word[arg[x]] = 0 /\ Take(x) /\ UNCHANGED locks_held
       \/ word[arg[x]] = 1 /\ cs_leave(x) /\ Goto(x, "failed") /\ UNCHANGED <<word, held>>
    /\ UNCHANGED <<irq_was_enabled, iflag, in_isr, arg, was>>

\* The failure path of noirq_lock::try_lock.
try_lock_fail(x) == At(x, "failed") /\ irq_toggle(x)

\* spinlock_unlock of the lock taken last.
spinlock_unlock(x) ==
    /\ At(x, "run")
    /\ held[x] # << >>
    /\ LET l == held[x][Len(held[x])]
       IN /\ word' = [word EXCEPT ![l] = 0]
          /\ arg' = [arg EXCEPT ![x] = l]
    /\ held' = [held EXCEPT ![x] = SubSeq(@, 1, Len(@) - 1)]
    /\ cs_leave(x)
    /\ UNCHANGED <<irq_was_enabled, iflag, in_isr, was>>

\* Mutant: interrupts are restored before the lock word is released.
unlock_ToggleFirst(x) ==
    \/ /\ At(x, "run") /\ held[x] # << >> /\ ~iflag[Cpu(x)]
       /\ iflag' = [iflag EXCEPT ![Cpu(x)] = irq_was_enabled[held[x][Len(held[x])]]]
       /\ UNCHANGED <<word, irq_was_enabled, locks_held, in_isr, pc, arg, held, was>>
    \/ iflag[Cpu(x)] /\ spinlock_unlock(x) /\ UNCHANGED pc

\* noirq_lock::unlock: releases, then (irq_toggle) restores the flag.
unlock(x) == spinlock_unlock(x) /\ Goto(x, "toggle")
unlock_irq(x) == At(x, "toggle") /\ irq_toggle(x)

unlock_noirq(x) == spinlock_unlock(x) /\ UNCHANGED pc

\* A thread outside the locks disables or enables interrupts.
cpu_irq_set(x) ==
    /\ At(x, "run") /\ held[x] = << >> /\ x[2] = "thread"
    /\ iflag' = [iflag EXCEPT ![Cpu(x)] = ~@]
    /\ UNCHANGED <<word, irq_was_enabled, locks_held, in_isr, pc, arg, held, was>>

Interrupt(c) ==
    /\ iflag[c] /\ ~in_isr[c]
    /\ in_isr' = [in_isr EXCEPT ![c] = TRUE]
    /\ iflag' = [iflag EXCEPT ![c] = FALSE]
    /\ UNCHANGED <<word, irq_was_enabled, locks_held, pc, arg, held, was>>

ReturnFromInterrupt(c) ==
    /\ At(<<c, "isr">>, "run") /\ held[<<c, "isr">>] = << >>
    /\ in_isr' = [in_isr EXCEPT ![c] = FALSE]
    /\ iflag' = [iflag EXCEPT ![c] = TRUE]
    /\ UNCHANGED <<word, irq_was_enabled, locks_held, pc, arg, held, was>>

\* The steps a context takes by itself once it has called into the lock.
Advance(x) == \/ spinlock_lock(x) \/ spinlock_try_lock(x) \/ try_lock_fail(x)
              \/ unlock(x) \/ unlock_irq(x) \/ unlock_noirq(x)

Next == \/ \E x \in Contexts : \/ Advance(x) \/ cpu_irq_set(x)
                               \/ \E l \in Locks : lock(x, l) \/ lock_noirq(x, l) \/ try_lock(x, l)
        \/ \E c \in CPUs : Interrupt(c) \/ ReturnFromInterrupt(c)

Spec == Init /\ [][Next]_vars

\* Running code goes on, critical sections end and interrupt handlers return;
\* nobody is obliged to lock.
FairSpec == /\ Spec
            /\ \A x \in Contexts : WF_vars(Advance(x))
            /\ \A c \in CPUs : WF_vars(ReturnFromInterrupt(c))
----------------------------------------------------------------------------
TypeOK == /\ word \in [Locks -> {0, 1}]
          /\ irq_was_enabled \in [Locks -> BOOLEAN]
          /\ iflag \in [CPUs -> BOOLEAN]
          /\ locks_held \in [CPUs -> Nat]
          /\ in_isr \in [CPUs -> BOOLEAN]
          /\ pc \in [Contexts -> {"run", "spin", "try", "failed", "toggle"}]
          /\ arg \in [Contexts -> Locks]
          /\ held \in [Contexts -> Seq(Locks)]
          /\ was \in [Contexts -> [Locks -> BOOLEAN]]

\* The lock word of spinlock_t is 1 exactly while one context holds the lock.
MutualExclusion ==
    \A l \in Locks : /\ \A x, y \in Contexts : Holds(x, l) /\ Holds(y, l) => x = y
                     /\ word[l] = 1 <=> \E x \in Contexts : Holds(x, l)

\* locks_held counts the locks a CPU holds or spins for, in both its contexts.
LocksHeldCounts ==
    \A c \in CPUs :
        LET Share(x) == Len(held[x]) + (IF pc[x] \in {"spin", "try"} THEN 1 ELSE 0)
        IN locks_held[c] = Share(<<c, "thread">>) + Share(<<c, "isr">>)

\* A CPU that holds an irq_spinlock takes no interrupt.
HolderMasked ==
    \A x \in Contexts : held[x] # << >> /\ Running(x) => ~iflag[Cpu(x)]

\* An interrupt handler never spins on a lock held by the code it interrupted.
NoSelfDeadlock ==
    \A c \in CPUs : ~ \E l \in Locks : /\ Holds(<<c, "thread">>, l)
                                       /\ At(<<c, "isr">>, "spin")
                                       /\ arg[<<c, "isr">>] = l

\* A failed try_lock leaves interrupts as the caller had them.
TryLockPreservesInterrupts ==
    [][\A x \in Contexts : try_lock_fail(x) => iflag'[Cpu(x)] = was[x][arg[x]]]_vars

\* A held lock is released, whatever interrupts arrive.
LockReleased == \A l \in Locks : word[l] = 1 ~> word[l] = 0
============================================================================
