----------------------------- MODULE RwSpinlock -----------------------------
(***************************************************************************)
(* rwspinlock_t of kernel/lib/spinlock.cc (ext::shared_spinlock): -1 is    *)
(* exclusive, n >= 0 is the number of readers, and a writer that waits for *)
(* readers sets bit 30 to keep new readers out.  One action is one access  *)
(* to the lock word; the loops keep the last value they saw in old_value.  *)
(***************************************************************************)
EXTENDS Integers, FiniteSets

CONSTANTS Threads,
          Upgraders,    \* the threads that call rwspinlock_upgrade
          TryReaders    \* the threads that call rwspinlock_sh_try_lock

VARIABLES lock,       \* the lock word
          old_value,  \* the local old_value (expect in the try functions)
          own_bit30,  \* the local own_bit30 of rwspinlock_ex_lock_impl
          expect,     \* its parameter: 0 to acquire, 1 to upgrade
          pc

vars == <<lock, old_value, own_bit30, expect, pc>>
locals == <<old_value, own_bit30, expect>>

Bit30 == 2^30

Goto(t, label) == pc' = [pc EXCEPT ![t] = label]

\* Return from a lock function: its locals are gone.
Return(t, label) == /\ Goto(t, label)
                    /\ old_value' = [old_value EXCEPT ![t] = 0]
                    /\ own_bit30' = [own_bit30 EXCEPT ![t] = FALSE]
                    /\ expect' = [expect EXCEPT ![t] = 0]

\* atomic_cmpxchg_upd(lock, &old_value, new) succeeds, or fails and reads the
\* current value into old_value.
CmpxchgHit(t, new) == lock = old_value[t] /\ lock' = new
CmpxchgMiss(t) == /\ lock # old_value[t]
                  /\ old_value' = [old_value EXCEPT ![t] = lock]
                  /\ UNCHANGED <<lock, pc, own_bit30, expect>>

\* A loop body that returns to label when its exchange succeeds.
CmpxchgReturn(t, new, label) == \/ CmpxchgHit(t, new) /\ Return(t, label)
                                \/ CmpxchgMiss(t)

\* old_value = *lock on the way to label.
Load(t, label) == /\ old_value' = [old_value EXCEPT ![t] = lock]
                  /\ Goto(t, label)
                  /\ UNCHANGED <<lock, own_bit30, expect>>

Init == /\ lock = 0
        /\ old_value = [t \in Threads |-> 0]
        /\ own_bit30 = [t \in Threads |-> FALSE]
        /\ expect = [t \in Threads |-> 0]
        /\ pc = [t \in Threads |-> "idle"]

rwspinlock_ex_lock(t) == pc[t] = "idle" /\ Load(t, "ex")

rwspinlock_upgrade(t) == /\ t \in Upgraders
                         /\ pc[t] = "shared"
                         /\ old_value' = [old_value EXCEPT ![t] = lock]
                         /\ expect' = [expect EXCEPT ![t] = 1]
                         /\ Goto(t, "ex")
                         /\ UNCHANGED <<lock, own_bit30>>

\* rwspinlock_ex_lock_impl: the lock looks unowned, try to take it directly.
ExAcquire(t) ==
    /\ pc[t] = "ex" /\ ~own_bit30[t] /\ old_value[t] = expect[t]
    /\ \/ lock = expect[t] /\ lock' = -1 /\ Return(t, "exclusive")
       \/ lock # expect[t] /\ Goto(t, "ex_bit30") /\ UNCHANGED <<lock, locals>>

\* There are readers and no writer has bit 30 yet.
ReadersOnly(t) == old_value[t] > 0 /\ old_value[t] < Bit30

\* Mutant: bit 30 is stored over whatever the lock word is now.
ExLockOut_NoCompare(t) ==
    /\ pc[t] = "ex_bit30" \/ (pc[t] = "ex" /\ old_value[t] # expect[t])
    /\ ~own_bit30[t] /\ ReadersOnly(t)
    /\ lock' = old_value[t] + Bit30
    /\ own_bit30' = [own_bit30 EXCEPT ![t] = TRUE]
    /\ Goto(t, "ex")
    /\ UNCHANGED <<old_value, expect>>

\* Take bit 30; either way the loop goes round.
ExLockOut(t) ==
    /\ pc[t] = "ex_bit30" \/ (pc[t] = "ex" /\ old_value[t] # expect[t])
    /\ ~own_bit30[t] /\ ReadersOnly(t)
    /\ Goto(t, "ex")
    /\ \/ /\ CmpxchgHit(t, old_value[t] + Bit30)
          /\ own_bit30' = [own_bit30 EXCEPT ![t] = TRUE]
          /\ UNCHANGED old_value
       \/ /\ lock # old_value[t]
          /\ old_value' = [old_value EXCEPT ![t] = lock]
          /\ UNCHANGED <<lock, own_bit30>>
    /\ UNCHANGED expect

\* Mutant: an upgrader does not count its own share among the readers.
ExDrained_OffByOne(t) ==
    /\ pc[t] = "ex" /\ own_bit30[t]
    /\ old_value[t] \in {Bit30 + expect[t], Bit30 + expect[t] + 1}
    /\ CmpxchgReturn(t, -1, "exclusive")

\* We own bit 30 and the (other) readers have drained out.
ExDrained(t) ==
    /\ pc[t] = "ex" /\ own_bit30[t] /\ old_value[t] = Bit30 + expect[t]
    /\ CmpxchgReturn(t, -1, "exclusive")

\* None of the cases above: read the lock again.
ExReload(t) ==
    /\ \/ /\ pc[t] = "ex"
          /\ IF own_bit30[t] THEN old_value[t] # Bit30 + expect[t]
             ELSE old_value[t] # expect[t] /\ ~ReadersOnly(t)
       \/ pc[t] = "ex_bit30" /\ ~ReadersOnly(t)
    /\ Load(t, "ex")

Store(t, value, label) == /\ pc[t] = "exclusive"
                          /\ lock' = value
                          /\ Goto(t, label)
                          /\ UNCHANGED locals

rwspinlock_downgrade(t) == Store(t, 1, "shared")
rwspinlock_ex_unlock(t) == Store(t, 0, "idle")

rwspinlock_sh_lock(t) == pc[t] = "idle" /\ Load(t, "sh")

ShAcquire(t) ==
    /\ pc[t] = "sh" /\ old_value[t] >= 0 /\ old_value[t] < Bit30
    /\ CmpxchgReturn(t, old_value[t] + 1, "shared")

\* cpu_wait_value: spin until bits 31 and 30 are both clear.  A reader whose
\* old_value is Bit30 or more has no step: the loop does not load the lock again.
ShWait(t) ==
    /\ pc[t] = "sh" /\ old_value[t] < 0
    /\ lock \in 0 .. Bit30 - 1
    /\ Goto(t, "sh_reload")
    /\ UNCHANGED <<lock, locals>>

ShReload(t) == pc[t] = "sh_reload" /\ Load(t, "sh")

rwspinlock_sh_unlock(t) == pc[t] = "shared" /\ Load(t, "sh_unlock")

\* Mutant: the decrement is a load and a store.
ShRelease_NotAtomic(t) ==
    /\ pc[t] = "sh_unlock" /\ old_value[t] > 0
    /\ lock' = old_value[t] - 1 /\ Return(t, "idle")

ShRelease(t) ==
    /\ pc[t] = "sh_unlock" /\ old_value[t] > 0
    /\ CmpxchgReturn(t, old_value[t] - 1, "idle")

rwspinlock_ex_try_lock(t) == pc[t] = "idle" /\ lock = 0 /\ Load(t, "ex_try")

ExTry(t) ==
    /\ pc[t] = "ex_try"
    /\ \/ lock = 0 /\ lock' = -1 /\ Return(t, "exclusive")
       \/ lock # 0 /\ UNCHANGED lock /\ Return(t, "idle")

rwspinlock_sh_try_lock(t) ==
    /\ t \in TryReaders /\ pc[t] = "idle"
    /\ lock >= 0
    /\ Load(t, "sh_try")

ShTry(t) ==
    /\ pc[t] = "sh_try"
    /\ \/ CmpxchgHit(t, lock + 1) /\ Return(t, "shared")
       \/ lock # old_value[t] /\ Goto(t, "sh_try_wait") /\ UNCHANGED <<lock, locals>>

ShTryWait(t) ==
    /\ pc[t] = "sh_try_wait" /\ lock >= 0
    /\ Goto(t, "sh_try_reload")
    /\ UNCHANGED <<lock, locals>>

ShTryReload(t) ==
    /\ pc[t] = "sh_try_reload"
    /\ \/ lock >= 0 /\ Load(t, "sh_try")
       \/ lock < 0 /\ Return(t, "idle") /\ UNCHANGED lock

Advance(t) == \/ ExAcquire(t) \/ ExLockOut(t) \/ ExDrained(t) \/ ExReload(t)
              \/ ShAcquire(t) \/ ShWait(t) \/ ShReload(t) \/ ShRelease(t)
              \/ ExTry(t) \/ ShTry(t) \/ ShTryWait(t) \/ ShTryReload(t)
Unlock(t) == rwspinlock_ex_unlock(t) \/ rwspinlock_sh_unlock(t)
Call(t) == \/ rwspinlock_ex_lock(t) \/ rwspinlock_sh_lock(t)
           \/ rwspinlock_ex_try_lock(t) \/ rwspinlock_sh_try_lock(t)
           \/ rwspinlock_upgrade(t) \/ rwspinlock_downgrade(t)

Next == \E t \in Threads : Advance(t) \/ Unlock(t) \/ Call(t)

Spec == Init /\ [][Next]_vars

\* Spinning threads keep spinning and holders release; nobody is obliged to lock.
FairSpec == Spec /\ \A t \in Threads : WF_vars(Advance(t)) /\ WF_vars(Unlock(t))
----------------------------------------------------------------------------
PCs == {"idle", "ex", "ex_bit30", "exclusive", "sh", "sh_reload", "shared",
        "sh_unlock", "ex_try", "sh_try", "sh_try_wait", "sh_try_reload"}

\* t has a share of the lock; an upgrader keeps its share until it is exclusive.
HasShare(t) == \/ pc[t] \in {"shared", "sh_unlock"}
               \/ pc[t] \in {"ex", "ex_bit30"} /\ expect[t] = 1
Sharers == {t \in Threads : HasShare(t)}
OwnsBit30(t) == own_bit30[t]

TypeOK == /\ lock \in -1 .. Bit30 + Cardinality(Threads)
          /\ old_value \in [Threads -> -1 .. Bit30 + Cardinality(Threads)]
          /\ own_bit30 \in [Threads -> BOOLEAN]
          /\ expect \in [Threads -> {0, 1}]
          /\ pc \in [Threads -> PCs]

\* A thread that got exclusive access, by ex_lock, ex_try_lock or upgrade, is
\* alone: no other writer, no reader, and no reader in the middle of unlocking.
WriterAlone ==
    \A t \in Threads : pc[t] = "exclusive" =>
        lock = -1 /\ \A u \in Threads \ {t} : pc[u] # "exclusive" /\ ~HasShare(u)

\* The lock word counts the readers exactly, and carries bit 30 exactly while
\* one writer waits for them: no retry, upgrade or downgrade loses a count.
WordExact ==
    lock # -1 => /\ lock % Bit30 = Cardinality(Sharers)
                 /\ lock \div Bit30 = Cardinality({t \in Threads : OwnsBit30(t)})

\* rwspinlock_sh_unlock never meets the failing assertion: a thread that gives
\* its share back sees a positive lock word.
UnlockSeesShare == \A t \in Threads : pc[t] = "sh_unlock" => old_value[t] > 0

\* A writer that has locked out new readers gets the lock.
WriterNotStarved == \A t \in Threads : OwnsBit30(t) ~> pc[t] = "exclusive"

\* A reader is not left out of a lock that is free for readers from some point
\* on: "Wait for it to not be exclusively held and readers not locked out".
ReaderAdmitted ==
    \A t \in Threads :
        <>[](lock \in 0 .. Bit30 - 1) => []<>(pc[t] \notin {"sh", "sh_reload"})
============================================================================
