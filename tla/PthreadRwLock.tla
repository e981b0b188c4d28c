--------------------------- MODULE PthreadRwLock ---------------------------
(***************************************************************************)
(* pthread_rwlock_rdlock, wrlock, their try forms and unlock of libc over  *)
(* the futex.  The word is m->lock_count.  No function writes m->owner, so *)
(* it stays -1 and every unlock takes the branch of a reader.              *)
(***************************************************************************)
EXTENDS Futex

CONSTANT MaxUnlocks  \* bound: unlocks by writers, each of which counts down

vars == <<word, value, pc, tab, waiter_count, sleepers, broken>>

Init ==
    /\ word = 0
    /\ value = [t \in Threads |-> 0]
    /\ pc = [t \in Threads |-> "idle"]
    /\ FutexInit

pthread_rwlock_rdlock(t) ==
    /\ pc[t] = "idle"
    /\ SetValue(t, word) /\ Goto(t, "rdspin") /\ UNCHANGED <<word, futex>>

pthread_rwlock_wrlock(t) ==
    /\ pc[t] = "idle"
    /\ SetValue(t, word) /\ Goto(t, "wrspin") /\ UNCHANGED <<word, futex>>

\* Compare and exchange from the value seen, which a miss reloads.
Exchange(t, new, inside) ==
    /\ IF word = value[t]
       THEN word' = new /\ Goto(t, inside) /\ UNCHANGED value
       ELSE SetValue(t, word) /\ UNCHANGED <<word, pc>>
    /\ UNCHANGED futex

ReadSpin(t) ==
    /\ pc[t] = "rdspin"
    /\ \/ value[t] >= 0 /\ Exchange(t, value[t] + 1, "reading")
       \/ value[t] < 0 /\ SetValue(t, word) /\ UNCHANGED <<word, pc, futex>>
       \/ value[t] < 0 /\ Goto(t, "futex") /\ UNCHANGED <<word, value, futex>>

\* Mutant: a writer does not wait for the readers.
WriteSpin_AnyReaders(t) ==
    /\ pc[t] = "wrspin"
    /\ \/ value[t] >= 0 /\ Exchange(t, -1, "writing")
       \/ value[t] < 0 /\ SetValue(t, word) /\ UNCHANGED <<word, pc, futex>>
       \/ value[t] # 0 /\ Goto(t, "futex") /\ UNCHANGED <<word, value, futex>>

\* A writer that sees readers does not look again before it waits.
WriteSpin(t) ==
    /\ pc[t] = "wrspin"
    /\ \/ value[t] = 0 /\ Exchange(t, -1, "writing")
       \/ value[t] < 0 /\ SetValue(t, word) /\ UNCHANGED <<word, pc, futex>>
       \/ value[t] # 0 /\ Goto(t, "futex") /\ UNCHANGED <<word, value, futex>>

pthread_rwlock_tryrdlock(t) ==
    /\ pc[t] = "idle" /\ word >= 0
    /\ word' = word + 1 /\ Goto(t, "reading") /\ UNCHANGED <<value, futex>>

pthread_rwlock_trywrlock(t) ==
    /\ pc[t] = "idle" /\ word = 0
    /\ word' = -1 /\ Goto(t, "writing") /\ UNCHANGED <<value, futex>>

\* owner is -1 and not the caller: count down, and wake only at zero ...
pthread_rwlock_unlock(t) ==
    /\ pc[t] \in {"reading", "writing"} /\ word > -MaxUnlocks
    /\ word' = word - 1
    /\ Goto(t, IF word = 1 THEN "wake" ELSE "idle")
    /\ UNCHANGED <<value, futex>>

\* ... nobody: the count given to FUTEX_WAKE is 0.
Step(t) ==
    \/ ReadSpin(t) \/ WriteSpin(t) \/ pthread_rwlock_unlock(t)
    \/ FutexCompare(t, "idle") \/ futex_wait(t) \/ FutexReturn(t) \/ futex_wake(t, 0)

Next == ~broken /\ \E t \in Threads :
    \/ Step(t) \/ pthread_rwlock_rdlock(t) \/ pthread_rwlock_wrlock(t)
    \/ pthread_rwlock_tryrdlock(t) \/ pthread_rwlock_trywrlock(t)

Spec == Init /\ [][Next]_vars

----------------------------------------------------------------------------
Inside(label) == {t \in Threads : pc[t] = label}

\* A writer is alone, and readers are admitted only while the count is theirs.
Exclusion ==
    /\ \A t \in Inside("writing"), u \in Inside("reading") \cup Inside("writing") : t = u
    /\ Inside("reading") # {} => word > 0

\* "-1 for write lock held, 0 for unlocked, > 0 for reader count"
\* (libc/include/pthread.h:105)
CountIsDocumented ==
    /\ Inside("writing") = {} => word >= 0
    /\ Inside("writing") # {} => word = -1

\* Who sleeps is resumed when the lock becomes free (pthread_rwlock_unlock.cc:24).
NobodyForgotten ==
    [][\A t \in Threads : pc[t] = "wake" /\ pc'[t] = "idle" =>
          \A u \in Threads : pc'[u] # "asleep"]_vars
============================================================================
