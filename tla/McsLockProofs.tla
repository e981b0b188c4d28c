--------------------------- MODULE McsLockProofs ---------------------------
(***************************************************************************)
(* Mutual exclusion and the lifetime of queue entries of McsLock, for any  *)
(* set of threads.                                                         *)
(*                                                                         *)
(* The invariant never follows the queue end to end: it says that no two   *)
(* waiters have the same predecessor, that nobody waits behind the last    *)
(* entry, and that a next pointer leads to the waiter that set it.  That   *)
(* is enough for an unlock to pass the lock to one waiter at most.         *)
(***************************************************************************)
EXTENDS McsLock, TLAPS

\* Nobody owns the lock while the lock word is null, and the lock word never
\* points at the entry of a thread that has left.
RootInv == /\ \A t \in Threads : Owns(t) => root # Null
           /\ root # Null => pc[root] # "idle"

\* Waiters form chains without branches, and the last entry has none behind it.
PredInv ==
    /\ \A t \in Threads : Behind(t) => /\ pred[t] \in Threads
                                       /\ pc[pred[t]] # "idle"
                                       /\ pred[t] # root
    /\ \A t, u \in Threads : Behind(t) /\ Behind(u) /\ pred[t] = pred[u] => t = u

\* A next pointer of a queued entry leads to the waiter that linked itself.
NextInv ==
    /\ \A t \in Threads : pc[t] # "idle" /\ next[t] # Null =>
            pc[next[t]] = "wait" /\ locked[next[t]] /\ pred[next[t]] = t
    /\ \A t \in Threads : pc[t] = "handoff" => next[t] # Null
    /\ \A t \in Threads : pc[t] \in {"assert", "link"} => locked[t]

\* Inductive: LocksHeldBalanced is what keeps locks_held a natural number.
IInv == /\ TypeOK /\ MutualExclusion /\ LocksHeldBalanced
        /\ RootInv /\ PredInv /\ NextInv

USE NullAssumption

\* The initial state satisfies the inductive invariant.
LEMMA InitIInv == Init => IInv
BY DEF Init, IInv, TypeOK, MutualExclusion, LocksHeldBalanced, RootInv, PredInv, NextInv,
       Owns, Behind, PCs, Waiting, Releasing

\* Every step of every thread keeps the inductive invariant.
LEMMA NextIInv == IInv /\ [Next]_vars => IInv'
<1> SUFFICES ASSUME IInv, [Next]_vars PROVE IInv'
  OBVIOUS
<1> USE DEF IInv, TypeOK, MutualExclusion, LocksHeldBalanced, RootInv, PredInv, NextInv,
            Owns, Behind, PCs, Waiting, Releasing, Goto, cs_enter, cs_leave
<1>1. ASSUME NEW t \in Threads, mcslock_try_lock(t) PROVE IInv'
  BY <1>1 DEF mcslock_try_lock
<1>2. ASSUME NEW t \in Threads, mcslock_lock(t) PROVE IInv'
  BY <1>2 DEF mcslock_lock
<1>3. ASSUME NEW t \in Threads, MarkLocked(t) PROVE IInv'
  BY <1>3 DEF MarkLocked
<1>4. ASSUME NEW t \in Threads, AssertPred(t) PROVE IInv'
  BY <1>4 DEF AssertPred
<1>5. ASSUME NEW t \in Threads, LinkPred(t) PROVE IInv'
  BY <1>5 DEF LinkPred
<1>6. ASSUME NEW t \in Threads, WaitUnlocked(t) PROVE IInv'
  BY <1>6 DEF WaitUnlocked
<1>7. ASSUME NEW t \in Threads, mcslock_unlock(t) PROVE IInv'
  BY <1>7 DEF mcslock_unlock
<1>8. ASSUME NEW t \in Threads, Detach(t) PROVE IInv'
  <2>1. CASE root = t
    BY <1>8, <2>1 DEF Detach
  <2>2. CASE root # t
    BY <1>8, <2>2 DEF Detach
  <2> QED
    BY <2>1, <2>2
<1>9. ASSUME NEW t \in Threads, WaitNext(t) PROVE IInv'
  BY <1>9 DEF WaitNext
<1>10. ASSUME NEW t \in Threads, Handoff(t) PROVE IInv'
  BY <1>10 DEF Handoff
<1>11. CASE UNCHANGED vars
  BY <1>11 DEF vars
<1> QED
  BY <1>1, <1>2, <1>3, <1>4, <1>5, <1>6, <1>7, <1>8, <1>9, <1>10, <1>11
     DEF Next, Step

\* The inductive invariant gives the safety properties the model checker checks.
LEMMA IInvSafe == IInv => MutualExclusion /\ NoDanglingEntry /\ LocksHeldBalanced
BY DEF IInv, NoDanglingEntry, TypeOK, PredInv, NextInv, Behind

\* The inductive invariant holds in every reachable state.
THEOREM Invariance == Spec => []IInv
BY InitIInv, NextIInv, PTL DEF Spec

\* The fields of the queue entries and the lock word keep their types.
THEOREM TypeCorrect == Spec => []TypeOK
<1>1. IInv => TypeOK
  BY DEF IInv
<1> QED
  BY <1>1, Invariance, PTL

\* mcslock_lock, try_lock and unlock let one thread own the lock at a time,
\* whatever the number of threads.
THEOREM Exclusion == Spec => []MutualExclusion
BY IInvSafe, Invariance, PTL

\* mcslock_unlock returns only when no other thread can still reach the
\* caller's stack entry.
THEOREM EntryLifetime == Spec => []NoDanglingEntry
BY IInvSafe, Invariance, PTL

\* Every path through the lock functions leaves locks_held balanced.
THEOREM Balanced == Spec => []LocksHeldBalanced
BY IInvSafe, Invariance, PTL
============================================================================
