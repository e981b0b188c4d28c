------------------------------ MODULE McsLock ------------------------------
(***************************************************************************)
(* The queued lock of kernel/lib/spinlock.cc: mcslock_lock,                *)
(* mcslock_try_lock and mcslock_unlock.                                    *)
(*                                                                         *)
(* Every thread brings its own queue entry (mcs_queue_ent_t, a member of   *)
(* ext::unique_lock<ext::mcslock>, so an automatic variable of the caller) *)
(* and an entry is named by its thread.  One action is one access to       *)
(* memory that another thread can see.                                     *)
(***************************************************************************)
EXTENDS Integers, Sequences, FiniteSets

CONSTANTS Threads,     \* the threads, each with one queue entry
          TryLockers,  \* the threads that also call mcslock_try_lock
          Null         \* the null pointer

ASSUME NullAssumption == Null \notin Threads

VARIABLES root,       \* the lock word: the last entry of the queue, or Null
          next,       \* mcs_queue_ent_t::next of each entry
          locked,     \* mcs_queue_ent_t::locked of each entry
          thread_id,  \* mcs_queue_ent_t::thread_id of each entry
          pred,       \* the local variable pred of mcslock_lock
          locks_held, \* contribution of each thread to its CPU's locks_held
          pc          \* where each thread is

vars == <<root, next, locked, thread_id, pred, locks_held, pc>>

Waiting == {"mark", "assert", "link", "wait"}
Releasing == {"detach", "waitnext", "handoff"}
PCs == {"idle", "cs"} \union Waiting \union Releasing

Goto(t, label) == pc' = [pc EXCEPT ![t] = label]

\* Mutant: the critical section is not counted.
cs_enter_Uncounted(t) == UNCHANGED locks_held

cs_enter(t) == locks_held' = [locks_held EXCEPT ![t] = @ + 1]
cs_leave(t) == locks_held' = [locks_held EXCEPT ![t] = @ - 1]

\* An entry is uninitialised stack memory until the lock functions write it.
Init == /\ root = Null
        /\ next = [t \in Threads |-> Null]
        /\ locked \in [Threads -> BOOLEAN]
        /\ thread_id = [t \in Threads |-> t]
        /\ pred = [t \in Threads |-> Null]
        /\ locks_held = [t \in Threads |-> 0]
        /\ pc = [t \in Threads |-> "idle"]

\* Mutant: the failure path of mcslock_try_lock forgets cs_leave.
mcslock_try_lock_NoLeave(t) ==
    /\ t \in TryLockers /\ pc[t] = "idle" /\ cs_enter(t)
    /\ IF root = Null THEN root' = t /\ Goto(t, "cs") ELSE UNCHANGED <<root, pc>>
    /\ UNCHANGED <<next, locked, thread_id, pred>>

\* mcslock_try_lock never writes thread_id: the field keeps whatever value the
\* stack held, here the id of any thread.
mcslock_try_lock(t) ==
    /\ t \in TryLockers
    /\ pc[t] = "idle"
    /\ next' = [next EXCEPT ![t] = Null]
    /\ IF root = Null
       THEN root' = t /\ cs_enter(t) /\ Goto(t, "cs")
       ELSE UNCHANGED <<root, locks_held, pc>>
    /\ \E garbage \in Threads : thread_id' = [thread_id EXCEPT ![t] = garbage]
    /\ UNCHANGED <<locked, pred>>

\* mcslock_lock up to and including the exchange that publishes the entry.
mcslock_lock(t) ==
    /\ pc[t] = "idle"
    /\ thread_id' = [thread_id EXCEPT ![t] = t]
    /\ cs_enter(t)
    /\ next' = [next EXCEPT ![t] = Null]
    /\ pred' = [pred EXCEPT ![t] = root]
    /\ root' = t
    /\ Goto(t, IF root = Null THEN "cs" ELSE "mark")
    /\ UNCHANGED locked

\* Mutant: node->locked is not set before the entry is linked.
MarkLocked_Missing(t) ==
    /\ pc[t] = "mark" /\ Goto(t, "assert")
    /\ UNCHANGED <<root, next, locked, thread_id, pred, locks_held>>

MarkLocked(t) ==
    /\ pc[t] = "mark"
    /\ locked' = [locked EXCEPT ![t] = TRUE]
    /\ Goto(t, "assert")
    /\ UNCHANGED <<root, next, thread_id, pred, locks_held>>

\* A failed assertion stops the CPU here for good.
AssertPred(t) ==
    /\ pc[t] = "assert"
    /\ thread_id[pred[t]] # thread_id[t]
    /\ Goto(t, "link")
    /\ UNCHANGED <<root, next, locked, thread_id, pred, locks_held>>

LinkPred(t) ==
    /\ pc[t] = "link"
    /\ next' = [next EXCEPT ![pred[t]] = t]
    /\ Goto(t, "wait")
    /\ UNCHANGED <<root, locked, thread_id, pred, locks_held>>

WaitUnlocked(t) ==
    /\ pc[t] = "wait"
    /\ ~locked[t]
    /\ Goto(t, "cs")
    /\ UNCHANGED <<root, next, locked, thread_id, pred, locks_held>>

mcslock_unlock(t) ==
    /\ pc[t] = "cs"
    /\ Goto(t, IF next[t] = Null THEN "detach" ELSE "handoff")
    /\ UNCHANGED <<root, next, locked, thread_id, pred, locks_held>>

\* Mutant: unlock returns without waiting for the late successor to link.
Detach_NoWait(t) ==
    /\ pc[t] = "detach" /\ cs_leave(t) /\ Goto(t, "idle")
    /\ root' = IF root = t THEN Null ELSE root
    /\ UNCHANGED <<next, locked, thread_id, pred>>

\* Mutant: a plain store of null where the code compares and exchanges.
Detach_PlainStore(t) ==
    /\ pc[t] = "detach" /\ root' = Null /\ cs_leave(t) /\ Goto(t, "idle")
    /\ UNCHANGED <<next, locked, thread_id, pred>>

Detach(t) ==
    /\ pc[t] = "detach"
    /\ IF root = t
       THEN root' = Null /\ cs_leave(t) /\ Goto(t, "idle")
       ELSE Goto(t, "waitnext") /\ UNCHANGED <<root, locks_held>>
    /\ UNCHANGED <<next, locked, thread_id, pred>>

\* Mutant: the successor's locked flag is not cleared.
Handoff_NoWake(t) ==
    /\ pc[t] = "handoff" /\ cs_leave(t) /\ Goto(t, "idle")
    /\ UNCHANGED <<root, next, locked, thread_id, pred>>

WaitNext(t) ==
    /\ pc[t] = "waitnext"
    /\ next[t] # Null
    /\ Goto(t, "handoff")
    /\ UNCHANGED <<root, next, locked, thread_id, pred, locks_held>>

Handoff(t) ==
    /\ pc[t] = "handoff"
    /\ locked' = [locked EXCEPT ![next[t]] = FALSE]
    /\ cs_leave(t)
    /\ Goto(t, "idle")
    /\ UNCHANGED <<root, next, thread_id, pred>>

Step(t) == \/ mcslock_try_lock(t) \/ mcslock_lock(t)
           \/ MarkLocked(t) \/ AssertPred(t) \/ LinkPred(t) \/ WaitUnlocked(t)
           \/ mcslock_unlock(t) \/ Detach(t) \/ WaitNext(t) \/ Handoff(t)

Next == \E t \in Threads : Step(t)

Spec == Init /\ [][Next]_vars

\* A thread in the critical section does not stop, and neither does one inside
\* the lock functions: locks_held is nonzero, so it is not preempted.  Nobody
\* is obliged to lock.
Progress(t) == pc[t] # "idle" /\ Step(t)
FairSpec == Spec /\ \A t \in Threads : WF_vars(Progress(t))

----------------------------------------------------------------------------
\* t owns the lock: inside it, or released by its predecessor but not yet awake.
Owns(t) == \/ pc[t] \in {"cs"} \union Releasing
           \/ pc[t] = "wait" /\ ~locked[t]

\* t is queued behind pred[t].
Behind(t) == \/ pc[t] \in {"mark", "assert", "link"}
             \/ pc[t] = "wait" /\ locked[t]

TypeOK == /\ root \in Threads \union {Null}
          /\ next \in [Threads -> Threads \union {Null}]
          /\ locked \in [Threads -> BOOLEAN]
          /\ thread_id \in [Threads -> Threads]
          /\ pred \in [Threads -> Threads \union {Null}]
          /\ locks_held \in [Threads -> Nat]
          /\ pc \in [Threads -> PCs]

\* mcslock_lock and mcslock_try_lock give the lock to one thread at a time, and
\* an unlock wakes nobody while another thread is still inside.
MutualExclusion == \A t, u \in Threads : Owns(t) /\ Owns(u) => t = u

\* mcslock_unlock does not return while another thread still holds a pointer to
\* the caller's stack entry: the entry a waiter is about to link to, and the
\* entry an unlocker is about to wake, belong to threads still in the queue.
NoDanglingEntry ==
    \A t \in Threads :
        /\ pc[t] \in {"mark", "assert", "link"} => pc[pred[t]] # "idle"
        /\ pc[t] = "handoff" => pc[next[t]] = "wait"

\* Each thread's contribution to cpu_info_t::locks_held is one exactly while it
\* is in the lock functions or the critical section: no path of lock, try_lock
\* or unlock leaves the CPU unpreemptible, or preemptible with the lock held.
LocksHeldBalanced ==
    \A t \in Threads : locks_held[t] = IF pc[t] = "idle" THEN 0 ELSE 1

\* The assertion of mcslock_lock: the predecessor belongs to another thread.
PredIsAnotherThread ==
    \A t \in Threads : pc[t] = "assert" => thread_id[pred[t]] # thread_id[t]

\* A thread that joins the queue gets the lock, unless the assertion of
\* mcslock_lock stops the machine.
Starvation ==
    []PredIsAnotherThread => \A t \in Threads : pc[t] \in Waiting ~> pc[t] = "cs"

----------------------------------------------------------------------------
\* The queue the entries spell out: from root back along pred, as long as there
\* are threads in it.
Queue ==
    LET n == Cardinality({t \in Threads : pc[t] # "idle"})
        back[k \in 0 .. n] ==
            IF k = 0 THEN << >>
            ELSE << IF k = 1 THEN root ELSE pred[Head(back[k - 1])] >> \o back[k - 1]
    IN back[n]

Fifo == INSTANCE FifoLock
            WITH queue <- Queue,
                 inside <- {t \in Threads : pc[t] \in {"cs"} \union Releasing}

\* The lock is fair: threads enter in the order in which they exchanged their
\* entry into the lock word (mcslock_lock), whatever the interleaving.
RefinesFifo == Fifo!Spec
============================================================================
