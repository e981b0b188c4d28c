------------------------------- MODULE Mutex -------------------------------
(***************************************************************************)
(* The sleeping mutex of kernel/lib/threadsync.cc: mutex_t with an owner,  *)
(* an adaptive spin count and a chain of waiting threads.  Unlocking with  *)
(* waiters hands the ownership to the first of them and then resumes it.   *)
(*                                                                         *)
(* owner and the chain change only under mutex->lock, so each critical     *)
(* section of that spinlock is one action; the spin loop in front of it    *)
(* reads owner without the lock.  Sleeping is what the scheduler promises  *)
(* of thread_sleep_release and thread_resume: the resumer waits until the  *)
(* thread it resumes is asleep, and a timeout may end a timed sleep first. *)
(***************************************************************************)
EXTENDS Integers, Sequences

CONSTANTS Threads,   \* threads using the mutex
          Timed,     \* those that use mutex_try_lock_until, the others mutex_lock
          SpinMin, SpinMax, \* SPINCOUNT_MIN and SPINCOUNT_MAX
          SpinFloor, \* bound: below this, smaller spin counts behave alike
          NoOwner    \* owner -1

ASSUME OwnerAssumption == NoOwner \notin Threads

ASSUME SpinAssumption == /\ SpinMin \in Nat /\ SpinMax \in Nat /\ SpinFloor \in Int
                         /\ SpinFloor < SpinMin /\ SpinMin < SpinMax

VARIABLES owner,      \* mutex_t::owner
          chain,      \* mutex_t::link: the waiting threads, oldest first
          spin_count, \* mutex_t::spin_count
          pc,         \* of each thread: "out", "spin", "sleep", "in", "resume"
          spin,       \* its local spin
          wake        \* the thread an unlocking thread has to resume

vars == <<owner, chain, spin_count, pc, spin, wake>>

Goto(t, label) == pc' = [pc EXCEPT ![t] = label]

\* mutex_init
Init ==
    /\ owner = NoOwner
    /\ chain = <<>>
    /\ spin_count = SpinMin + (SpinMax - SpinMin) \div 2
    /\ pc = [t \in Threads |-> "out"]
    /\ spin = [t \in Threads |-> 0]
    /\ wake = [t \in Threads |-> NoOwner]

\* mutex_lock and mutex_try_lock_until are entered; calling them as the owner
\* fails an assertion.
Call(t) ==
    /\ pc[t] = "out" /\ owner # t
    /\ Goto(t, "spin")
    /\ UNCHANGED <<owner, chain, spin_count, spin, wake>>

\* Another round of spinning: owned, and the spin limit is not reached, seen
\* outside the lock or again inside it.
Spin(t) ==
    /\ pc[t] = "spin"
    /\ owner # NoOwner /\ spin[t] < spin_count
    /\ spin' = [spin EXCEPT ![t] = @ + 1]
    /\ UNCHANGED <<owner, chain, spin_count, pc, wake>>

\* Mutant: the owner is not checked again inside the lock.
Acquire_Stale(t) ==
    /\ pc[t] = "spin"
    /\ owner' = t
    /\ spin_count' = IF spin_count < SpinMax THEN spin_count + 1 ELSE spin_count
    /\ spin' = [spin EXCEPT ![t] = 0]
    /\ Goto(t, "in")
    /\ UNCHANGED <<chain, wake>>

\* Mutant: the spin count grows without limit.
Acquire_NoLimit(t) ==
    /\ pc[t] = "spin"
    /\ owner = NoOwner
    /\ owner' = t
    /\ spin_count' = spin_count + 1
    /\ spin' = [spin EXCEPT ![t] = 0]
    /\ Goto(t, "in")
    /\ UNCHANGED <<chain, wake>>

\* Inside the lock the mutex has no owner: take it, and spin longer next time.
Acquire(t) ==
    /\ pc[t] = "spin"
    /\ owner = NoOwner
    /\ owner' = t
    /\ spin_count' = IF spin_count < SpinMax THEN spin_count + 1 ELSE spin_count
    /\ spin' = [spin EXCEPT ![t] = 0]
    /\ Goto(t, "in")
    /\ UNCHANGED <<chain, wake>>

\* The "Decrease spin count" of the two functions: mutex_lock compares with
\* the maximum where mutex_try_lock_until compares with the minimum.
Decreased(t) ==
    IF IF t \in Timed THEN spin_count > SpinMin ELSE spin_count < SpinMax
    THEN IF spin_count > SpinFloor THEN spin_count - 1 ELSE spin_count
    ELSE spin_count

\* Mutant: waiters queue at the front.
Enqueue_Front(t) ==
    /\ pc[t] = "spin"
    /\ owner # NoOwner /\ spin[t] >= spin_count
    /\ spin_count' = Decreased(t)
    /\ chain' = <<t>> \o chain
    /\ spin' = [spin EXCEPT ![t] = 0]
    /\ Goto(t, "sleep")
    /\ UNCHANGED <<owner, wake>>

\* Mutant: the thread queues up and goes on spinning.
Enqueue_NoSleep(t) ==
    /\ pc[t] = "spin"
    /\ owner # NoOwner /\ spin[t] >= spin_count
    /\ Len(chain) < 4
    /\ spin_count' = Decreased(t)
    /\ chain' = Append(chain, t)
    /\ UNCHANGED <<owner, wake, pc, spin>>

\* Spinning did not help: queue up and sleep.
Enqueue(t) ==
    /\ pc[t] = "spin"
    /\ owner # NoOwner /\ spin[t] >= spin_count
    /\ spin_count' = Decreased(t)
    /\ chain' = Append(chain, t)
    /\ spin' = [spin EXCEPT ![t] = 0]
    /\ Goto(t, "sleep")
    /\ UNCHANGED <<owner, wake>>

\* mutex_try_lock
mutex_try_lock(t) ==
    /\ pc[t] = "out"
    /\ owner = NoOwner
    /\ owner' = t
    /\ Goto(t, "in")
    /\ UNCHANGED <<chain, spin_count, spin, wake>>

\* mutex_try_lock_until gives up waiting for the spinlock.
TimeoutSpin(t) ==
    /\ t \in Timed /\ pc[t] = "spin"
    /\ spin' = [spin EXCEPT ![t] = 0]
    /\ Goto(t, "out")
    /\ UNCHANGED <<owner, chain, spin_count, wake>>

\* mutex_try_lock_until times out asleep: it returns, and its wait node, on
\* the stack, stays in the chain.  What an unlock then reads is undefined, so
\* only TimedSpec, which stops at this point, has this step.
TimeoutSleep(t) ==
    /\ t \in Timed /\ pc[t] = "sleep"
    /\ Goto(t, "out")
    /\ UNCHANGED <<owner, chain, spin_count, spin, wake>>

\* Mutant: the mutex is freed before the first waiter is woken.
mutex_unlock_Free(t) ==
    /\ pc[t] = "in"
    /\ owner' = NoOwner
    /\ IF chain = <<>>
       THEN /\ Goto(t, "out")
            /\ UNCHANGED <<chain, wake>>
       ELSE /\ wake' = [wake EXCEPT ![t] = Head(chain)]
            /\ chain' = Tail(chain)
            /\ Goto(t, "resume")
    /\ UNCHANGED <<spin_count, spin>>

\* Mutant: the first waiter is not resumed.
mutex_unlock_NoWake(t) ==
    /\ pc[t] = "in"
    /\ Goto(t, "out")
    /\ owner' = IF chain = <<>> THEN NoOwner ELSE Head(chain)
    /\ chain' = IF chain = <<>> THEN <<>> ELSE Tail(chain)
    /\ UNCHANGED <<wake, spin_count, spin>>

\* mutex_unlock: with no waiter the mutex is free, otherwise the first waiter
\* owns it from now on.
mutex_unlock(t) ==
    /\ pc[t] = "in"
    /\ IF chain = <<>>
       THEN /\ owner' = NoOwner
            /\ Goto(t, "out")
            /\ UNCHANGED <<chain, wake>>
       ELSE /\ owner' = Head(chain)
            /\ wake' = [wake EXCEPT ![t] = Head(chain)]
            /\ chain' = Tail(chain)
            /\ Goto(t, "resume")
    /\ UNCHANGED <<spin_count, spin>>

\* thread_resume of the new owner, once it is asleep; the sleeper returns with
\* the mutex.
thread_resume(t) ==
    /\ pc[t] = "resume"
    /\ pc[wake[t]] = "sleep"
    /\ pc' = [pc EXCEPT ![t] = "out", ![wake[t]] = "in"]
    /\ wake' = [wake EXCEPT ![t] = NoOwner]
    /\ UNCHANGED <<owner, chain, spin_count, spin>>

Lock(t) == Spin(t) \/ Acquire(t) \/ Enqueue(t)

Next == \E t \in Threads : \/ Call(t) \/ Lock(t) \/ mutex_try_lock(t) \/ TimeoutSpin(t)
                           \/ mutex_unlock(t) \/ thread_resume(t)

Spec == Init /\ [][Next]_vars

TimedSpec == Init /\ [][Next \/ \E t \in Threads : TimeoutSleep(t)]_vars

\* Threads inside the lock functions go on, and holders unlock.
FairSpec ==
    Spec /\ \A t \in Threads : /\ WF_vars(Lock(t))
                               /\ WF_vars(mutex_unlock(t)) /\ WF_vars(thread_resume(t))

----------------------------------------------------------------------------
\* Every variable stays in its type.
TypeOK ==
    /\ owner \in Threads \cup {NoOwner}
    /\ chain \in Seq(Threads)
    /\ spin_count \in SpinFloor .. SpinMax
    /\ pc \in [Threads -> {"out", "spin", "sleep", "in", "resume"}]
    /\ spin \in [Threads -> 0 .. SpinMax]
    /\ wake \in [Threads -> Threads \cup {NoOwner}]

\* One thread at a time is between lock and unlock, and it is the owner
\* mutex_unlock asserts (mutex->owner == thread_get_id()).
MutualExclusion == \A t \in Threads : pc[t] = "in" => owner = t

\* Ownership is never lost: a free mutex has no waiters; an owner that does not
\* hold the mutex sleeps off the chain and one unlocker is on its way to resume
\* it; and unlockers resume nobody else.
OwnershipAccounted ==
    /\ owner = NoOwner => chain = <<>>
    /\ owner # NoOwner => \/ pc[owner] = "in"
                          \/ pc[owner] = "sleep" /\ \E t \in Threads : pc[t] = "resume"
    /\ \A t \in Threads : pc[t] = "resume" => wake[t] = owner /\ owner # NoOwner /\ pc[owner] = "sleep"
    /\ \A t, u \in Threads : pc[t] = "resume" /\ pc[u] = "resume" => t = u

\* The wait chain lists the threads waiting for the mutex, each once, and not
\* the owner.
ChainIsWaiters ==
    /\ \A i \in DOMAIN chain : pc[chain[i]] = "sleep" /\ chain[i] # owner
    /\ \A i, j \in DOMAIN chain : chain[i] = chain[j] => i = j

\* Waiters get the mutex in the order they queued up, and nobody overtakes:
\* owner and chain together are the queue of a FIFO lock.
Fifo == INSTANCE FifoLock WITH
            queue <- IF owner = NoOwner THEN <<>> ELSE <<owner>> \o chain,
            inside <- {t \in Threads : pc[t] = "in"}
RefinesFifo == Fifo!Spec

\* A thread in mutex_lock gets the mutex.
LockAcquired == \A t \in Threads \ Timed : pc[t] = "spin" ~> pc[t] = "in"

\* "Decrease spin count": queueing up lowers the spin count unless it is at
\* its minimum, and never takes it below.
SpinCountDecreases ==
    [][\A t \in Threads : Enqueue(t) =>
            spin_count' = IF spin_count > SpinMin THEN spin_count - 1 ELSE spin_count]_vars
============================================================================
