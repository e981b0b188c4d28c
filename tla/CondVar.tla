------------------------------ MODULE CondVar ------------------------------
(***************************************************************************)
(* The condition variable of kernel/lib/threadsync.cc and threadsync.h:    *)
(* condvar_wait_ex, condvar_wake_one and condvar_wake_all, used the way    *)
(* the kernel does: a waiter holds the lock protecting a condition and     *)
(* waits while it is false, a notifier changes the condition under that    *)
(* lock and then wakes.                                                    *)
(*                                                                         *)
(* var->lock is explicit, because the wakers hold it while thread_resume   *)
(* waits for the waiter to be asleep.  Sleeping is what the scheduler      *)
(* promises: a resume waits for the sleeper, a timeout may end the sleep.  *)
(***************************************************************************)
EXTENDS Naturals, Sequences, FiniteSets, SequencesExt

CONSTANTS Waiters,   \* threads that wait for the condition
          Notifiers, \* threads that make it true
          Timed,     \* waiters whose wait has a timeout
          Wakes,     \* how many waiters a notifier wakes at most: one, n or all
          Credits    \* how often each notifier makes the condition true

ASSUME CreditsAssumption == Credits \in Nat /\ Wakes \in [Notifiers -> Nat]

VARIABLES lock,   \* the lock protecting the condition
          vlock,  \* condition_var_t::lock
          chain,  \* condition_var_t::link: threads whose wait node is linked
          items,  \* the condition: how many items there are to take
          left,   \* how often each notifier will still notify
          pc,
          wake,   \* the waiter a notifier is resuming
          more,   \* how many waiters it has still to wake
          result  \* what thread_sleep_release returned

vars == <<lock, vlock, chain, items, left, pc, wake, more, result>>

Free == "free"
Threads == Waiters \cup Notifiers

Goto(t, label) == pc' = [pc EXCEPT ![t] = label]

Init ==
    /\ lock = Free /\ vlock = Free
    /\ chain = <<>>
    /\ items = 0
    /\ left = [n \in Notifiers |-> Credits]
    /\ pc = [t \in Threads |-> "out"]
    /\ wake = [n \in Notifiers |-> Free]
    /\ more = [n \in Notifiers |-> 0]
    /\ result = [w \in Waiters |-> TRUE]

----------------------------------------------------------------------------
\* The waiter takes the lock of the condition.
LockCondition(w) ==
    /\ pc[w] = "out" /\ lock = Free
    /\ lock' = w
    /\ Goto(w, "test")
    /\ UNCHANGED <<vlock, chain, items, left, wake, more, result>>

\* The condition holds: take an item and unlock.
Take(w) ==
    /\ pc[w] = "test" /\ items > 0
    /\ items' = items - 1
    /\ lock' = Free
    /\ Goto(w, "done")
    /\ UNCHANGED <<vlock, chain, left, wake, more, result>>

\* condvar_wait_ex locks the condition variable, with the condition still
\* locked ...
condvar_wait_ex(w) ==
    /\ pc[w] = "test" /\ items = 0
    /\ vlock = Free
    /\ vlock' = w
    /\ Goto(w, "link")
    /\ UNCHANGED <<lock, chain, items, left, wake, more, result>>

\* Mutant: the waiter goes to sleep without its node on the chain.
WaitLink_Unlinked(w) ==
    /\ pc[w] = "link" /\ lock' = Free /\ Goto(w, "release")
    /\ UNCHANGED <<vlock, chain, items, left, wake, more, result>>

\* ... links its node and unlocks the condition, in this order ...
WaitLink(w) ==
    /\ pc[w] = "link"
    /\ chain' = Append(chain, w)
    /\ lock' = Free
    /\ Goto(w, "release")
    /\ UNCHANGED <<vlock, items, left, wake, more, result>>

\* ... and thread_sleep_release puts it to sleep and then unlocks the
\* condition variable.
SleepRelease(w) ==
    /\ pc[w] = "release"
    /\ vlock' = Free
    /\ Goto(w, "sleep")
    /\ UNCHANGED <<lock, chain, items, left, wake, more, result>>

\* The timeout ends the sleep.
Timeout(w) ==
    /\ w \in Timed /\ pc[w] = "sleep"
    /\ result' = [result EXCEPT ![w] = FALSE]
    /\ Goto(w, "woken")
    /\ UNCHANGED <<lock, vlock, chain, items, left, wake, more>>

\* Resumed: the node is off the chain already.
Woken(w) ==
    /\ pc[w] = "woken" /\ result[w]
    /\ Goto(w, "relock")
    /\ UNCHANGED <<lock, vlock, chain, items, left, wake, more, result>>

\* Timed out: the condition variable is locked again to take the node off,
\* unless a notifier did so meanwhile.
TimedOut(w) ==
    /\ pc[w] = "woken" /\ ~result[w]
    /\ vlock = Free
    /\ IF w \in ToSet(chain)
       THEN chain' = Remove(chain, w) /\ UNCHANGED result
       ELSE result' = [result EXCEPT ![w] = TRUE] /\ UNCHANGED chain
    /\ Goto(w, "relock")
    /\ UNCHANGED <<lock, vlock, items, left, wake, more>>

\* The lock of the condition is taken again before the wait returns; after a
\* timeout the waiter gives up.
WaitReturn(w) ==
    /\ pc[w] = "relock" /\ lock = Free
    /\ IF result[w]
       THEN lock' = w /\ Goto(w, "test")
       ELSE UNCHANGED lock /\ Goto(w, "done")
    /\ UNCHANGED <<vlock, chain, items, left, wake, more, result>>

----------------------------------------------------------------------------
\* The notifier makes the condition true under its lock.
Produce(n) ==
    /\ pc[n] = "out" /\ left[n] > 0
    /\ lock = Free
    /\ items' = items + 1
    /\ left' = [left EXCEPT ![n] = @ - 1]
    /\ Goto(n, "notify")
    /\ UNCHANGED <<lock, vlock, chain, wake, more, result>>

\* Mutant: the notifier only tries to lock the condition variable.
condvar_wake_TryLock(n) ==
    /\ pc[n] = "notify"
    /\ IF vlock = Free
       THEN vlock' = n /\ more' = [more EXCEPT ![n] = Wakes[n]] /\ Goto(n, "next")
       ELSE Goto(n, "out") /\ UNCHANGED <<vlock, more>>
    /\ UNCHANGED <<lock, chain, items, left, wake, result>>

\* condvar_wake_one, condvar_wake_n and condvar_wake_all lock the condition
\* variable ...
condvar_wake(n) ==
    /\ pc[n] = "notify" /\ vlock = Free
    /\ vlock' = n
    /\ more' = [more EXCEPT ![n] = Wakes[n]]
    /\ Goto(n, "next")
    /\ UNCHANGED <<lock, chain, items, left, wake, result>>

\* Mutant: the loop counts one too many waiters off.
WakeNext_Drop(n) ==
    /\ pc[n] = "next"
    /\ IF chain = <<>> \/ more[n] = 0
       THEN /\ vlock' = Free
            /\ chain' = IF chain = <<>> THEN <<>> ELSE Tail(chain)
            /\ Goto(n, "out")
            /\ more' = [more EXCEPT ![n] = 0]
            /\ UNCHANGED wake
       ELSE /\ wake' = [wake EXCEPT ![n] = Head(chain)]
            /\ chain' = Tail(chain)
            /\ more' = [more EXCEPT ![n] = @ - 1]
            /\ Goto(n, "resume")
            /\ UNCHANGED vlock
    /\ UNCHANGED <<lock, items, left, result>>

\* Mutant: the node stays linked until its thread takes it off.
WakeNext_Linked(n) ==
    /\ pc[n] = "next"
    /\ IF chain = <<>> \/ more[n] = 0
       THEN /\ vlock' = Free
            /\ Goto(n, "out")
            /\ more' = [more EXCEPT ![n] = 0]
            /\ UNCHANGED wake
       ELSE /\ wake' = [wake EXCEPT ![n] = Head(chain)]
            /\ more' = [more EXCEPT ![n] = @ - 1]
            /\ Goto(n, "resume")
            /\ UNCHANGED vlock
    /\ UNCHANGED <<lock, chain, items, left, result>>

\* ... unlink the first waiter, or unlock when there is none or enough have
\* been woken ...
WakeNext(n) ==
    /\ pc[n] = "next"
    /\ IF chain = <<>> \/ more[n] = 0
       THEN /\ vlock' = Free
            /\ Goto(n, "out")
            /\ more' = [more EXCEPT ![n] = 0]
            /\ UNCHANGED <<chain, wake>>
       ELSE /\ wake' = [wake EXCEPT ![n] = Head(chain)]
            /\ chain' = Tail(chain)
            /\ more' = [more EXCEPT ![n] = @ - 1]
            /\ Goto(n, "resume")
            /\ UNCHANGED vlock
    /\ UNCHANGED <<lock, items, left, result>>

\* ... and resume it once it is asleep, with the condition variable locked.
thread_resume(n) ==
    /\ pc[n] = "resume"
    /\ pc[wake[n]] = "sleep"
    /\ result' = [result EXCEPT ![wake[n]] = TRUE]
    /\ pc' = [pc EXCEPT ![n] = "next", ![wake[n]] = "woken"]
    /\ wake' = [wake EXCEPT ![n] = Free]
    /\ UNCHANGED <<lock, vlock, chain, items, left, more>>

----------------------------------------------------------------------------
Wait(w) == \/ LockCondition(w) \/ Take(w) \/ condvar_wait_ex(w) \/ WaitLink(w)
           \/ SleepRelease(w) \/ Woken(w) \/ WaitReturn(w)

Notify(n) == Produce(n) \/ condvar_wake(n) \/ WakeNext(n) \/ thread_resume(n)

\* Everything has been produced, and nobody can take more.
Done == /\ \A n \in Notifiers : pc[n] = "out" /\ left[n] = 0
        /\ \A w \in Waiters : pc[w] \in {"sleep", "done"}
        /\ UNCHANGED vars

Next == (\E w \in Waiters : Wait(w)) \/ (\E n \in Notifiers : Notify(n)) \/ Done

TimedNext == Next \/ \E w \in Waiters : Timeout(w) \/ TimedOut(w)

Spec == Init /\ [][Next]_vars

TimedSpec == Init /\ [][TimedNext]_vars

\* Threads go on running, and get the locks they keep trying for.
Fairness == /\ \A w \in Waiters : SF_vars(Wait(w))
            /\ \A n \in Notifiers : SF_vars(Notify(n))

FairSpec == Spec /\ Fairness

TimedFairSpec == /\ TimedSpec
                 /\ Fairness
                 /\ \A w \in Waiters : SF_vars(TimedOut(w))

----------------------------------------------------------------------------
\* Every variable stays in its type.
TypeOK ==
    /\ lock \in Threads \cup {Free} /\ vlock \in Threads \cup {Free}
    /\ chain \in Seq(Waiters)
    /\ items \in 0 .. Credits * Cardinality(Notifiers)
    /\ left \in [Notifiers -> 0 .. Credits]
    /\ pc \in [Threads -> {"out", "test", "link", "release", "sleep", "woken",
                           "relock", "done", "notify", "next", "resume"}]
    /\ wake \in [Notifiers -> Waiters \cup {Free}]
    /\ more \in [Notifiers -> Nat]
    /\ result \in [Waiters -> BOOLEAN]

\* No wake-up is lost between testing the condition and going to sleep: when
\* the notifiers are through, there is an item for no linked waiter that is not
\* left to a waiter already awake (condvar_wait_ex links its node before it
\* unlocks the condition).
NoLostWakeup ==
    (chain # <<>> /\ \A n \in Notifiers : pc[n] = "out")
        => items <= Cardinality({w \in Waiters : pc[w] \in {"out", "test", "woken", "relock"}})

\* A sleeping waiter is on the chain, or one notifier is about to resume it.
SleeperIsReachable ==
    \A w \in Waiters : pc[w] = "sleep" =>
        Cardinality({n \in Notifiers : wake[n] = w}) = (IF w \in ToSet(chain) THEN 0 ELSE 1)

\* "Sanely disconnected nodes will have nulled links": the node on the stack of
\* condvar_wait_ex is off the chain when a resumed waiter wakes up, and when
\* any wait returns.
ReturnedIsUnlinked ==
    \A w \in Waiters : (pc[w] = "woken" /\ result[w]) \/ pc[w] \in {"out", "test", "relock", "done"}
                            => w \notin ToSet(chain)

\* The chain holds the sleepers that nobody is resuming, and no node of a
\* condvar_wait_ex that has returned.
ChainIsSleepers == SleeperIsReachable /\ ReturnedIsUnlinked

\* Where there are items for all, every waiter gets one or times out, whatever
\* the order of waits and notifications, unless a notifier picks a waiter that
\* is no longer asleep (TimedWaitReturns).
WaitersServed ==
    (/\ Credits * Cardinality(Notifiers) >= Cardinality(Waiters)
     /\ [](\A n \in Notifiers : wake[n] # Free => pc[wake[n]] = "sleep"))
        => \A w \in Waiters : <>(pc[w] = "done")

\* A wait with a timeout ends, also when "condition was notified after timer
\* expiry".
TimedWaitReturns == \A w \in Timed : (pc[w] = "woken") ~> (pc[w] # "woken")
============================================================================
