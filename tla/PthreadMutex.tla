---------------------------- MODULE PthreadMutex ----------------------------
(***************************************************************************)
(* pthread_mutex_lock, trylock and unlock of libc over the futex.  The     *)
(* word is m->owner: a thread id or -1.  The 1000 spins are reduced to     *)
(* "some spins": a thread that has seen an owner may give up at any time.  *)
(* Mutexes are never recursive: every initializer sets recursions to -1.   *)
(***************************************************************************)
EXTENDS Futex

vars == <<word, value, pc, tab, waiter_count, sleepers, broken>>

Unowned == "-1"

Init ==
    /\ word = Unowned
    /\ value = [t \in Threads |-> Unowned]
    /\ pc = [t \in Threads |-> "idle"]
    /\ FutexInit

\* The first load.  A mutex the caller already owns is refused (EDEADLK).
pthread_mutex_lock(t) ==
    \/ /\ pc[t] = "idle"
       /\ SetValue(t, word) /\ Goto(t, "spin") /\ UNCHANGED <<word, futex>>
    \/ /\ pc[t] = "inside" /\ word = t
       /\ UNCHANGED vars

\* The loop: compare and exchange when the value seen is -1, else load again.
SpinExchange(t) ==
    /\ pc[t] = "spin" /\ value[t] = Unowned
    /\ IF word = Unowned
       THEN word' = t /\ Goto(t, "inside") /\ UNCHANGED value
       ELSE SetValue(t, word) /\ UNCHANGED <<word, pc>>
    /\ UNCHANGED futex

SpinLoad(t) ==
    /\ pc[t] = "spin" /\ value[t] # Unowned
    /\ SetValue(t, word)
    /\ UNCHANGED <<word, pc, futex>>

SpinGiveUp(t) ==
    /\ pc[t] = "spin" /\ value[t] # Unowned
    /\ Goto(t, "futex")
    /\ UNCHANGED <<word, value, futex>>

\* Mutant: the exchange does not look at the word.
pthread_mutex_trylock_Store(t) ==
    /\ pc[t] = "idle" /\ word' = t /\ Goto(t, "inside") /\ UNCHANGED <<value, futex>>

pthread_mutex_trylock(t) ==
    /\ pc[t] = "idle"
    /\ IF word = Unowned THEN word' = t /\ Goto(t, "inside") ELSE UNCHANGED <<word, pc>>
    /\ UNCHANGED <<value, futex>>

\* Release ownership; the wake is a system call of its own.
pthread_mutex_unlock(t) ==
    /\ pc[t] = "inside" /\ word = t
    /\ word' = Unowned
    /\ Goto(t, "wake")
    /\ UNCHANGED <<value, futex>>

Step(t) ==
    \/ SpinExchange(t) \/ SpinLoad(t) \/ SpinGiveUp(t)
    \/ FutexCompare(t, "idle") \/ futex_wait(t) \/ FutexReturn(t) \/ futex_wake(t, 1)

Next == ~broken /\ \E t \in Threads :
    Step(t) \/ pthread_mutex_lock(t) \/ pthread_mutex_trylock(t) \/ pthread_mutex_unlock(t)

Spec == Init /\ [][Next]_vars

----------------------------------------------------------------------------
\* Only the owner is between lock and unlock, and the word says who it is.
Exclusion == \A t \in Threads : pc[t] = "inside" <=> word = t

\* A thread that slept until the mutex was released tries to take it before
\* its call returns an error (pthread_mutex_timedlock.cc:31, "1x after waits").
WokenTries == [][\A t \in Threads : ~(pc[t] = "futex" /\ word = Unowned /\ pc'[t] = "idle")]_vars
============================================================================
