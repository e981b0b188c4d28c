------------------------------- MODULE Futex -------------------------------
(***************************************************************************)
(* FUTEX_WAIT and FUTEX_WAKE of kernel/syscall/sys_process.cc on one word  *)
(* of user memory, as the POSIX thread functions of libc use them.  The    *)
(* hash table is reduced to the slot of this word.  An action is one       *)
(* access to the user's word or one section under futex_lock.              *)
(*                                                                         *)
(* The last waiter deletes the entry object, but asks the table to forget  *)
(* the virtual address of the word where the key is the physical one, so   *)
(* the slot keeps pointing at freed memory ("freed").  A later lookup      *)
(* reads that memory: it finds the old key, which is the end of defined    *)
(* behaviour (broken), or other contents, and then there is no entry.      *)
(***************************************************************************)
EXTENDS Integers, Sequences

CONSTANT Threads

VARIABLES word,          \* the futex word in user memory
          tab,           \* the table's slot: "none", "live" or "freed"
          waiter_count,  \* of the entry
          sleepers,      \* futex_tab_ent_t::wake: who sleeps on the entry
          broken,        \* a freed entry was used
          value,         \* each thread's local copy of the word
          pc

futex == <<tab, waiter_count, sleepers, broken>>

Goto(t, label) == pc' = [pc EXCEPT ![t] = label]
SetValue(t, v) == value' = [value EXCEPT ![t] = v]

FutexInit ==
    /\ tab = "none" /\ waiter_count = 0 /\ sleepers = <<>> /\ broken = FALSE

\* futex_tab.lookup: does it find an entry?
lookup == IF tab = "live" THEN {TRUE} ELSE IF tab = "freed" THEN BOOLEAN ELSE {FALSE}

\* The value is compared before futex_lock is taken.  An error (EAGAIN) is
\* given to the caller.
FutexCompare(t, OnError) ==
    /\ pc[t] = "futex"
    /\ Goto(t, IF word = value[t] THEN "queue" ELSE OnError)
    /\ UNCHANGED <<word, value, futex>>

\* Under the lock: find or create the entry, count in, and wait, which
\* releases the lock when the thread is on the condition variable.
futex_wait(t) ==
    /\ pc[t] = "queue"
    /\ \E found \in lookup :
         IF found /\ tab = "freed"
         THEN broken' = TRUE /\ UNCHANGED <<tab, waiter_count, sleepers>>
         ELSE /\ tab' = "live"
              /\ waiter_count' = IF found THEN waiter_count + 1 ELSE 1
              /\ sleepers' = Append(sleepers, t)
              /\ UNCHANGED broken
    /\ Goto(t, "asleep")
    /\ UNCHANGED <<word, value>>

\* Mutant: the entry goes when a waiter returns, whoever else waits.
FutexReturn_First(t) ==
    /\ pc[t] = "woken"
    /\ waiter_count' = waiter_count - 1 /\ tab' = "freed"
    /\ Goto(t, "futex") /\ UNCHANGED <<word, value, sleepers, broken>>

\* The wait ends with futex_lock held: the last waiter deletes the entry.
\* The callers wait again with the value they had.
FutexReturn(t) ==
    /\ pc[t] = "woken"
    /\ waiter_count' = waiter_count - 1
    /\ tab' = IF waiter_count = 1 THEN "freed" ELSE tab
    /\ Goto(t, "futex")
    /\ UNCHANGED <<word, value, sleepers, broken>>

\* Wake at most n waiters, oldest first.
futex_wake(t, n) ==
    /\ pc[t] = "wake"
    /\ \E found \in lookup :
         LET k == IF n < Len(sleepers) THEN n ELSE Len(sleepers)
             woken == {sleepers[i] : i \in 1 .. k}
         IN IF found /\ tab = "live"
            THEN /\ sleepers' = SubSeq(sleepers, k + 1, Len(sleepers))
                 /\ pc' = [u \in Threads |-> IF u = t THEN "idle"
                                             ELSE IF u \in woken THEN "woken" ELSE pc[u]]
                 /\ UNCHANGED broken
            ELSE /\ broken' = found
                 /\ Goto(t, "idle")
                 /\ UNCHANGED sleepers
    /\ UNCHANGED <<word, value, tab, waiter_count>>

----------------------------------------------------------------------------
Waiting == {t \in Threads : pc[t] \in {"asleep", "woken"}}

\* The entry outlives its waiters (sys_process.cc:103): who sleeps is on the
\* list of the entry the table finds, once, and the count is that of the
\* threads that have not returned from the wait.
SleeperIsFound ==
    ~broken =>
        /\ \A t \in Threads : pc[t] = "asleep" =>
              tab = "live" /\ \E i \in 1 .. Len(sleepers) : sleepers[i] = t
        /\ \A i, j \in 1 .. Len(sleepers) : sleepers[i] = sleepers[j] => i = j
        /\ Waiting # {} => tab = "live" /\ waiter_count > 0


\* No lookup reaches a deleted entry (sys_process.cc:104).
EntryIsLive == ~broken
============================================================================
