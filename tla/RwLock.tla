------------------------------- MODULE RwLock -------------------------------
(***************************************************************************)
(* The sleeping reader/writer lock of kernel/lib/threadsync.cc: rwlock_t   *)
(* with a signed reader_count, which is minus the thread id of a writer, a *)
(* chain of waiting writers and a chain of waiting readers.                *)
(*                                                                         *)
(* Each critical section of rwlock->lock is one action.  rwlock_ex_unlock  *)
(* resumes readers in a loop with that spinlock held: while a thread is at *)
(* "wakeall" no other critical section starts.  Sleeping is what the       *)
(* scheduler promises: a resume waits for the sleeper.                     *)
(***************************************************************************)
EXTENDS Integers, Sequences, FiniteSets, SequencesExt

CONSTANTS Threads,   \* thread ids
          Upgraders, \* those that call rwlock_upgrade as readers
          SpinMin, SpinInit  \* SPINCOUNT_MIN and the spin count of rwlock_init

\* Thread ids are positive, and SpinMin <= SpinInit.

VARIABLES reader_count, \* rwlock_t::reader_count
          ex_link,      \* rwlock_t::ex_link: waiting writers, oldest first
          sh_link,      \* rwlock_t::sh_link: waiting readers, oldest first
          spin_count,   \* rwlock_t::spin_count
          pc, spin,
          wake          \* the writer an unlocking thread has to resume, or 0

vars == <<reader_count, ex_link, sh_link, spin_count, pc, spin, wake>>

Goto(t, label) == pc' = [pc EXCEPT ![t] = label]

\* rwlock_init
Init ==
    /\ reader_count = 0
    /\ ex_link = <<>> /\ sh_link = <<>>
    /\ spin_count = SpinInit
    /\ pc = [t \in Threads |-> "out"]
    /\ spin = [t \in Threads |-> 0]
    /\ wake = [t \in Threads |-> 0]

Unlocked == \A t \in Threads : pc[t] # "wakeall"

\* What rwlock_ex_lock and rwlock_sh_lock test for.
ExFree == reader_count = 0 /\ ex_link = <<>>

\* Mutant: readers do not look for waiting writers.
ShFree_Barge == reader_count >= 0

\* Mutant: readers do not look for a writer inside.
ShFree_Writer == ex_link = <<>>

ShFree == reader_count >= 0 /\ ex_link = <<>>

\* rwlock_ex_lock or rwlock_sh_lock is entered.
Call(t) ==
    /\ pc[t] = "out"
    /\ \E label \in {"exlock", "shlock"} : Goto(t, label)
    /\ UNCHANGED <<reader_count, ex_link, sh_link, spin_count, spin, wake>>

\* One more turn of the loop, outside or inside the spinlock.
Spin(t) ==
    /\ \/ pc[t] = "exlock" /\ ~ExFree
       \/ pc[t] = "shlock" /\ ~ShFree
    /\ spin[t] < spin_count
    /\ spin' = [spin EXCEPT ![t] = @ + 1]
    /\ UNCHANGED <<reader_count, ex_link, sh_link, spin_count, pc, wake>>

\* The lock is free for a writer (rwlock_ex_lock, rwlock_ex_try_lock).
ExTake(t) ==
    /\ pc[t] \in {"out", "exlock"} /\ Unlocked /\ ExFree
    /\ reader_count' = -t
    /\ spin' = [spin EXCEPT ![t] = 0]
    /\ Goto(t, "ex")
    /\ UNCHANGED <<ex_link, sh_link, spin_count, wake>>

\* The lock is free for a reader (rwlock_sh_lock, rwlock_sh_try_lock).
ShTake(t) ==
    /\ pc[t] \in {"out", "shlock"} /\ Unlocked /\ ShFree
    /\ reader_count' = reader_count + 1
    /\ spin' = [spin EXCEPT ![t] = 0]
    /\ Goto(t, "sh")
    /\ UNCHANGED <<ex_link, sh_link, spin_count, wake>>

Decreased == IF spin_count > SpinMin THEN spin_count - 1 ELSE spin_count

\* Spinning did not help: the writer queues up and sleeps ...
ExEnqueue(t) ==
    /\ pc[t] = "exlock" /\ Unlocked /\ ~ExFree
    /\ spin[t] >= spin_count
    /\ spin_count' = Decreased
    /\ ex_link' = Append(ex_link, t)
    /\ spin' = [spin EXCEPT ![t] = 0]
    /\ Goto(t, "exsleep")
    /\ UNCHANGED <<reader_count, sh_link, wake>>

\* ... and so does the reader.
ShEnqueue(t) ==
    /\ pc[t] = "shlock" /\ Unlocked /\ ~ShFree
    /\ spin[t] >= spin_count
    /\ spin_count' = Decreased
    /\ sh_link' = Append(sh_link, t)
    /\ spin' = [spin EXCEPT ![t] = 0]
    /\ Goto(t, "shsleep")
    /\ UNCHANGED <<reader_count, ex_link, wake>>

\* rwlock_upgrade: the only reader becomes the writer; otherwise the thread
\* sleeps as a waiting writer, and is still counted as a reader.
rwlock_upgrade(t) ==
    /\ t \in Upgraders /\ pc[t] = "sh" /\ Unlocked
    /\ IF reader_count = 1
       THEN reader_count' = -t /\ Goto(t, "ex") /\ UNCHANGED ex_link
       ELSE ex_link' = Append(ex_link, t) /\ Goto(t, "upsleep") /\ UNCHANGED reader_count
    /\ UNCHANGED <<sh_link, spin_count, spin, wake>>

\* The first waiting writer owns the lock from now on; t resumes it next.
HandOver(t) ==
    /\ reader_count' = -Head(ex_link)
    /\ ex_link' = Tail(ex_link)
    /\ wake' = [wake EXCEPT ![t] = Head(ex_link)]
    /\ Goto(t, "resume")

\* Mutant: waiting readers are not looked for.
rwlock_ex_unlock_NoReaders(t) ==
    /\ pc[t] = "ex" /\ Unlocked
    /\ IF ex_link # <<>>
       THEN HandOver(t)
       ELSE /\ reader_count' = 0
            /\ Goto(t, "out")
            /\ UNCHANGED <<ex_link, wake>>
    /\ UNCHANGED <<sh_link, spin_count, spin>>

\* rwlock_ex_unlock: to the next writer, else to all waiting readers, else the
\* lock is free.
rwlock_ex_unlock(t) ==
    /\ pc[t] = "ex" /\ Unlocked
    /\ IF ex_link # <<>>
       THEN HandOver(t)
       ELSE /\ reader_count' = 0
            /\ Goto(t, IF sh_link # <<>> THEN "wakeall" ELSE "out")
            /\ UNCHANGED <<ex_link, wake>>
    /\ UNCHANGED <<sh_link, spin_count, spin>>

\* Mutant: the woken reader is not counted.
WakeReader_NoCount(t) ==
    /\ pc[t] = "wakeall"
    /\ pc[Head(sh_link)] = "shsleep"
    /\ sh_link' = Tail(sh_link)
    /\ pc' = [pc EXCEPT ![Head(sh_link)] = "sh",
                        ![t] = IF Tail(sh_link) = <<>> THEN "out" ELSE "wakeall"]
    /\ UNCHANGED <<reader_count, ex_link, spin_count, spin, wake>>

\* One turn of the loop that wakes all readers: count it, resume it.
WakeReader(t) ==
    /\ pc[t] = "wakeall"
    /\ pc[Head(sh_link)] = "shsleep"
    /\ sh_link' = Tail(sh_link)
    /\ reader_count' = reader_count + 1
    /\ pc' = [pc EXCEPT ![Head(sh_link)] = "sh",
                        ![t] = IF Tail(sh_link) = <<>> THEN "out" ELSE "wakeall"]
    /\ UNCHANGED <<ex_link, spin_count, spin, wake>>

\* rwlock_sh_unlock: the last reader hands over to the first waiting writer.
rwlock_sh_unlock(t) ==
    /\ pc[t] = "sh" /\ Unlocked
    /\ IF reader_count = 1 /\ ex_link # <<>>
       THEN HandOver(t)
       ELSE /\ reader_count' = reader_count - 1
            /\ Goto(t, "out")
            /\ UNCHANGED <<ex_link, wake>>
    /\ UNCHANGED <<sh_link, spin_count, spin>>

\* thread_resume of the new writer, once it is asleep.
thread_resume(t) ==
    /\ pc[t] = "resume"
    /\ pc[wake[t]] \in {"exsleep", "upsleep"}
    /\ pc' = [pc EXCEPT ![t] = "out", ![wake[t]] = "ex"]
    /\ wake' = [wake EXCEPT ![t] = 0]
    /\ UNCHANGED <<reader_count, ex_link, sh_link, spin_count, spin>>

Lock(t) == Spin(t) \/ ExTake(t) \/ ShTake(t) \/ ExEnqueue(t) \/ ShEnqueue(t)

Unlock(t) == rwlock_ex_unlock(t) \/ WakeReader(t) \/ rwlock_sh_unlock(t) \/ thread_resume(t)

Next == \E t \in Threads : Call(t) \/ Lock(t) \/ rwlock_upgrade(t) \/ Unlock(t)

Spec == Init /\ [][Next]_vars

\* A thread inside a lock function goes on and gets the spinlock it keeps trying
\* for, and holders unlock.
FairSpec == Spec /\ \A t \in Threads : /\ SF_vars(pc[t] # "out" /\ Lock(t))
                                       /\ WF_vars(Unlock(t))

----------------------------------------------------------------------------
Readers == {t \in Threads : pc[t] \in {"sh", "upsleep"}}
Writers == {t \in Threads : pc[t] = "ex"}

\* Every variable stays in its type.
TypeOK ==
    /\ reader_count \in {-t : t \in Threads} \cup 0 .. Cardinality(Threads)
    /\ ex_link \in Seq(Threads) /\ sh_link \in Seq(Threads)
    /\ spin_count \in SpinMin .. SpinInit
    /\ pc \in [Threads -> {"out", "exlock", "shlock", "exsleep", "shsleep", "upsleep",
                           "ex", "sh", "wakeall", "resume"}]
    /\ spin \in [Threads -> 0 .. SpinInit]
    /\ wake \in [Threads -> Threads \cup {0}]

\* A writer is alone, and reader_count is minus its id, as rwlock_ex_lock and
\* rwlock_ex_unlock assert.
WriterAlone ==
    \A t \in Writers : reader_count = -t /\ Writers = {t} /\ Readers = {}

\* "negative=thread id of exclusive owner, 0=unlocked, positive=reader count":
\* the count is that of the readers inside, also while they are being woken.
CountsReaders ==
    /\ reader_count >= 0 => reader_count = Cardinality(Readers)
    /\ reader_count < 0 => Readers = {}

\* Nobody sleeps on a free lock: writers wait for a holder, and readers for a
\* writer that is inside, waiting or waking them.
NobodyStranded ==
    /\ ex_link # <<>> => reader_count # 0
    /\ sh_link # <<>> => reader_count < 0 \/ ex_link # <<>> \/ ~Unlocked
    /\ reader_count < 0 => pc[-reader_count] = "ex"
                             \/ \E t \in Threads : pc[t] = "resume" /\ wake[t] = -reader_count

\* Writers are not starved by readers or by each other, unless a reader waits
\* for its own share in rwlock_upgrade.
WriterServed ==
    [](\A t \in Threads : pc[t] # "upsleep") =>
        \A t \in Threads : pc[t] = "exlock" ~> pc[t] = "ex"

\* rwlock_upgrade returns as the writer: "assert(rwlock->reader_count ==
\* -wait.thread)" after it slept.
UpgradeReturns == \A t \in Upgraders : pc[t] = "upsleep" ~> pc[t] = "ex"
============================================================================
