----------------------------- MODULE Scheduler -----------------------------
(***************************************************************************)
(* The x86-64 thread scheduler (kernel/arch/x86_64/cpu/thread_impl.cc):    *)
(* per-CPU ready and sleep lists under cpu_info_t::queue_lock, per-thread  *)
(* state words with a BUSY bit, voluntary and interrupt driven context     *)
(* switches, deferral while spinlocks are held, sleeping with and without  *)
(* a timeout, thread_resume on the home CPU and across CPUs through the    *)
(* resume ring and an inter-processor interrupt, thread exit and join.     *)
(*                                                                         *)
(* A CPU runs either a thread ("run") or kernel code with interrupts off;  *)
(* its label pc[c] names the next lock acquisition, wait or state change.  *)
(* A CPU's name is also the name of its idle thread.  Timestamps are       *)
(* abstracted to their order: "order" lists the threads oldest timeslice   *)
(* first, and the idle threads come after every other thread.              *)
(***************************************************************************)
EXTENDS Naturals, FiniteSets, Sequences, SequencesExt

CONSTANTS CPUs,        \* processors; c also names the idle thread of CPU c
          Threads,     \* all other threads
          home,        \* run_cpu[]: the CPU that owns a thread
          Timed,       \* threads whose waits on the object carry a timeout
          SleepIrqOff, \* do sleepers disable interrupts (condvar_wait_ex) or not (mutex_lock)
          ThreadWakes, \* do threads wake sleepers, or only interrupt handlers
          Joins        \* may threads call thread_wait

ASSUME HomeAssumption == home \in [Threads -> CPUs]

VARIABLES state,   \* thread_info_t::state
          ready,   \* cpu_info_t::ready_list
          sleep,   \* cpu_info_t::sleep_list
          cur,     \* cpu_info_t::cur_thread
          tlock,   \* thread_info_t::lock: the CPU holding it, or Free
          qlock,   \* cpu_info_t::queue_lock: likewise
          ring,    \* cpu_info_t::resume_ring, oldest entry first
          ipi,     \* is INTR_IPI_RESCHED pending
          pc,      \* what the CPU does next
          todo,    \* threads the CPU still has to resume
          after,   \* where the CPU goes when todo is empty
          outg,    \* the thread being switched out (after_csw_vp)
          order,   \* threads by timeslice_timestamp, oldest first
          at,      \* where a thread is suspended inside thread_sleep_release
          wq,      \* what a sleeping thread waits for
          due,     \* threads whose wake_time has passed
          fast,    \* was the saved context pushed by thread_yield
          ret,     \* the value the saved context's thread_yield will return
          deferred,\* cpu_info_t::csw_deferred
          resched, \* cpu_info_t::should_reschedule
          failed   \* the assertion that stopped a CPU, or "none"

vars == <<state, ready, sleep, cur, tlock, qlock, ring, ipi, pc, todo, after,
          outg, order, at, wq, due, fast, ret, deferred, resched, failed>>

lists == <<ready, sleep, order>>
locks == <<tlock, qlock>>
kick == <<ring, ipi>>
thr == <<at, wq, due, fast, ret>>

Free == "free"
All == Threads \cup CPUs
Home(t) == IF t \in CPUs THEN t ELSE home[t]

States == {"UNINITIALIZED", "SLEEPING", "READY", "RUNNING", "FINISHED",
           "SLEEPING_BUSY", "READY_BUSY", "EXITING_BUSY", "FINISHED_BUSY"}
Busy == {"SLEEPING_BUSY", "READY_BUSY", "EXITING_BUSY", "FINISHED_BUSY"}

Labels == {"run", "sched", "out", "choose", "clear", "exit", "ipi",
           "next", "wait", "queue", "wake", "halt"}

Init ==
    /\ state = [t \in All |-> IF t \in CPUs THEN "RUNNING" ELSE "UNINITIALIZED"]
    /\ ready = [c \in CPUs |-> {c}]
    /\ sleep = [c \in CPUs |-> {}]
    /\ cur = [c \in CPUs |-> c]
    /\ tlock = [t \in All |-> Free]
    /\ qlock = [c \in CPUs |-> Free]
    /\ ring = [c \in CPUs |-> <<>>]
    /\ ipi = [c \in CPUs |-> FALSE]
    /\ pc = [c \in CPUs |-> "run"]
    /\ todo = [c \in CPUs |-> <<>>]
    /\ after = [c \in CPUs |-> "run"]
    /\ outg = [c \in CPUs |-> c]
    /\ order = <<>>
    /\ at = [t \in All |-> "body"]
    /\ wq = [t \in All |-> "none"]
    /\ due = {}
    /\ fast = [t \in All |-> TRUE]
    /\ ret = [t \in All |-> 0]
    /\ deferred = [c \in CPUs |-> FALSE]
    /\ resched = [c \in CPUs |-> FALSE]
    /\ failed = "none"

\* A failed assert prints a message and halts the processor.
Assert_Failed(c, what) == /\ pc' = [pc EXCEPT ![c] = "halt"]
                          /\ failed' = what

\* cpu_info_t::locks_held is nonzero while the running thread holds a spinlock.
LocksHeld(c) == at[cur[c]] \in {"locked", "release"}

\* Interrupts reach the CPU only in thread code that left them enabled.
Interruptible(c) ==
    /\ pc[c] = "run"
    /\ SleepIrqOff => at[cur[c]] \notin {"release", "yield"}

\* thread_schedule entered from an interrupt: it is put off while a spinlock
\* is held, and otherwise saves a context that is not a "fast" one.
ScheduleFromIrq(c) ==
    IF LocksHeld(c)
    THEN /\ deferred' = [deferred EXCEPT ![c] = TRUE]
         /\ pc' = [pc EXCEPT ![c] = "run"]
         /\ UNCHANGED fast
    ELSE /\ pc' = [pc EXCEPT ![c] = "sched"]
         /\ fast' = [fast EXCEPT ![cur[c]] = FALSE]
         /\ UNCHANGED deferred

\* thread_yield: pushes a fast context whose return value is zero and enters
\* thread_schedule.
thread_yield(c) ==
    /\ pc' = [pc EXCEPT ![c] = "sched"]
    /\ fast' = [fast EXCEPT ![cur[c]] = TRUE]
    /\ ret' = [ret EXCEPT ![cur[c]] = 0]

----------------------------------------------------------------------------
\* Thread code.

\* thread_create_with_state: a free slot becomes a thread in the ready list of
\* its home CPU; the creator kicks another CPU or hands its own over.
thread_create(c, t) ==
    /\ pc[c] = "run" /\ at[cur[c]] = "body"
    /\ state[t] = "UNINITIALIZED"
    /\ tlock[t] = Free /\ qlock[home[t]] = Free
    /\ state' = [state EXCEPT ![t] = "READY"]
    /\ ready' = [ready EXCEPT ![home[t]] = @ \cup {t}]
    /\ order' = Append(order, t)
    /\ IF home[t] = c
       THEN thread_yield(c) /\ UNCHANGED ipi
       ELSE /\ ipi' = [ipi EXCEPT ![home[t]] = TRUE]
            /\ UNCHANGED <<pc, fast, ret>>
    /\ UNCHANGED <<sleep, cur, locks, ring, todo, after, outg, at, wq, due,
                   deferred, resched, failed>>

\* A thread takes the spinlock of a synchronisation object.
spinlock_lock(c) ==
    /\ pc[c] = "run" /\ cur[c] \in Threads /\ at[cur[c]] = "body"
    /\ \A t \in Threads : at[t] \notin {"locked", "release"}
    /\ at' = [at EXCEPT ![cur[c]] = "locked"]
    /\ UNCHANGED <<state, lists, cur, locks, kick, pc, todo, after, outg, wq,
                   due, fast, ret, deferred, resched, failed>>

\* ... and drops it again: cs_leave makes up for a deferred context switch.
spinlock_unlock(c) ==
    /\ pc[c] = "run" /\ at[cur[c]] = "locked"
    /\ at' = [at EXCEPT ![cur[c]] = "body"]
    /\ IF deferred[c]
       THEN thread_yield(c) /\ deferred' = [deferred EXCEPT ![c] = FALSE]
       ELSE UNCHANGED <<pc, fast, ret, deferred>>
    /\ UNCHANGED <<state, lists, cur, locks, kick, todo, after, outg, wq, due,
                   resched, failed>>

\* thread_sleep_release: with its wait node queued the thread goes to
\* SLEEPING_BUSY ...
thread_sleep_release(c) ==
    LET t == cur[c] IN
    /\ pc[c] = "run" /\ at[t] = "locked"
    /\ state' = [state EXCEPT ![t] = "SLEEPING_BUSY"]
    /\ at' = [at EXCEPT ![t] = "release"]
    /\ wq' = [wq EXCEPT ![t] = "object"]
    /\ UNCHANGED <<lists, cur, locks, kick, pc, todo, after, outg, due, fast,
                   ret, deferred, resched, failed>>
\* Mutant: the deferred context switch is not looked at.
SleepUnlock_Forget(c) ==
    LET t == cur[c] IN
    /\ pc[c] = "run" /\ at[t] = "release"
    /\ at' = [at EXCEPT ![t] = "yield"]
    /\ UNCHANGED <<pc, fast, ret, deferred>>
    /\ UNCHANGED <<state, lists, cur, locks, kick, todo, after, outg, wq, due,
                   resched, failed>>

\* ... releases the object's spinlock, where cs_leave makes up for a context
\* switch that was deferred while it was held ...
SleepUnlock(c) ==
    LET t == cur[c] IN
    /\ pc[c] = "run" /\ at[t] = "release"
    /\ at' = [at EXCEPT ![t] = "yield"]
    /\ IF deferred[c]
       THEN thread_yield(c) /\ deferred' = [deferred EXCEPT ![c] = FALSE]
       ELSE UNCHANGED <<pc, fast, ret, deferred>>
    /\ UNCHANGED <<state, lists, cur, locks, kick, todo, after, outg, wq, due,
                   resched, failed>>

\* ... and yields.
SleepYield(c) ==
    LET t == cur[c] IN
    /\ pc[c] = "run" /\ at[t] = "yield"
    /\ at' = [at EXCEPT ![t] = "slept"]
    /\ thread_yield(c)
    /\ UNCHANGED <<state, lists, cur, locks, kick, todo, after, outg, wq, due,
                   deferred, resched, failed>>

\* Back from thread_sleep_release.  The waiter looks at the result; one that
\* timed out takes its node off the wait chain if it is still there.
SleepReturn(c) ==
    LET t == cur[c] IN
    /\ pc[c] = "run" /\ at[t] = "slept"
    /\ \A u \in Threads : at[u] \notin {"locked", "release"}
    /\ at' = [at EXCEPT ![t] = "body"]
    /\ wq' = [wq EXCEPT ![t] = "none"]
    /\ ret' = [ret EXCEPT ![t] = 0]
    /\ UNCHANGED <<state, lists, cur, locks, kick, pc, todo, after, outg, due,
                   fast, deferred, resched, failed>>
\* thread_sleep_until: sleeps for a time, on nobody's wait chain.
thread_sleep_until(c) ==
    LET t == cur[c] IN
    /\ pc[c] = "run" /\ t \in Threads /\ at[t] = "body" /\ tlock[t] = Free
    /\ state' = [state EXCEPT ![t] = "SLEEPING_BUSY"]
    /\ wq' = [wq EXCEPT ![t] = "timer"]
    /\ thread_yield(c)
    /\ UNCHANGED <<lists, cur, locks, kick, todo, after, outg, at, due,
                   deferred, resched, failed>>

\* thread_wait: under the other thread's lock, waits on its done_cond unless
\* it has finished.  The wait is a condvar_wait_ex; its loop rechecks.
thread_wait(c, u) ==
    LET t == cur[c] IN
    /\ Joins /\ pc[c] = "run" /\ t \in Threads \ {u} /\ at[t] = "body"
    /\ tlock[u] = Free
    /\ state[u] \notin {"UNINITIALIZED", "FINISHED", "FINISHED_BUSY"}
    /\ \A v \in Threads : at[v] \notin {"locked", "release"}
    /\ state' = [state EXCEPT ![t] = "SLEEPING_BUSY"]
    /\ at' = [at EXCEPT ![t] = "release"]
    /\ wq' = [wq EXCEPT ![t] = u]
    /\ UNCHANGED <<lists, cur, locks, kick, pc, todo, after, outg, due, fast,
                   ret, deferred, resched, failed>>

\* thread_cleanup: the thread function returned.
thread_cleanup(c) ==
    LET t == cur[c] IN
    /\ pc[c] = "run" /\ t \in Threads /\ at[t] = "body" /\ tlock[t] = Free
    /\ state' = [state EXCEPT ![t] = "EXITING_BUSY"]
    /\ thread_yield(c)
    /\ UNCHANGED <<lists, cur, locks, kick, todo, after, outg, at, wq, due,
                   deferred, resched, failed>>

\* Somebody takes the first waiter off the object's wait chain and resumes it:
\* a thread, or the handler of a device interrupt.
Wake(c, w) ==
    /\ wq[w] = "object"
    /\ \A t \in Threads : at[t] \notin {"locked", "release"}
    /\ \/ /\ ThreadWakes /\ pc[c] = "run"
          /\ cur[c] \in Threads /\ at[cur[c]] = "body"
          /\ after' = [after EXCEPT ![c] = "run"]
       \/ /\ Interruptible(c)
          /\ after' = [after EXCEPT ![c] = "irq"]
    /\ wq' = [wq EXCEPT ![w] = "none"]
    /\ todo' = [todo EXCEPT ![c] = <<w>>]
    /\ pc' = [pc EXCEPT ![c] = "next"]
    /\ UNCHANGED <<state, lists, cur, locks, kick, outg, at, due, fast, ret,
                   deferred, resched, failed>>

\* The clock passes the wake_time of a sleeper.
Expire(t) ==
    /\ state[t] \in {"SLEEPING", "SLEEPING_BUSY"} /\ t \notin due
    /\ wq[t] = "timer" \/ t \in Timed
    /\ due' = due \cup {t}
    /\ UNCHANGED <<state, lists, cur, locks, kick, pc, todo, after, outg, at,
                   wq, fast, ret, deferred, resched, failed>>

----------------------------------------------------------------------------
\* Interrupts and thread_schedule.

\* The scheduling timer fires.
Timer(c) ==
    /\ Interruptible(c)
    /\ ScheduleFromIrq(c)
    /\ UNCHANGED <<state, lists, cur, locks, kick, todo, after, outg, at, wq,
                   due, ret, resched, failed>>

\* INTR_IPI_RESCHED is taken.
IpiEnter(c) ==
    /\ Interruptible(c) /\ ipi[c]
    /\ ipi' = [ipi EXCEPT ![c] = FALSE]
    /\ pc' = [pc EXCEPT ![c] = "ipi"]
    /\ UNCHANGED <<state, lists, cur, locks, ring, todo, after, outg, thr,
                   deferred, resched, failed>>
\* Mutant: only the oldest entry of the drained ring is resumed.
thread_ipi_resched_One(c) ==
    /\ pc[c] = "ipi"
    /\ qlock[c] = Free
    /\ todo' = [todo EXCEPT ![c] = IF ring[c] = <<>> THEN <<>> ELSE <<Head(ring[c])>>]
    /\ ring' = [ring EXCEPT ![c] = <<>>]
    /\ after' = [after EXCEPT ![c] = "ipi"]
    /\ pc' = [pc EXCEPT ![c] = "next"]
    /\ UNCHANGED <<state, lists, cur, locks, ipi, outg, thr, deferred, resched,
                   failed>>

\* thread_ipi_resched drains the resume ring under the queue lock; it resumes
\* the threads afterwards.
thread_ipi_resched(c) ==
    /\ pc[c] = "ipi"
    /\ qlock[c] = Free
    /\ todo' = [todo EXCEPT ![c] = ring[c]]
    /\ ring' = [ring EXCEPT ![c] = <<>>]
    /\ after' = [after EXCEPT ![c] = "ipi"]
    /\ pc' = [pc EXCEPT ![c] = "next"]
    /\ UNCHANGED <<state, lists, cur, locks, ipi, outg, thr, deferred, resched,
                   failed>>

\* thread_schedule takes the queue lock of its CPU.
SchedLock(c) ==
    /\ pc[c] = "sched"
    /\ qlock[c] = Free
    /\ qlock' = [qlock EXCEPT ![c] = c]
    /\ outg' = [outg EXCEPT ![c] = cur[c]]
    /\ pc' = [pc EXCEPT ![c] = "out"]
    /\ UNCHANGED <<state, lists, cur, tlock, kick, todo, after, thr, deferred,
                   resched, failed>>

\* The outgoing thread is still runnable; it may have used up its timeslice,
\* and then it gets the newest timestamp.
OutReady(c) ==
    LET t == cur[c] IN
    /\ pc[c] = "out" /\ state[t] = "RUNNING"
    /\ state' = [state EXCEPT ![t] = "READY_BUSY"]
    /\ \/ UNCHANGED order
       \/ t \in Threads /\ order' = Append(Remove(order, t), t)
    /\ pc' = [pc EXCEPT ![c] = "choose"]
    /\ UNCHANGED <<ready, sleep, cur, locks, kick, todo, after, outg, thr,
                   deferred, resched, failed>>
\* Mutant: the node is copied to the sleep list instead of moved.
OutSleep_Copy(c) ==
    LET t == cur[c] IN
    /\ pc[c] = "out" /\ state[t] = "SLEEPING_BUSY"
    /\ sleep' = [sleep EXCEPT ![c] = @ \cup {t}]
    /\ pc' = [pc EXCEPT ![c] = "choose"]
    /\ UNCHANGED <<state, ready, order, cur, locks, kick, todo, after, outg, thr,
                   deferred, resched, failed>>

\* The outgoing thread is going to sleep: to the sleep list, by wake time.
OutSleep(c) ==
    LET t == cur[c] IN
    /\ pc[c] = "out" /\ state[t] = "SLEEPING_BUSY"
    /\ ready' = [ready EXCEPT ![c] = @ \ {t}]
    /\ sleep' = [sleep EXCEPT ![c] = @ \cup {t}]
    /\ pc' = [pc EXCEPT ![c] = "choose"]
    /\ UNCHANGED <<state, order, cur, locks, kick, todo, after, outg, thr,
                   deferred, resched, failed>>

\* The outgoing thread is exiting: under its lock, and with the queue lock
\* dropped meanwhile, thread_signal_completion_locked marks it finished and
\* resumes every thread waiting for it.
OutExit(c) ==
    LET t == cur[c] IN
    /\ pc[c] = "out" /\ state[t] = "EXITING_BUSY"
    /\ tlock[t] = Free
    /\ ready' = [ready EXCEPT ![c] = @ \ {t}]
    /\ state' = [state EXCEPT ![t] = "FINISHED_BUSY"]
    /\ qlock' = [qlock EXCEPT ![c] = Free]
    /\ order' = Remove(order, t)
    /\ pc' = [pc EXCEPT ![c] = "exit"]
    /\ UNCHANGED <<sleep, cur, tlock, kick, todo, after, outg, thr,
                   deferred, resched, failed>>

\* done_cond.notify_all
ExitNotify(c) ==
    LET waiters == {w \in Threads : wq[w] = cur[c]} IN
    /\ pc[c] = "exit"
    /\ \A t \in Threads : at[t] # "release"
    /\ todo' = [todo EXCEPT ![c] = SetToSeq(waiters)]
    /\ wq' = [w \in All |-> IF w \in waiters THEN "none" ELSE wq[w]]
    /\ after' = [after EXCEPT ![c] = "exit"]
    /\ pc' = [pc EXCEPT ![c] = "next"]
    /\ UNCHANGED <<state, lists, cur, locks, kick, outg, at, due, fast, ret,
                   deferred, resched, failed>>
\* Mutant: a sleeper still on its CPU is made READY without the BUSY bit.
ServiceSleep_NotBusy(c, s) ==
    LET own == s = outg[c] IN
    /\ pc[c] = "choose" /\ s \in sleep[c] \cap due
    /\ tlock[s] = Free
    /\ IF state[s] = (IF own THEN "SLEEPING_BUSY" ELSE "SLEEPING")
       THEN /\ state' = [state EXCEPT ![s] = "READY"]
            /\ sleep' = [sleep EXCEPT ![c] = @ \ {s}]
            /\ ready' = [ready EXCEPT ![c] = @ \cup {s}]
            /\ wq' = [wq EXCEPT ![s] = IF @ = "timer" THEN "none" ELSE @]
            /\ due' = due \ {s}
            /\ UNCHANGED <<pc, failed>>
       ELSE /\ Assert_Failed(c, "sleeper")
            /\ UNCHANGED <<state, ready, sleep, wq, due>>
    /\ UNCHANGED <<order, cur, locks, kick, todo, after, outg, at, fast, ret,
                   deferred, resched>>

\* thread_choose_next, one iteration: a sleeper whose time has come is made
\* ready, under its lock.
ServiceSleep(c, s) ==
    LET own == s = outg[c] IN
    /\ pc[c] = "choose" /\ s \in sleep[c] \cap due
    /\ tlock[s] = Free
    /\ IF state[s] = (IF own THEN "SLEEPING_BUSY" ELSE "SLEEPING")
       THEN /\ state' = [state EXCEPT ![s] = IF own THEN "READY_BUSY" ELSE "READY"]
            /\ sleep' = [sleep EXCEPT ![c] = @ \ {s}]
            /\ ready' = [ready EXCEPT ![c] = @ \cup {s}]
            /\ wq' = [wq EXCEPT ![s] = IF @ = "timer" THEN "none" ELSE @]
            /\ due' = due \ {s}
            /\ UNCHANGED <<pc, failed>>
       ELSE /\ Assert_Failed(c, "sleeper")
            /\ UNCHANGED <<state, ready, sleep, wq, due>>
    /\ UNCHANGED <<order, cur, locks, kick, todo, after, outg, at, fast, ret,
                   deferred, resched>>

\* The first thread of the ready list: the oldest timeslice, and the idle
\* thread only if there is no other.
First(c, rl) ==
    IF rl \cap Threads = {} THEN c
    ELSE SelectSeq(order, LAMBDA t : t \in rl)[1]

\* thread_choose_next's choice and the rest of thread_schedule: the chosen
\* thread is running, and the queue lock is released.
Choose(c) ==
    LET t == First(c, ready[c]) IN
    /\ pc[c] = "choose" /\ sleep[c] \cap due = {}
    /\ IF state[t] = "READY" \/ (state[t] = "READY_BUSY" /\ t = outg[c])
       THEN /\ state' = [state EXCEPT ![t] = "RUNNING"]
            /\ cur' = [cur EXCEPT ![c] = t]
            /\ resched' = [resched EXCEPT ![c] = FALSE]
            /\ qlock' = [qlock EXCEPT ![c] = Free]
            /\ fast' = [fast EXCEPT ![t] = TRUE]
            /\ IF t = outg[c]
               THEN /\ pc' = [pc EXCEPT ![c] = "run"]
                    /\ outg' = [outg EXCEPT ![c] = c]
               ELSE /\ pc' = [pc EXCEPT ![c] = "clear"]
                    /\ UNCHANGED outg
            /\ UNCHANGED failed
       ELSE /\ Assert_Failed(c, "ready")
            /\ UNCHANGED <<state, cur, resched, qlock, fast, outg>>
    /\ UNCHANGED <<lists, tlock, kick, todo, after, at, wq, due, ret, deferred>>

\* thread_clear_busy, on the new stack.  A finished thread's stacks are freed
\* under its lock.
thread_clear_busy(c) ==
    LET t == outg[c] IN
    /\ pc[c] = "clear"
    /\ state[t] = "FINISHED_BUSY" => tlock[t] = Free
    /\ state' = [state EXCEPT ![t] = CASE @ = "SLEEPING_BUSY" -> "SLEEPING"
                                       [] @ = "READY_BUSY" -> "READY"
                                       [] @ = "FINISHED_BUSY" -> "FINISHED"
                                       [] OTHER -> @]
    /\ outg' = [outg EXCEPT ![c] = c]
    /\ pc' = [pc EXCEPT ![c] = "run"]
    /\ UNCHANGED <<lists, cur, locks, kick, todo, after, thr, deferred,
                   resched, failed>>

----------------------------------------------------------------------------
\* thread_resume, and what its callers do when they have no more to resume.

\* thread_resume takes the lock of the thread it resumes.
ResumeLock(c) ==
    /\ pc[c] = "next" /\ todo[c] # <<>>
    /\ tlock[Head(todo[c])] = Free
    /\ tlock' = [tlock EXCEPT ![Head(todo[c])] = c]
    /\ pc' = [pc EXCEPT ![c] = "wait"]
    /\ UNCHANGED <<state, lists, cur, qlock, kick, todo, after, outg, thr,
                   deferred, resched, failed>>
\* Mutant: a thread still getting off its CPU is taken as well.
ResumeWait_Early(c) ==
    LET t == Head(todo[c]) IN
    /\ pc[c] = "wait"
    /\ state[t] \in {"SLEEPING", "SLEEPING_BUSY"}
    /\ state' = [state EXCEPT ![t] = "SLEEPING_BUSY"]
    /\ pc' = [pc EXCEPT ![c] = "queue"]
    /\ UNCHANGED <<lists, cur, locks, kick, todo, after, outg, thr, deferred,
                   resched, failed>>

\* It waits, holding that lock, until the thread is off its CPU, and marks it
\* busy.
ResumeWait(c) ==
    LET t == Head(todo[c]) IN
    /\ pc[c] = "wait"
    /\ state[t] = "SLEEPING"
    /\ state' = [state EXCEPT ![t] = "SLEEPING_BUSY"]
    /\ pc' = [pc EXCEPT ![c] = "queue"]
    /\ UNCHANGED <<lists, cur, locks, kick, todo, after, outg, thr, deferred,
                   resched, failed>>

\* It takes the queue lock of the thread's home CPU.
ResumeQueue(c) ==
    LET h == Home(Head(todo[c])) IN
    /\ pc[c] = "queue"
    /\ qlock[h] = Free
    /\ qlock' = [qlock EXCEPT ![h] = c]
    /\ pc' = [pc EXCEPT ![c] = "wake"]
    /\ UNCHANGED <<state, lists, cur, tlock, kick, todo, after, outg, thr,
                   deferred, resched, failed>>

ResumeDone(c, t) ==
    /\ tlock' = [tlock EXCEPT ![t] = Free]
    /\ qlock' = [qlock EXCEPT ![Home(t)] = Free]
    /\ todo' = [todo EXCEPT ![c] = Tail(@)]
\* Mutant: the other CPU is not interrupted.
ResumeRemote_NoIpi(c) ==
    LET t == Head(todo[c])
        h == Home(t) IN
    /\ pc[c] = "wake" /\ h # c
    /\ ring' = [ring EXCEPT ![h] = Append(@, t)]
    /\ state' = [state EXCEPT ![t] = "SLEEPING"]
    /\ ResumeDone(c, t)
    /\ pc' = [pc EXCEPT ![c] = "next"]
    /\ UNCHANGED <<lists, ipi, cur, after, outg, thr, deferred, resched, failed>>

\* Another CPU's thread: its id goes into that CPU's resume ring, the thread
\* is SLEEPING again, and the CPU is interrupted.
ResumeRemote(c) ==
    LET t == Head(todo[c])
        h == Home(t) IN
    /\ pc[c] = "wake" /\ h # c
    /\ ring' = [ring EXCEPT ![h] = Append(@, t)]
    /\ ipi' = [ipi EXCEPT ![h] = TRUE]
    /\ state' = [state EXCEPT ![t] = "SLEEPING"]
    /\ ResumeDone(c, t)
    /\ pc' = [pc EXCEPT ![c] = "next"]
    /\ UNCHANGED <<lists, cur, after, outg, thr, deferred, resched, failed>>

\* This CPU's thread: its node moves from the sleep to the ready list, its
\* context, which must be a fast one, gets the return value, and it is READY.
\* If it now comes first a reschedule is requested, which the code asserts is
\* not pending already unless it runs in an interrupt handler.
ResumeLocal(c) ==
    LET t == Head(todo[c])
        rl == ready[c] \cup {t}
        first == First(c, rl) = t IN
    /\ pc[c] = "wake" /\ Home(t) = c
    /\ IF ~fast[t]
       THEN /\ Assert_Failed(c, "fast")
            /\ UNCHANGED <<state, ready, sleep, wq, due, ret, locks, todo, resched>>
       ELSE IF first /\ resched[c] /\ after[c] \in {"run", "exit"}
       THEN /\ Assert_Failed(c, "resched")
            /\ UNCHANGED <<state, ready, sleep, wq, due, ret, locks, todo, resched>>
       ELSE /\ state' = [state EXCEPT ![t] = "READY"]
            /\ sleep' = [sleep EXCEPT ![c] = @ \ {t}]
            /\ ready' = [ready EXCEPT ![c] = rl]
            /\ ret' = [ret EXCEPT ![t] = 1]
            /\ due' = due \ {t}
            /\ resched' = [resched EXCEPT ![c] = @ \/ first]
            /\ ResumeDone(c, t)
            /\ pc' = [pc EXCEPT ![c] = "next"]
            /\ UNCHANGED <<wq, failed>>
    /\ UNCHANGED <<order, cur, kick, after, outg, at, fast, deferred>>

\* A waking thread carries on.
ResumeReturn(c) ==
    /\ pc[c] = "next" /\ todo[c] = <<>> /\ after[c] = "run"
    /\ pc' = [pc EXCEPT ![c] = "run"]
    /\ UNCHANGED <<state, lists, cur, locks, kick, todo, after, outg, thr,
                   deferred, resched, failed>>

\* thread_finishing_irq: a device interrupt handler reschedules if requested.
thread_finishing_irq(c) ==
    /\ pc[c] = "next" /\ todo[c] = <<>> /\ after[c] = "irq"
    /\ IF resched[c]
       THEN ScheduleFromIrq(c) /\ resched' = [resched EXCEPT ![c] = FALSE]
       ELSE /\ pc' = [pc EXCEPT ![c] = "run"]
            /\ UNCHANGED <<fast, deferred, resched>>
    /\ after' = [after EXCEPT ![c] = "run"]
    /\ UNCHANGED <<state, lists, cur, locks, kick, todo, outg, at, wq, due,
                   ret, failed>>

\* thread_ipi_resched ends in thread_schedule; if that is put off, the
\* interrupt exit clears a requested reschedule by asking for one again.
IpiSchedule(c) ==
    /\ pc[c] = "next" /\ todo[c] = <<>> /\ after[c] = "ipi"
    /\ ScheduleFromIrq(c)
    /\ resched' = [resched EXCEPT ![c] = IF LocksHeld(c) THEN FALSE ELSE @]
    /\ after' = [after EXCEPT ![c] = "run"]
    /\ UNCHANGED <<state, lists, cur, locks, kick, todo, outg, at, wq, due,
                   ret, failed>>

\* The exiting thread's thread_schedule takes its queue lock again.
ExitRelock(c) ==
    /\ pc[c] = "next" /\ todo[c] = <<>> /\ after[c] = "exit"
    /\ qlock[c] = Free
    /\ qlock' = [qlock EXCEPT ![c] = c]
    /\ after' = [after EXCEPT ![c] = "run"]
    /\ pc' = [pc EXCEPT ![c] = "choose"]
    /\ UNCHANGED <<state, lists, cur, tlock, kick, todo, outg, thr, deferred,
                   resched, failed>>

\* What thread code may do, and what it must go on to do once begun.
Thread(c) ==
    \/ \E t \in Threads : thread_create(c, t) \/ thread_wait(c, t) \/ Wake(c, t)
    \/ spinlock_lock(c) \/ thread_sleep_until(c) \/ thread_cleanup(c)

Critical(c) ==
    \/ spinlock_unlock(c) \/ thread_sleep_release(c)
    \/ SleepUnlock(c) \/ SleepYield(c) \/ SleepReturn(c)

Interrupt(c) == Timer(c) \/ IpiEnter(c)

\* Kernel code with interrupts off: at each label one step.
Kernel(c) ==
    \/ thread_ipi_resched(c)
    \/ SchedLock(c) \/ OutReady(c) \/ OutSleep(c) \/ OutExit(c) \/ ExitNotify(c)
    \/ (\E t \in Threads : ServiceSleep(c, t))
    \/ Choose(c) \/ thread_clear_busy(c)
    \/ ResumeLock(c) \/ ResumeWait(c) \/ ResumeQueue(c)
    \/ ResumeRemote(c) \/ ResumeLocal(c) \/ ResumeReturn(c)
    \/ thread_finishing_irq(c) \/ IpiSchedule(c) \/ ExitRelock(c)

Next ==
    \/ \E c \in CPUs : Thread(c) \/ Critical(c) \/ Interrupt(c) \/ Kernel(c)
    \/ \E t \in Threads : Expire(t)

Spec == Init /\ [][Next]_vars

\* A CPU executes the code it is in; a spinlock released again and again is
\* got in the end; a pending interrupt is taken once interrupts are enabled.
Fairness ==
    \A c \in CPUs : /\ SF_vars(Kernel(c))
                    /\ WF_vars(Critical(c))
                    /\ SF_vars(IpiEnter(c))

FairSpec == Spec /\ Fairness

\* Time passes, and the timer is always armed: thread_schedule grants a thread
\* one second at most.
TimedFairSpec ==
    /\ FairSpec
    /\ \A c \in CPUs : SF_vars(Timer(c))
    /\ \A t \in Threads : WF_vars(Expire(t))

----------------------------------------------------------------------------
\* Properties.

\* Every variable stays in its type.
TypeOK ==
    /\ state \in [All -> States]
    /\ ready \in [CPUs -> SUBSET All] /\ sleep \in [CPUs -> SUBSET Threads]
    /\ cur \in [CPUs -> All] /\ outg \in [CPUs -> All]
    /\ tlock \in [All -> CPUs \cup {Free}] /\ qlock \in [CPUs -> CPUs \cup {Free}]
    /\ ring \in [CPUs -> Seq(Threads)] /\ todo \in [CPUs -> Seq(Threads)]
    /\ ipi \in [CPUs -> BOOLEAN] /\ deferred \in [CPUs -> BOOLEAN]
    /\ resched \in [CPUs -> BOOLEAN]
    /\ pc \in [CPUs -> Labels] /\ after \in [CPUs -> {"run", "irq", "ipi", "exit"}]
    /\ order \in Seq(Threads) /\ due \subseteq Threads
    /\ at \in [All -> {"body", "locked", "release", "yield", "slept"}]
    /\ wq \in [All -> Threads \cup {"none", "object", "timer"}]
    /\ fast \in [All -> BOOLEAN] /\ ret \in [All -> {0, 1}]
    /\ failed \in {"none", "sleeper", "ready", "fast", "resched"}

\* No thread is lost or listed twice: whenever a queue lock is free, a thread
\* that may run is in its home CPU's ready list, a sleeping one in the sleep
\* list, a finished one in neither, and the running one is cur_thread
\* (thread_schedule, thread_choose_next and thread_resume move one node).
ListsMatchStates ==
    \A t \in All :
        LET c == Home(t) IN
        /\ t \notin ready[c] \cap sleep[c]
        /\ qlock[c] = Free =>
            /\ state[t] \in {"READY", "READY_BUSY", "RUNNING", "EXITING_BUSY"} => t \in ready[c]
            /\ state[t] = "SLEEPING" => t \in sleep[c]
            /\ state[t] = "SLEEPING_BUSY" => t \in ready[c] \cup sleep[c]
            /\ state[t] \in {"FINISHED", "FINISHED_BUSY"} => t \notin ready[c] \cup sleep[c]
            /\ state[t] = "RUNNING" => cur[c] = t

\* A thread whose stack a CPU still stands on is running or marked BUSY, so
\* that no resume completes, no switch to it starts and no stack is freed
\* before thread_clear_busy.
StackInUseIsBusy ==
    \A c \in CPUs, t \in All :
        (cur[c] = t \/ (pc[c] = "clear" /\ outg[c] = t))
            => state[t] \in Busy \cup {"RUNNING"}

\* The assertions of thread_schedule, thread_choose_next and thread_resume
\* hold: a thread whose timeout is served sleeps, a chosen one is ready, and a
\* resumed one saved its context in thread_yield (given SleepIrqOff, see
\* ResumedContextIsFast).  The assertion of thread_request_reschedule_noirq is
\* not among them: three threads on one CPU can fail it (RescheduleNotMissed).
AssertsHold ==
    /\ failed \in {"none", "resched"}
    /\ \A c \in CPUs : pc[c] = "out" =>
            state[cur[c]] \in {"RUNNING", "SLEEPING_BUSY", "EXITING_BUSY"}

\* A context switch put off because a spinlock was held is not forgotten when
\* the lock is released: csw_deferred is set only while locks_held is nonzero.
DeferredWhileLocked == \A c \in CPUs : deferred[c] => LocksHeld(c)

\* A wake-up in flight exists exactly once: a sleeper that was taken off its
\* wait chain is in one resume ring or in one CPU's list of threads to resume
\* (and a thread that is not sleeping is in none).
Copies(t) ==
    Cardinality({c \in CPUs : t \in ToSet(ring[c])}) + Cardinality({c \in CPUs : t \in ToSet(todo[c])})
WakeNotLost ==
    \A t \in Threads :
        /\ Copies(t) =< 1
        /\ Copies(t) = 1 <=> (state[t] \in {"SLEEPING", "SLEEPING_BUSY"} /\ wq[t] = "none")

\* A thread taken off its wait chain becomes ready in the end, over whichever
\* CPU and however its own switch away from the CPU races the resume.
WakeArrives ==
    \A t \in Threads :
        (state[t] \in {"SLEEPING", "SLEEPING_BUSY"} /\ wq[t] = "none")
            ~> state[t] = "READY"

\* A wait without a timeout (UINT64_MAX) ends only by a resume, so
\* thread_sleep_release returns the resumer's value and not zero.
InfiniteWaitIsResumed ==
    \A c \in CPUs :
        LET t == cur[c] IN
        (pc[c] = "run" /\ at[t] = "slept" /\ t \notin Timed) => ret[t] = 1

\* The context of a resumed thread is one that thread_yield saved.
ResumedContextIsFast == failed # "fast"

\* A reschedule is not requested again before the last request was honoured.
RescheduleNotMissed == failed # "resched"

\* A sleep that has a timeout ends.
TimedSleepEnds ==
    \A t \in Timed : (state[t] \in {"SLEEPING", "SLEEPING_BUSY"})
                        ~> (state[t] \notin {"SLEEPING", "SLEEPING_BUSY"})
====
