------------------------------ MODULE Process ------------------------------
(***************************************************************************)
(* The life of a user process, kernel/lib/process.cc: spawn creates it and *)
(* waits until it has started, its main thread loads the program, enters   *)
(* user mode and exits, and any number of threads wait for the exit.       *)
(*                                                                         *)
(* state is guarded by two locks: run, exit and wait_for_exit hold the     *)
(* global processes_lock, spawn holds the process's own process_lock.  All *)
(* of them use the same condition variable.                                *)
(***************************************************************************)
EXTENDS FiniteSets

CONSTANT Waiters   \* threads that call wait_for_exit; "parent" is one if it is in the set

VARIABLES state,          \* state_t of the process
          processes_lock, process_lock,  \* who has each, or "none"
          asleep,         \* the threads asleep on cond
          threads,        \* the kernel threads of the process
          pc

vars == <<state, processes_lock, process_lock, asleep, threads, pc>>
locks == <<processes_lock, process_lock>>

Threads == Waiters \cup {"parent", "main"}

Init ==
    /\ state = "unused" /\ processes_lock = "none" /\ process_lock = "none"
    /\ asleep = {} /\ threads = {}
    /\ pc = [t \in Threads |-> CASE t = "parent" -> "add" [] t = "main" -> "absent"
                                 [] OTHER -> "wait_for_exit"]

Goto(t, place) == pc' = [pc EXCEPT ![t] = place]

\* add, and spawn up to its lock.
add ==
    /\ pc["parent"] = "add" /\ processes_lock = "none"
    /\ state' = "starting"
    /\ Goto("parent", "spawn")
    /\ UNCHANGED <<locks, asleep, threads>>

\* spawn: the new thread may run at once.  thread_create may fail.
SpawnCreate ==
    /\ pc["parent"] = "spawn" /\ process_lock = "none"
    /\ \/ /\ process_lock' = "parent" /\ threads' = {"main"}
          /\ pc' = [pc EXCEPT !["parent"] = "started?", !["main"] = "run"]
       \/ Goto("parent", "returned") /\ UNCHANGED <<process_lock, threads>>
    /\ UNCHANGED <<state, processes_lock, asleep>>

SpawnReturn == IF "parent" \in Waiters THEN "wait_for_exit" ELSE "returned"

\* while (state == starting): a read without processes_lock.
SpawnCheck ==
    /\ pc["parent"] = "started?" /\ process_lock = "parent"
    /\ IF state = "starting"
       THEN Goto("parent", "sleep") /\ UNCHANGED process_lock
       ELSE Goto("parent", SpawnReturn) /\ process_lock' = "none"
    /\ UNCHANGED <<state, processes_lock, asleep, threads>>

\* cond.wait(lock), and the lock again once it was notified.
SpawnSleep ==
    /\ pc["parent"] = "sleep"
    /\ asleep' = asleep \cup {"parent"} /\ process_lock' = "none"
    /\ Goto("parent", "woken")
    /\ UNCHANGED <<state, processes_lock, threads>>

SpawnRelock ==
    /\ pc["parent"] = "woken" /\ "parent" \notin asleep /\ process_lock = "none"
    /\ process_lock' = "parent" /\ Goto("parent", "started?")
    /\ UNCHANGED <<state, processes_lock, asleep, threads>>

\* run: an error before the program starts leaves state alone.
run ==
    /\ pc["main"] = "run"
    /\ \/ Goto("main", "thread_exit") /\ UNCHANGED state
       \/ processes_lock = "none" /\ state' = "running" /\ Goto("main", "running")
    /\ UNCHANGED <<locks, asleep, threads>>

\* cond.notify_all after the unlock, in run and in exit.
Notify(from, to) ==
    /\ pc["main"] = from
    /\ asleep' = {} /\ Goto("main", to)
    /\ UNCHANGED <<state, locks, threads>>

\* exit, called by the program; the longjmp returns to enter_user.
exit ==
    /\ pc["main"] = "user" /\ processes_lock = "none"
    /\ state' = "exited" /\ Goto("main", "exited")
    /\ UNCHANGED <<locks, asleep, threads>>

\* del_thread, from enter_user and again from thread_exit.
del_thread ==
    /\ pc["main"] \in {"enter_user", "thread_exit"} /\ process_lock = "none"
    /\ threads' = threads \ {"main"}
    /\ Goto("main", IF pc["main"] = "enter_user" THEN "thread_exit" ELSE "gone")
    /\ UNCHANGED <<state, locks, asleep>>

\* wait_for_exit, up to the test of its loop and from there.  A pid that does not exist yet
\* is an error return.
WaitLock(t) ==
    /\ pc[t] = "wait_for_exit" /\ t \notin asleep /\ processes_lock = "none"
    /\ IF state = "unused" THEN Goto(t, "returned") /\ UNCHANGED processes_lock
                           ELSE Goto(t, "exited?") /\ processes_lock' = t
    /\ UNCHANGED <<state, process_lock, asleep, threads>>

\* Mutant: the lock is given up before the thread is on the condition variable.
WaitCheck_Unlocked(t) ==
    \/ /\ pc[t] = "exited?" /\ processes_lock = t
       /\ Goto(t, IF state = "exited" THEN "returned" ELSE "sleep")
       /\ processes_lock' = "none"
       /\ UNCHANGED <<state, process_lock, asleep, threads>>
    \/ /\ pc[t] = "sleep" /\ t # "parent"
       /\ Goto(t, "wait_for_exit") /\ asleep' = asleep \cup {t}
       /\ UNCHANGED <<state, locks, threads>>

WaitCheck(t) ==
    /\ pc[t] = "exited?" /\ processes_lock = t
    /\ processes_lock' = "none"
    /\ IF state = "exited" THEN Goto(t, "returned") /\ UNCHANGED asleep
                           ELSE Goto(t, "wait_for_exit") /\ asleep' = asleep \cup {t}
    /\ UNCHANGED <<state, process_lock, threads>>

Next ==
    \/ add \/ SpawnCreate \/ SpawnCheck \/ SpawnSleep \/ SpawnRelock
    \/ run \/ Notify("running", "user") \/ exit \/ Notify("exited", "enter_user")
    \/ del_thread
    \/ \E t \in Waiters : WaitLock(t) \/ WaitCheck(t)

Spec == Init /\ [][Next]_vars

-----------------------------------------------------------------------------
\* A thread asleep in wait_for_exit after the exit is about to be woken.
ExitIsSeen ==
    state = "exited" /\ pc["main"] # "exited" =>
        ~\E t \in Waiters : t \in asleep /\ pc[t] = "wait_for_exit"

\* spawn, asleep after the process has started, is about to be woken ("Wait for
\* it to finish starting").  The code does not keep this: state changes under
\* the other lock between spawn's test and its wait.
StartIsSeen ==
    state = "running" /\ pc["main"] # "running" => ~("parent" \in asleep /\ pc["parent"] = "woken")

\* An error in run wakes nobody: spawn waits for ever.
FailureIsSeen ==
    pc["main"] = "gone" => ~("parent" \in asleep)
=============================================================================
