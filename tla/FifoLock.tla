------------------------------ MODULE FifoLock ------------------------------
(***************************************************************************)
(* What a fair lock promises: one thread inside at a time, in order of     *)
(* arrival.  mcslock and ticketlock of kernel/lib/spinlock.cc and the      *)
(* mutex of kernel/lib/threadsync.cc are shown to implement it.            *)
(***************************************************************************)
EXTENDS Naturals, Sequences

CONSTANT Threads

VARIABLES queue,   \* the threads that asked for the lock, oldest first
          inside   \* the thread that has it, as a set of at most one

vars == <<queue, inside>>

Queued(t) == \E i \in 1 .. Len(queue) : queue[i] = t

Init == queue = << >> /\ inside = {}

Arrive(t) == /\ ~Queued(t)
             /\ queue' = Append(queue, t)
             /\ inside' = inside

\* The lock is free: arriving and entering can be one step.
EnterFree(t) == /\ queue = << >>
                /\ queue' = <<t>>
                /\ inside' = {t}

Enter(t) == /\ queue # << >> /\ Head(queue) = t
            /\ inside = {}
            /\ inside' = {t}
            /\ queue' = queue

Leave(t) == /\ inside = {t}
            /\ queue' = Tail(queue)
            /\ inside' = {}

Next == \E t \in Threads : Arrive(t) \/ EnterFree(t) \/ Enter(t) \/ Leave(t)

Spec == Init /\ [][Next]_vars
============================================================================
