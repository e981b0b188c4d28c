----------------------------- MODULE ResumeRing -----------------------------
(***************************************************************************)
(* The cross-CPU resume ring of one processor: cpu_info_t::resume_ring and *)
(* enqueue_resume (kernel/arch/x86_64/cpu/cpu_info.h), the remote half of  *)
(* thread_resume that fills it and thread_ipi_resched, which drains it     *)
(* into a local array (kernel/arch/x86_64/cpu/thread_impl.cc).             *)
(*                                                                         *)
(* Producers are the other CPUs.  Every entry carries a distinct thread,   *)
(* because a thread is resumed by one waker at a time; threads are the     *)
(* numbers 0 .. Sleepers - 1 and are woken in that order.                  *)
(***************************************************************************)
EXTENDS Naturals, FiniteSets, Sequences, SequencesExt

CONSTANTS Producers, \* CPUs that wake threads of this one
          Slots,     \* resume_ring_sz
          Buffer,    \* length of resumed_data
          Sleepers,  \* how many threads of this CPU get woken
          Pending    \* bound on the wake-ups under way at a time

VARIABLES slot,      \* resume_ring: the thread in each slot
          head,      \* resume_head
          tail,      \* resume_tail
          lock,      \* queue_lock: its holder, or Free
          ipi,       \* is INTR_IPI_RESCHED pending
          pc,        \* of each producer: "idle", "locked"
          next,      \* the next thread to be woken
          mine,      \* of each producer: the thread it wakes
          hpc,       \* of the handler: "idle", "lock", "drain", "resume"
          local,     \* resumed_data[0 .. resumed_count-1]
          resumed    \* threads handed to the local thread_resume, in order

vars == <<slot, head, tail, lock, ipi, pc, next, mine, hpc, local, resumed>>

Free == "free"
Handler == "handler"
NoThread == Sleepers

\* cpu_info_t::resume_next
resume_next(curr) == IF curr + 1 < Slots THEN curr + 1 ELSE 0

Init ==
    /\ slot = [i \in 0 .. Slots - 1 |-> NoThread]
    /\ head = 0 /\ tail = 0
    /\ lock = Free
    /\ ipi = FALSE
    /\ pc = [p \in Producers |-> "idle"]
    /\ next = 0
    /\ mine = [p \in Producers |-> NoThread]
    /\ hpc = "idle"
    /\ local = <<>>
    /\ resumed = <<>>

\* thread_resume on another CPU: the thread is marked busy and the queue lock
\* of its home CPU is taken.
ResumeQueue(p) ==
    /\ pc[p] = "idle" /\ next < Sleepers
    /\ next - Len(resumed) < Pending
    /\ lock = Free
    /\ lock' = p
    /\ mine' = [mine EXCEPT ![p] = next]
    /\ next' = next + 1
    /\ pc' = [pc EXCEPT ![p] = "locked"]
    /\ UNCHANGED <<slot, head, tail, ipi, hpc, local, resumed>>

\* Mutant: the home CPU is not interrupted.
enqueue_resume_NoIpi(p) ==
    /\ pc[p] = "locked"
    /\ resume_next(head) # tail
    /\ slot' = [slot EXCEPT ![head] = mine[p]]
    /\ head' = resume_next(head)
    /\ lock' = Free
    /\ mine' = [mine EXCEPT ![p] = NoThread]
    /\ pc' = [pc EXCEPT ![p] = "idle"]
    /\ UNCHANGED <<tail, ipi, next, hpc, local, resumed>>

\* enqueue_resume, tried until it succeeds with the queue lock held, then the
\* interrupt and the unlock.
enqueue_resume(p) ==
    /\ pc[p] = "locked"
    /\ resume_next(head) # tail
    /\ slot' = [slot EXCEPT ![head] = mine[p]]
    /\ head' = resume_next(head)
    /\ ipi' = TRUE
    /\ lock' = Free
    /\ mine' = [mine EXCEPT ![p] = NoThread]
    /\ pc' = [pc EXCEPT ![p] = "idle"]
    /\ UNCHANGED <<tail, next, hpc, local, resumed>>

\* The interrupt is taken.
IpiEnter ==
    /\ ipi /\ hpc = "idle"
    /\ ipi' = FALSE
    /\ hpc' = "lock"
    /\ UNCHANGED <<slot, head, tail, lock, pc, next, mine, local, resumed>>

\* thread_ipi_resched takes the queue lock ...
IpiLock ==
    /\ hpc = "lock"
    /\ lock = Free
    /\ lock' = Handler
    /\ hpc' = "drain"
    /\ UNCHANGED <<slot, head, tail, ipi, pc, next, mine, local, resumed>>

\* Mutant: the ring is read from the wrong end.
IpiDrain_FromHead ==
    /\ hpc = "drain"
    /\ IF tail # head
       THEN /\ local' = Append(local, slot[IF head = 0 THEN Slots - 1 ELSE head - 1])
            /\ head' = IF head = 0 THEN Slots - 1 ELSE head - 1
            /\ UNCHANGED <<lock, hpc>>
       ELSE /\ lock' = Free
            /\ hpc' = "resume"
            /\ UNCHANGED <<local, head>>
    /\ UNCHANGED <<slot, tail, ipi, pc, next, mine, resumed>>


\* ... copies the ring to its array, entry by entry, and unlocks ...
IpiDrain ==
    /\ hpc = "drain"
    /\ IF tail # head
       THEN /\ local' = Append(local, slot[tail])
            /\ tail' = resume_next(tail)
            /\ UNCHANGED <<lock, hpc>>
       ELSE /\ lock' = Free
            /\ hpc' = "resume"
            /\ UNCHANGED <<local, tail>>
    /\ UNCHANGED <<slot, head, ipi, pc, next, mine, resumed>>

\* ... and resumes the threads one after the other.
IpiResume ==
    /\ hpc = "resume"
    /\ IF local # <<>>
       THEN /\ resumed' = Append(resumed, Head(local))
            /\ local' = Tail(local)
            /\ UNCHANGED hpc
       ELSE /\ hpc' = "idle"
            /\ UNCHANGED <<local, resumed>>
    /\ UNCHANGED <<slot, head, tail, lock, ipi, pc, next, mine>>

\* Every thread has been woken and resumed.
Done ==
    /\ Len(resumed) = Sleepers /\ hpc = "idle" /\ ~ipi
    /\ UNCHANGED vars

HandlerStep == IpiLock \/ IpiDrain \/ IpiResume

Next ==
    \/ \E p \in Producers : ResumeQueue(p) \/ enqueue_resume(p)
    \/ IpiEnter \/ HandlerStep \/ Done

Spec == Init /\ [][Next]_vars

\* Code that can run goes on running; the lock is got in the end; a pending
\* interrupt is taken.
FairSpec ==
    /\ Spec
    /\ \A p \in Producers : WF_vars(enqueue_resume(p))
    /\ SF_vars(IpiLock) /\ WF_vars(IpiDrain \/ IpiResume) /\ WF_vars(IpiEnter)

----------------------------------------------------------------------------
\* The threads in the ring, oldest first.
Entries ==
    LET n == (head + Slots - tail) % Slots
    IN  [i \in 1 .. n |-> slot[(tail + i - 1) % Slots]]

\* Every variable stays in its type.
TypeOK ==
    /\ slot \in [0 .. Slots - 1 -> 0 .. Sleepers]
    /\ head \in 0 .. Slots - 1 /\ tail \in 0 .. Slots - 1
    /\ lock \in Producers \cup {Free, Handler}
    /\ ipi \in BOOLEAN
    /\ pc \in [Producers -> {"idle", "locked"}]
    /\ next \in 0 .. Sleepers
    /\ mine \in [Producers -> 0 .. Sleepers]
    /\ hpc \in {"idle", "lock", "drain", "resume"}
    /\ local \in Seq(0 .. Sleepers) /\ resumed \in Seq(0 .. Sleepers)

\* Each wake-up is delivered exactly once and in the order the ring was
\* entered: what was resumed, then what the handler still holds, then the
\* ring, then the producer holding the lock, are all the threads woken so far
\* (enqueue_resume and the drain loop of thread_ipi_resched).
DeliveredOnceInOrder ==
    LET held == IF lock \in Producers THEN <<mine[lock]>> ELSE <<>>
    IN  resumed \o local \o Entries \o held = [i \in 1 .. next |-> i - 1]

\* A ring that is not empty has an interrupt or a handler on its way, so no
\* entry waits for the next wake-up to be noticed.
NonEmptyIsKicked == (head # tail) => (ipi \/ hpc \in {"lock", "drain"})

\* resumed_data has room for every entry a drain can find.
DrainFitsBuffer == Len(local) =< Buffer

====
