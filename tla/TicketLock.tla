----------------------------- MODULE TicketLock -----------------------------
(***************************************************************************)
(* ticketlock_t of kernel/lib/spinlock.cc.  Tickets are Width-bit unsigned *)
(* numbers that advance by 2 and wrap; bit 0 of now_serving carries the    *)
(* interrupt flag of the owner.  One action is one access to the lock,     *)
(* except that the owner's own read-modify-write of now_serving is one     *)
(* step: nobody else writes it meanwhile (OnlyOwnerServes).                *)
(***************************************************************************)
EXTENDS Integers, Sequences, FiniteSets

CONSTANTS Threads,
          Width   \* bits of ticketlock_value_t (32 in the code)

Mod == 2 ^ Width

\* Every thread can hold a ticket without two tickets being equal.
ASSUME WidthAssumption == Width \in Nat /\ IsFiniteSet(Threads)
                          /\ 2 * Cardinality(Threads) < Mod

VARIABLES now_serving, next_ticket,   \* the lock
          my_ticket,   \* local of the lock functions; old_next, and then the
                       \* equal serving, of ticketlock_try_lock
          saved_lock,  \* result of unlock_save, parameter of lock_restore
          locks_held,
          pc

vars == <<now_serving, next_ticket, my_ticket, saved_lock, locks_held, pc>>

Even(v) == v - (v % 2)              \* v & -2
Advance(v) == (v + 2) % Mod       \* unsigned v + 2

Goto(t, label) == pc' = [pc EXCEPT ![t] = label]
SetTicket(t, v) == my_ticket' = [my_ticket EXCEPT ![t] = v]
SetSaved(t, v) == saved_lock' = [saved_lock EXCEPT ![t] = v]
Return(t) == Goto(t, "idle") /\ SetTicket(t, 0)   \* the locals are gone
cs_enter(t) == locks_held' = [locks_held EXCEPT ![t] = @ + 1]
cs_leave(t) == locks_held' = [locks_held EXCEPT ![t] = @ - 1]

\* A lock that has been in use: any even ticket is next.
Init == /\ now_serving \in {v \in 0 .. Mod - 1 : v % 2 = 0}
        /\ next_ticket = now_serving
        /\ my_ticket = [t \in Threads |-> 0]
        /\ saved_lock = [t \in Threads |-> 0]
        /\ locks_held = [t \in Threads |-> 0]
        /\ pc = [t \in Threads |-> "idle"]

\* The bound of the model: a try_lock in progress is not overtaken by Mod / 2
\* (in the code 2^31) other acquisitions.
NoFullWrap(n) == \A u \in Threads : pc[u] \in {"try_serving", "try_cas"} => n # my_ticket[u]

\* atomic_xadd(&lock->next_ticket, 2)
TakeTicket(t) ==
    /\ NoFullWrap(Advance(next_ticket))
    /\ SetTicket(t, next_ticket)
    /\ next_ticket' = Advance(next_ticket)
    /\ Goto(t, "check")
    /\ UNCHANGED now_serving

ticketlock_lock(t) ==
    /\ pc[t] = "idle"
    /\ cs_enter(t)
    /\ TakeTicket(t)
    /\ SetSaved(t, 0)

\* Takes the lock back after ticketlock_unlock_save; no cs_enter here.
ticketlock_lock_restore(t) ==
    /\ pc[t] = "dropped"
    /\ TakeTicket(t)
    /\ \E flag \in {0, 1} : SetSaved(t, flag)
    /\ UNCHANGED locks_held

\* Mutant: tickets are compared by order, not equality.
CheckServing_Order(t) ==
    /\ pc[t] = "check" /\ my_ticket[t] >= Even(now_serving)
    /\ Goto(t, "cs")
    /\ UNCHANGED <<now_serving, next_ticket, my_ticket, saved_lock, locks_held>>

\* The loop of both: test now_serving without bit 0, else wait for the exact value.
CheckServing(t) ==
    /\ pc[t] = "check"
    /\ \/ /\ my_ticket[t] = Even(now_serving)
          /\ now_serving' = Even(now_serving) + saved_lock[t]
          /\ Goto(t, "cs")
       \/ /\ my_ticket[t] # Even(now_serving)
          /\ Goto(t, "spin")
          /\ UNCHANGED now_serving
    /\ UNCHANGED <<next_ticket, my_ticket, saved_lock, locks_held>>

cpu_wait_value(t) ==
    /\ pc[t] = "spin"
    /\ now_serving = my_ticket[t]
    /\ Goto(t, "check")
    /\ UNCHANGED <<now_serving, next_ticket, my_ticket, saved_lock, locks_held>>

ticketlock_try_lock(t) ==
    /\ pc[t] = "idle"
    /\ cs_enter(t)
    /\ SetTicket(t, next_ticket)
    /\ Goto(t, "try_serving")
    /\ UNCHANGED <<now_serving, next_ticket, saved_lock>>

TryServing(t) ==
    /\ pc[t] = "try_serving"
    /\ \/ now_serving = my_ticket[t] /\ Goto(t, "try_cas") /\ UNCHANGED <<my_ticket, locks_held>>
       \/ now_serving # my_ticket[t] /\ Return(t) /\ cs_leave(t)
    /\ UNCHANGED <<now_serving, next_ticket, saved_lock>>

\* Mutant: the next ticket is taken without comparing it to the one read before.
TryCas_NoCompare(t) ==
    /\ pc[t] = "try_cas"
    /\ next_ticket' = Advance(next_ticket) /\ Goto(t, "try_store")
    /\ UNCHANGED <<now_serving, my_ticket, saved_lock, locks_held>>

TryCas(t) ==
    /\ pc[t] = "try_cas"
    /\ \/ /\ next_ticket = my_ticket[t]
          /\ next_ticket' = Even(Advance(next_ticket))
          /\ NoFullWrap(Advance(next_ticket))
          /\ Goto(t, "try_store")
          /\ UNCHANGED <<my_ticket, locks_held>>
       \/ /\ next_ticket # my_ticket[t]
          /\ Return(t)
          /\ cs_leave(t)
          /\ UNCHANGED next_ticket
    /\ UNCHANGED <<now_serving, saved_lock>>

TryStore(t) ==
    /\ pc[t] = "try_store"
    /\ now_serving' = Even(my_ticket[t])
    /\ Goto(t, "cs")
    /\ UNCHANGED <<next_ticket, my_ticket, saved_lock, locks_held>>

\* Mutant: the owner's interrupt flag is left in bit 0.
ServeNext_KeepBit0 == now_serving' = Advance(now_serving)

ServeNext == now_serving' = Even(Advance(now_serving))

ticketlock_unlock(t) ==
    /\ pc[t] = "cs"
    /\ ServeNext
    /\ cs_leave(t)
    /\ Return(t)
    /\ SetSaved(t, 0)
    /\ UNCHANGED next_ticket

\* Gives the lock up for ticketlock_lock_restore and returns the flag in bit 0.
ticketlock_unlock_save(t) ==
    /\ pc[t] = "cs"
    /\ SetSaved(t, now_serving % 2)
    /\ ServeNext
    /\ Goto(t, "dropped")
    /\ SetTicket(t, 0)
    /\ UNCHANGED <<next_ticket, locks_held>>

Next == \E t \in Threads :
    \/ ticketlock_lock(t) \/ ticketlock_lock_restore(t) \/ CheckServing(t) \/ cpu_wait_value(t)

    \/ ticketlock_try_lock(t) \/ TryServing(t) \/ TryCas(t) \/ TryStore(t)
    \/ ticketlock_unlock(t) \/ ticketlock_unlock_save(t)

Spec == Init /\ [][Next]_vars

\* Threads inside the lock functions or holding the lock go on.
Goes(t) == \/ CheckServing(t) \/ cpu_wait_value(t)
           \/ TryServing(t) \/ TryCas(t) \/ TryStore(t)
           \/ ticketlock_unlock(t) \/ ticketlock_unlock_save(t)
FairSpec == Spec /\ \A t \in Threads : WF_vars(Goes(t))
----------------------------------------------------------------------------
PCs == {"idle", "check", "spin", "cs", "dropped", "try_serving", "try_cas", "try_store"}
Tickets == 0 .. Mod - 1

Ticketed == {t \in Threads : pc[t] \in {"check", "spin", "cs", "try_store"}}
Inside == {t \in Threads : pc[t] \in {"cs", "try_store"}}

TypeOK == /\ now_serving \in Tickets /\ next_ticket \in Tickets
          /\ my_ticket \in [Threads -> Tickets]
          /\ saved_lock \in [Threads -> {0, 1}]
          /\ locks_held \in [Threads -> 0 .. 1]
          /\ pc \in [Threads -> PCs]

\* While a thread is inside, now_serving is its ticket: the owner's stores to
\* now_serving (lock, lock_restore, try_lock and the unlocks) never overwrite
\* the turn of another thread, although try_lock stores a value read earlier.
OnlyOwnerServes ==
    /\ \A t \in Inside : Even(now_serving) = my_ticket[t]
    /\ \A t \in Threads : pc[t] = "try_store" => my_ticket[t] = now_serving

\* Every ticket is served, across the wrap-around of the counter.
Starvation == \A t \in Threads : t \in Ticketed ~> t \in Inside

----------------------------------------------------------------------------
\* Threads by their distance from the ticket being served.
Turn(t) == ((my_ticket[t] - Even(now_serving)) % Mod) \div 2
Queue == [i \in 1 .. Cardinality(Ticketed) |->
              CHOOSE t \in Ticketed : Turn(t) = i - 1]

Fifo == INSTANCE FifoLock WITH queue <- Queue, inside <- Inside

\* Threads enter in the order of their tickets, across the wrap-around.
RefinesFifo == Fifo!Spec
============================================================================
