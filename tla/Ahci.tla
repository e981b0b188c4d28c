------------------------------ MODULE Ahci ------------------------------
(***************************************************************************)
(* One port of kernel/device/ahci/ahci.cc: threads acquire command slots   *)
(* and issue, the device completes commands in any order or fails one, and *)
(* the interrupt handler completes slots and, after a failure with native  *)
(* command queueing on, resets the port, turns queueing off and issues     *)
(* every outstanding command again.                                        *)
(*                                                                         *)
(* The port's lock makes a thread's step one action.  The handler keeps    *)
(* it from the read of the status registers to the acknowledgement; the    *)
(* device may act in between, so these are two actions.                    *)
(***************************************************************************)
EXTENDS Iocp, Sequences, FiniteSets

CONSTANTS Requests,   \* reads and writes; one thread issues each
          Flushes,    \* flush requests; one thread issues each
          Chunks,     \* Chunks[r]: the commands of request r
          Slots,      \* slots of the port (32 in the code)
          Depth,      \* the drive's queue depth: slots from here on are unsupported
          Bad         \* requests of which the device fails every command

VARIABLES pc, left,               \* per request: its thread, commands to issue
          io,                     \* the completion objects
          cmd_issued, slot_requests, use_ncq, non_ncq_pending,
          bypass_offline,
          slotalloc_avail,        \* threads that wait for a slot, in order
          ci, sact,               \* the port's registers
          is, online,
          handler, seen,          \* the handler, and what it read from is
          callbacks,              \* <<request>> to complete after the lock
          raced,                  \* a status bit was raised between read and acknowledgement
          fault                   \* a deviation that stops the port, or "none"

port == <<cmd_issued, slot_requests, use_ncq, non_ncq_pending, bypass_offline>>
regs == <<ci, sact, is, online>>
irq == <<handler, seen, callbacks>>
vars == <<pc, left, io, port, slotalloc_avail, regs, irq, raced, fault>>

AllSlots == 0 .. Slots - 1
Lowest(S) == CHOOSE s \in S : \A t \in S : s <= t
Users == Requests \cup Flushes

\* configure_ncq: the usable slots; the others are marked as issued for good.
slot_mask == 0 .. Depth - 1

Init ==
    /\ pc = [r \in Users |-> IF r \in Requests THEN "issue" ELSE "flush"]
    /\ left = [r \in Requests |-> Chunks[r]]
    /\ io = [r \in Users |-> NewIocp]
    /\ cmd_issued = AllSlots \ slot_mask
    /\ slot_requests = [s \in AllSlots |-> "none"]
    /\ use_ncq = TRUE /\ non_ncq_pending = FALSE
    /\ bypass_offline = FALSE /\ online \in BOOLEAN
    /\ slotalloc_avail = <<>>
    /\ ci = {} /\ sact = {} /\ is = {}
    /\ handler = "idle" /\ seen = {} /\ callbacks = <<>>
    /\ raced = FALSE /\ fault = "none"

\* The handler holds the lock from its first action to the acknowledgement.
LockFree == handler # "ack"
Goto(r, to) == pc' = [pc EXCEPT ![r] = to]

\* io_locked on a port without a link: the callback is told at once, and no
\* command is to be expected.
Offline(r) ==
    /\ ~bypass_offline /\ ~online
    /\ io' = [io EXCEPT ![r] = invoke(set_result(@, "ENODEV"))]
    /\ left' = [left EXCEPT ![r] = 0]
    /\ Goto(r, "expect")
    /\ UNCHANGED <<port, slotalloc_avail, ci, sact>>

\* slot_acquire waits for a non-NCQ command, slot_wait for a slot.
WaitNonNcq(r) ==
    /\ use_ncq /\ non_ncq_pending
    /\ Goto(r, "non_ncq_done_cond")
    /\ UNCHANGED <<left, io, cmd_issued, slot_requests, use_ncq, non_ncq_pending,
                   slotalloc_avail, ci, sact>>

WaitSlot(r) ==
    /\ ~(use_ncq /\ non_ncq_pending) /\ cmd_issued = AllSlots
    /\ Goto(r, "asleep")
    /\ slotalloc_avail' = Append(slotalloc_avail, r)
    /\ UNCHANGED <<left, io, cmd_issued, slot_requests, use_ncq, non_ncq_pending, ci, sact>>

\* Mutant: slots are handed out by the number in use.
slot_acquire_Count == Cardinality(cmd_issued)

\* slot_acquire: the lowest slot that is not issued.
slot_acquire == Lowest(AllSlots \ cmd_issued)

\* cmd_issue: one command goes to the port.
cmd_issue(r) ==
    /\ ~(use_ncq /\ non_ncq_pending) /\ cmd_issued # AllSlots
    /\ LET slot == slot_acquire
       IN  /\ cmd_issued' = cmd_issued \cup {slot}
           /\ slot_requests' = [slot_requests EXCEPT ![slot] = r]
           /\ ci' = ci \cup {slot}
           /\ sact' = IF use_ncq THEN sact \cup {slot} ELSE sact
    /\ left' = [left EXCEPT ![r] = @ - 1]
    /\ Goto(r, IF left[r] = 1 THEN "expect" ELSE "issue")
    /\ UNCHANGED <<io, use_ncq, non_ncq_pending, slotalloc_avail>>

io_locked(r) ==
    /\ pc[r] = "issue" /\ LockFree
    /\ \/ Offline(r)
       \/ /\ bypass_offline \/ online
          /\ bypass_offline' = TRUE
          /\ WaitNonNcq(r) \/ WaitSlot(r) \/ cmd_issue(r)
    /\ UNCHANGED <<is, online, irq, raced, fault>>

\* ahci_dev_t::io announces how many completions the object is to wait for.
AnnounceExpect(r) ==
    /\ pc[r] = "expect"
    /\ io' = [io EXCEPT ![r] = set_expect(@, IF io[r].result = "ENODEV" THEN 0 ELSE Chunks[r])]
    /\ Goto(r, "wait")
    /\ UNCHANGED <<left, port, slotalloc_avail, regs, irq, raced, fault>>

\* port_flush waits in port_stall_ncq until the usable slots are free, and
\* calls io, which locks the port's lock a second time.
port_flush(r) ==
    /\ pc[r] = "flush" /\ LockFree
    /\ IF use_ncq
       THEN /\ non_ncq_pending' = TRUE
            /\ IF cmd_issued \cap slot_mask # {}
               THEN Goto(r, "idle_cond") /\ UNCHANGED <<use_ncq, fault>>
               ELSE use_ncq' = FALSE /\ fault' = "self_deadlock" /\ UNCHANGED pc
       ELSE fault' = "self_deadlock" /\ UNCHANGED <<pc, use_ncq, non_ncq_pending>>
    /\ UNCHANGED <<left, io, cmd_issued, slot_requests, bypass_offline, slotalloc_avail,
                   regs, irq, raced>>

\* The device executes a command.  With queueing off it executes one after
\* the other and stops at a failure until that is acknowledged; with queueing
\* on it stops until the reset.
Execute(s) ==
    /\ "TFES" \notin is
    /\ s \in IF use_ncq THEN sact ELSE ci
    /\ LET r == slot_requests[s]
       IN  /\ ci' = IF use_ncq /\ r \in Bad THEN ci ELSE ci \ {s}
           /\ sact' = IF r \in Bad THEN sact ELSE sact \ {s}
           /\ LET bit == IF r \in Bad THEN "TFES" ELSE "done"
              IN  is' = is \cup {bit} /\ raced' = (raced \/ bit \in seen)
    /\ UNCHANGED <<pc, left, io, port, slotalloc_avail, online, irq, fault>>

\* The slots of a set, lowest first.
InOrder(S) ==
    LET f[k \in 1 .. Cardinality(S)] == Lowest(S \ {f[j] : j \in 1 .. k - 1})
    IN  f

\* The requests of the slots of S get the result, in the order of the slots.
Results(S, res) ==
    [r \in Users |->
        LET n == Cardinality({s \in S : slot_requests[s] = r})
        IN  IF n = 0 THEN io[r] ELSE [set_result(io[r], res) EXCEPT !.result_count = io[r].result_count + n]]

\* slot_release for every slot of S: each wakes one thread that waits for a
\* slot, and the one that frees the last wakes a flush.
slot_release(S) ==
    LET n == IF Cardinality(S) < Len(slotalloc_avail) THEN Cardinality(S) ELSE Len(slotalloc_avail)
        woken == {slotalloc_avail[k] : k \in 1 .. n}
        idle == S # {} /\ non_ncq_pending /\ (cmd_issued \ S) \cap slot_mask = {}
        first == CHOOSE r \in Flushes : pc[r] = "idle_cond"
    IN  /\ slotalloc_avail' = SubSeq(slotalloc_avail, n + 1, Len(slotalloc_avail))
        /\ pc' = [r \in Users |->
                    IF r \in woken THEN "issue"
                    ELSE IF idle /\ pc[r] = "idle_cond" /\ r = first THEN "flush" ELSE pc[r]]

\* The requests in the slots of a set get a slot each again, from 0 upwards.
\* A slot keeps the whole request, so one of several commands is split again.
Reissued(S) ==
    LET order == InOrder(S)
    IN  [s \in AllSlots |-> IF s + 1 \in DOMAIN order THEN slot_requests[order[s + 1]]
                            ELSE slot_requests[s]]

\* The slots in S are complete; the callbacks are kept for later.
Collect(S, res) ==
    /\ io' = Results(S, res)
    /\ callbacks' = [k \in 1 .. Cardinality(S) |-> slot_requests[InOrder(S)[k]]]
    /\ slot_release(S)

\* The slots of which the commands have completed since they were issued.
Done == slot_mask \cap cmd_issued \cap (AllSlots \ (IF use_ncq THEN sact ELSE ci))

\* Mutant: the task file is looked at only with queueing on.
Outcome_NcqOnly == "OK"

\* With queueing off a failure goes to all slots that complete with it.
Outcome == IF ~use_ncq /\ "TFES" \in is THEN "EIO" ELSE "OK"

\* With queueing on and no failure, or with queueing off.
CompleteSlots ==
    /\ use_ncq => "TFES" \notin is
    /\ Collect(Done, Outcome)
    /\ cmd_issued' = cmd_issued \ Done
    /\ slot_requests' = [s \in AllSlots |-> IF s \in Done THEN "none" ELSE slot_requests[s]]
    /\ UNCHANGED <<use_ncq, ci, sact, is, fault>>

\* With queueing on, after a failure: successes first, then reset and issue
\* all others again without queueing.
ResetAndReissue ==
    /\ use_ncq /\ "TFES" \in is
    /\ Collect(Done, "OK")
    /\ LET again == {s \in cmd_issued \ Done : slot_requests[s] # "none"}
           n == Cardinality(again)
           freed == [s \in AllSlots |-> IF s \in Done THEN "none" ELSE slot_requests[s]]
       IN  /\ cmd_issued' = 0 .. n - 1
           /\ slot_requests' = [s \in AllSlots |-> IF s < n THEN Reissued(again)[s] ELSE freed[s]]
           /\ ci' = 0 .. n - 1
           /\ fault' = IF \E s \in again : Chunks[slot_requests[s]] > 1 THEN "resplit" ELSE fault
    /\ sact' = {} /\ is' = {} /\ use_ncq' = FALSE

handle_port_irq ==
    /\ is # {} /\ handler = "idle"
    /\ CompleteSlots \/ ResetAndReissue
    /\ seen' = is /\ handler' = "ack"
    /\ UNCHANGED <<left, non_ncq_pending, bypass_offline, online, raced>>

\* The acknowledgement writes back the bits that were read, which clears
\* also what was raised for a command that completed since.
Acknowledge ==
    /\ handler = "ack"
    /\ is' = is \ seen
    /\ seen' = {} /\ handler' = "calls"
    /\ UNCHANGED <<pc, left, io, port, slotalloc_avail, ci, sact, online, callbacks,
                   raced, fault>>

\* Callbacks are made outside the lock.
InvokeCallback ==
    /\ handler = "calls"
    /\ IF callbacks = <<>>
       THEN handler' = "idle" /\ UNCHANGED <<io, callbacks>>
       ELSE /\ io' = [io EXCEPT ![Head(callbacks)] = invoke(@)]
            /\ callbacks' = Tail(callbacks)
            /\ UNCHANGED handler
    /\ UNCHANGED <<pc, left, port, slotalloc_avail, regs, seen, raced, fault>>

Next ==
    /\ fault = "none"
    /\ \/ \E r \in Requests : io_locked(r) \/ AnnounceExpect(r)
       \/ \E r \in Flushes : port_flush(r)
       \/ \E s \in AllSlots : Execute(s)
       \/ handle_port_irq \/ Acknowledge \/ InvokeCallback

\* Somebody takes a step while somebody can.
Spec == Init /\ [][Next]_vars /\ WF_vars(Next)

-----------------------------------------------------------------------------
\* Every command is somewhere: not issued yet, in a slot of its own, waiting
\* for its callback, or counted by the completion object; also across the
\* reset and reissue (ahci.cc:1060-1206).
CommandsAccounted ==
    fault = "none" =>
    \A r \in Requests : io[r].result # "ENODEV" =>
        Chunks[r] = left[r] + io[r].done_count
                  + Cardinality({s \in cmd_issued : slot_requests[s] = r})
                  + Cardinality({k \in DOMAIN callbacks : callbacks[k] = r})

\* "... to make command execution sequential, to get precise error
\* information" (ahci.cc:1114-1115): a request that failed is reported as
\* failed.
FailureIsReported ==
    \A r \in Requests \cap Bad : io[r].calls > 0 => io[r].result # "OK"

\* It is, if no status bit is raised while the handler is between the read
\* and the acknowledgement of the status.
FailureIsReportedUnlessRaced == ~raced => FailureIsReported

\* Every request is completed, whatever fails, unless a status bit is lost
\* in the acknowledgement or a flush stops the port.
AllReturned ==
    raced \/ fault # "none" \/ non_ncq_pending \/ \A r \in Requests : io[r].calls > 0

\* "Mark all unsupported slots permanently busy" (ahci.cc:1361).
UnsupportedSlotsBusy == AllSlots \ slot_mask \subseteq cmd_issued
=============================================================================
