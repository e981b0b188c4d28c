------------------------------ MODULE Nvme ------------------------------
(***************************************************************************)
(* The I/O path of kernel/device/nvme/nvme.cc: threads split requests into *)
(* commands and put them on a submission queue, the device fetches the     *)
(* commands, executes them in any order and posts completions, and the     *)
(* interrupt handler collects the completions under the queue's lock and   *)
(* calls the handlers after it has released the lock.                      *)
(*                                                                         *)
(* One queue pair, which several threads share: a thread keeps the queue   *)
(* of the processor it started on, and there can be fewer queues than      *)
(* processors.  The interrupt handler does not nest.                       *)
(*                                                                         *)
(* A command's id is its slot, and a slot is free again once the device    *)
(* has fetched it, which can be before the command completes: `reused`     *)
(* records that an id was given to a second command too early, and the     *)
(* model stops there.                                                      *)
(***************************************************************************)
EXTENDS Iocp, Sequences, FiniteSets

CONSTANTS Requests,   \* one thread issues each
          Blocks,     \* Blocks[r]: the blocks r reads or writes; 0 for a flush
          MaxBlocks,  \* the blocks of one command
          Slots,      \* entries of each queue
          Bad         \* the slots of which the device fails the commands

VARIABLES pc, sent,             \* per request: where its thread is, commands queued
          io,                   \* the completion objects
          tail, head,           \* submission queue; tail is the doorbell
          cmp_handlers,         \* slot -> request of the command in the slot
          chead, phase,         \* completion queue, driver side
          cmp_buf,              \* completions the handler has collected
          cq, ctail, cphase,    \* completion queue, device side
          fetched, busy,        \* the device: next slot to fetch, commands in progress
          irq,                  \* an interrupt is pending
          failed,               \* requests of which a command was failed
          reused

driver == <<pc, sent, io, tail, head, cmp_handlers, chead, phase, cmp_buf>>
device == <<cq, ctail, cphase, fetched, busy, failed>>
vars == <<driver, device, irq, reused>>

Index == 0 .. Slots - 1
next(i) == (i + 1) % Slots
is_full == next(tail) = head

\* nvme_if_t::io: the extents <<first block, blocks>> of the commands of a
\* request.  The size of a chunk is computed from the whole request, and
\* neither the block address nor the byte count moves on.
Split(n) ==
    LET chunk == IF n < MaxBlocks THEN n ELSE MaxBlocks
    IN  [i \in 1 .. (IF n = 0 THEN 0 ELSE (n + chunk - 1) \div chunk) |-> <<0, chunk>>]

expect(r) == Len(Split(Blocks[r]))

\* Do the commands move each block of a request of n blocks, and no other?
SplitCovers(n) ==
    UNION {e[1] .. e[1] + e[2] - 1 : e \in {Split(n)[i] : i \in DOMAIN Split(n)}}
        = 0 .. n - 1

\* The slots from i up to, but not including, j.
Between(i, j) == {k \in Index : (k - i + Slots) % Slots < (j - i + Slots) % Slots}

\* Every command that has not reached its handler yet, with its id.
Outstanding ==
    {[cid |-> i, req |-> cmp_handlers[i]] : i \in Between(fetched, tail)}
      \cup busy
      \cup {[cid |-> cq[i].cid, req |-> cq[i].req] : i \in Between(chead, ctail)}
      \cup {[cid |-> cmp_buf[i].cid, req |-> cmp_buf[i].req] : i \in DOMAIN cmp_buf}

\* An entry of the completion queue of which only the phase matters still.
Stale == [cid |-> 0, req |-> "none", sqhd |-> 0, phase |-> FALSE]

Init ==
    /\ pc = [r \in Requests |-> IF expect(r) = 0 THEN "expect" ELSE "submit"]
    /\ sent = [r \in Requests |-> 0]
    /\ io = [r \in Requests |-> NewIocp]
    /\ tail = 0 /\ head = 0 /\ chead = 0 /\ phase = TRUE
    /\ cmp_handlers = [i \in Index |-> "none"]
    /\ cmp_buf = <<>>
    /\ cq = [i \in Index |-> Stale]
    /\ ctail = 0 /\ cphase = TRUE /\ fetched = 0 /\ busy = {}
    /\ irq = FALSE /\ failed = {} /\ reused = FALSE

\* One command, under the queue's lock; a full queue is waited for.
submit_cmd(r) ==
    /\ pc[r] = "submit"
    /\ IF is_full
       THEN /\ pc' = [pc EXCEPT ![r] = "asleep"]
            /\ UNCHANGED <<sent, tail, cmp_handlers, reused>>
       ELSE /\ cmp_handlers' = [cmp_handlers EXCEPT ![tail] = r]
            /\ reused' = (reused \/ \E c \in Outstanding : c.cid = tail)
            /\ tail' = next(tail)
            /\ sent' = [sent EXCEPT ![r] = @ + 1]
            /\ pc' = [pc EXCEPT ![r] = IF sent'[r] = expect(r) THEN "expect" ELSE "submit"]
    /\ UNCHANGED <<io, head, chead, phase, cmp_buf, device, irq>>

\* nvme_dev_t::io: the count is announced when all commands are queued.
AnnounceExpect(r) ==
    /\ pc[r] = "expect"
    /\ io' = [io EXCEPT ![r] = set_expect(@, expect(r))]
    /\ pc' = [pc EXCEPT ![r] = "wait"]
    /\ UNCHANGED <<sent, tail, head, cmp_handlers, chead, phase, cmp_buf,
                   device, irq, reused>>

\* The device takes the commands that are queued ...
Fetch ==
    /\ fetched # tail
    /\ busy' = busy \cup {[cid |-> i, req |-> cmp_handlers[i]] : i \in Between(fetched, tail)}
    /\ fetched' = tail
    /\ UNCHANGED <<driver, cq, ctail, cphase, failed, irq, reused>>

\* ... and completes any command it has, if there is room to say so.
Complete(c) ==
    /\ next(ctail) # chead
    /\ busy' = busy \ {c}
    /\ cq' = [cq EXCEPT ![ctail] = [cid |-> c.cid, req |-> c.req, sqhd |-> fetched,
                                    phase |-> cphase]]
    /\ ctail' = next(ctail)
    /\ cphase' = (cphase # (next(ctail) < ctail))
    /\ failed' = IF c.cid \in Bad THEN failed \cup {c.req} ELSE failed
    /\ irq' = TRUE
    /\ UNCHANGED <<driver, fetched, reused>>

\* io_handler stores what the completion says, and counts it.
io_handler(r, cid) ==
    io' = [io EXCEPT ![r] = invoke(set_result(@, IF cid \in Bad THEN "EIO" ELSE "OK"))]

\* Mutant: the phase is expected not to change when the queue wraps.
IsNew_NoWrap(offset) == cq[(chead + offset) % Slots].phase = phase

\* at_head: is entry `offset` past the head a new completion?
IsNew(offset) ==
    LET i == (chead + offset) % Slots
    IN  cq[i].phase = (phase # (i < chead))

Ready == CHOOSE n \in 0 .. Slots :
            /\ \A k \in 0 .. n - 1 : IsNew(k)
            /\ n = Slots \/ ~IsNew(n)


\* The part of process_completions under the lock: collect what is new, take
\* it off the queue, and move the submission queue's head to where the device
\* has fetched, which wakes those who wait for a slot.
process_completions ==
    /\ irq
    /\ cmp_buf = <<>>
    /\ LET n == Ready
       IN  /\ cmp_buf' = [k \in 1 .. n |-> cq[(chead + k - 1) % Slots]]
           /\ cq' = [i \in Index |-> IF i \in Between(chead, (chead + n) % Slots)
                                    THEN [Stale EXCEPT !.phase = cq[i].phase] ELSE cq[i]]
           /\ chead' = (chead + n) % Slots
           /\ phase' = (phase # ((chead + n) % Slots < chead))
           /\ IF n = 0
              THEN UNCHANGED <<head, pc>>
              ELSE /\ head' = cmp_buf'[n].sqhd
                   /\ pc' = [r \in Requests |-> IF pc[r] = "asleep" THEN "submit" ELSE pc[r]]
    /\ irq' = FALSE
    /\ UNCHANGED <<sent, io, tail, cmp_handlers, ctail, cphase, fetched, busy, failed, reused>>

\* Outside the lock: the handler of the command that has the id now.
invoke_completion ==
    /\ cmp_buf # <<>>
    /\ LET p == Head(cmp_buf) IN io_handler(cmp_handlers[p.cid], p.cid)
    /\ cmp_buf' = Tail(cmp_buf)
    /\ UNCHANGED <<pc, sent, tail, head, cmp_handlers, chead, phase,
                   device, irq, reused>>

Thread(r) == ~reused /\ (submit_cmd(r) \/ AnnounceExpect(r))
Device == ~reused /\ (Fetch \/ \E c \in busy : Complete(c))
Driver == ~reused /\ (process_completions \/ invoke_completion)

Next == (\E r \in Requests : Thread(r)) \/ Device \/ Driver

\* Somebody takes a step while somebody can: threads are scheduled, the device
\* executes what it is given, and a pending interrupt is taken.
Spec == Init /\ [][Next]_vars /\ WF_vars(Next)

-----------------------------------------------------------------------------
\* As long as no id has been reused too early: each command a thread has queued
\* is outstanding or has been counted by its request's completion object, once;
\* the callback runs at most once and only when nothing of the request is
\* outstanding; and it reports a failure exactly when the device failed one
\* of the request's commands (nvme.cc:1491-1503, iocp.h:146-169).
CompletedExactly ==
    ~reused =>
        \A r \in Requests :
            /\ io[r].done_count + Cardinality({c \in Outstanding : c.req = r}) = sent[r]
            /\ io[r].calls <= 1
            /\ io[r].calls = 1 =>
                  /\ io[r].done_count = expect(r)
                  /\ io[r].result = (IF r \in failed THEN "EIO" ELSE "OK")

\* A completion is delivered to the request whose command it completes
\* (nvme.cc:1738-1744).  Does not hold: see `reused`.
IdsAreDistinct == ~reused

\* The wait of every request ends (blocking_iocp_t::wait, iocp.h:241-249),
\* unless an id has been reused.
AllReturned == reused \/ \A r \in Requests : io[r].calls > 0
=============================================================================
