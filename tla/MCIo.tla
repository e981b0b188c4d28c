-------------------------------- MODULE MCIo --------------------------------
(***************************************************************************)
(* The storage drivers and the work queue in one run.  A behaviour is one  *)
(* of exactly one of them, the one that the initial state selects; the     *)
(* others stay in their initial states.                                    *)
(***************************************************************************)
EXTENDS Naturals, Sequences

VARIABLES which,
          n_pc, n_io, n_irq, n_busy, sent, tail, head, cmp_handlers, chead, phase, cmp_buf,
          cq, ctail, cphase, fetched, failed, reused,
          v_pc, v_irq, v_busy, v_seen, chain, per_queue_lock, next, linked,
          desc_first_free, desc_free_count, avail_ring, avail_idx, used_tail, completions,
          finished_completions, io_iocp, caller_iocp, deleted, used_ring, used_idx,
          a_pc, a_io, a_seen, left, cmd_issued, slot_requests, use_ncq, non_ncq_pending,
          bypass_offline, slotalloc_avail, ci, sact, is, online, handler, callbacks, raced,
          fault,
          w_pc, at, done_count, worker, item, queue, top, map, ran, panicked

nvme == <<n_pc, n_io, n_irq, n_busy, sent, tail, head, cmp_handlers, chead, phase, cmp_buf,
          cq, ctail, cphase, fetched, failed, reused>>
virtio == <<v_pc, v_irq, v_busy, v_seen, chain, per_queue_lock, next, linked,
            desc_first_free, desc_free_count, avail_ring, avail_idx, used_tail, completions,
            finished_completions, io_iocp, caller_iocp, deleted, used_ring, used_idx>>
ahci == <<a_pc, a_io, a_seen, left, cmd_issued, slot_requests, use_ncq, non_ncq_pending,
          bypass_offline, slotalloc_avail, ci, sact, is, online, handler, callbacks, raced,
          fault>>
work == <<w_pc, at, done_count, worker, item, queue, top, map, ran, panicked>>
vars == <<which, nvme, virtio, ahci, work>>

\* Four commands of one request and one of another on a queue of four slots, which
\* wraps; the device fails the commands in slot 1.
Nvme == INSTANCE Nvme WITH
    Requests <- {"r1", "r2"}, Blocks <- [r1 |-> 4, r2 |-> 1], MaxBlocks <- 1, Slots <- 4,
    Bad <- {1}, pc <- n_pc, io <- n_io, irq <- n_irq, busy <- n_busy

\* Chains of two and three descriptors from a table of four, with indexes that wrap.
Virtio == INSTANCE Virtio WITH
    Requests <- {"r1", "r2", "r3"}, Need <- [r1 |-> 2, r2 |-> 3, r3 |-> 2],
    Size <- 4, IndexRange <- 8, Start <- 6,
    pc <- v_pc, irq <- v_irq, busy <- v_busy, seen <- v_seen

\* Four commands and a flush on two slots; the drive fails the command of r3.
Ahci == INSTANCE Ahci WITH
    Requests <- {"r1", "r2", "r3"}, Flushes <- {"f"}, Chunks <- [r1 |-> 2, r2 |-> 1, r3 |-> 1],
    Slots <- 2, Depth <- 2, Bad <- {"r3"}, pc <- a_pc, io <- a_io, seen <- a_seen

\* A barrier on two processors, and two items for one of them, which has room for two.
WorkQueue == INSTANCE WorkQueue WITH
    Cpus <- {1, 2}, Barriers <- {"b1"}, Singles <- {"s1", "s2"},
    Target <- [s1 |-> 1, s2 |-> 1], Words <- {0}, Bits <- {0, 1}, pc <- w_pc

Init ==
    /\ which \in {"nvme", "virtio", "ahci", "work"}
    /\ Nvme!Init /\ Virtio!Init /\ Ahci!Init /\ WorkQueue!Init

Next ==
    /\ \/ which = "nvme" /\ Nvme!Next /\ UNCHANGED <<virtio, ahci, work>>
       \/ which = "virtio" /\ Virtio!Next /\ UNCHANGED <<nvme, ahci, work>>
       \/ which = "ahci" /\ Ahci!Next /\ UNCHANGED <<nvme, virtio, work>>
       \/ which = "work" /\ WorkQueue!Next /\ UNCHANGED <<nvme, virtio, ahci>>
    /\ UNCHANGED which

\* Threads, devices and interrupt handlers that can go on do; none of the
\* components can go on for ever.
Spec == Init /\ [][Next]_vars /\ WF_vars(Next)

-----------------------------------------------------------------------------
\* Each request's completion object counts what happened to its commands, once,
\* and reports a failure where the device failed one (nvme.cc, ahci.cc unless a
\* status bit was raised in the handler's race); a request is not used after its
\* completion (virtio-blk.cc).
CompletedExactly ==
    /\ Nvme!CompletedExactly
    /\ Virtio!NotUsedAfterDelete
    /\ Ahci!FailureIsReportedUnlessRaced

\* Nothing that a driver hands out is lost or given twice: every descriptor of
\* the virtio table is free or in one chain; every AHCI command is unissued, in a
\* slot, waiting for its callback or counted; the memory of a work item is in use
\* exactly while the item is queued or runs.
NothingIsLost ==
    Virtio!DescriptorsConserved /\ Ahci!CommandsAccounted /\ WorkQueue!SlotsInUse

\* "Run functor once on every cpu and block until every cpu is finished"
\* (work_queue.h:64).
BarrierCovers == WorkQueue!BarrierCovers

=============================================================================
