---------------------------- MODULE TlbShootdown ----------------------------
(***************************************************************************)
(* TLB shootdown, kernel/arch/x86_64/cpu/mmu.cc: mprotect and munmap change *)
(* page table entries one by one, invalidate them on their own CPU, and    *)
(* then send an interrupt to the other CPUs, which they do not wait for.   *)
(* No caller asks for the synchronous kind.                                *)
(*                                                                         *)
(* A thread stays on its CPU.  A page table entry is a permission and the  *)
(* accessed bit, which the hardware sets when it loads the entry.          *)
(***************************************************************************)
EXTENDS Naturals

CONSTANTS Cpus,
          Pages,    \* pages of one address space, as numbers
          Sysmem    \* those of them for which pte_is_sysmem holds

VARIABLES pte,        \* per page: its permission
          accessed,   \* the pages with the accessed bit
          tlb,        \* per CPU and page: the permission it has cached
          pc, irq,    \* per CPU: where its thread and its handler are
          todo, done, \* per CPU: the pages its call has to change, and has changed
          prot,       \* mprotect: the permission wanted
          combined,   \* the CPUs whose munmap met an accessed entry
          freed,      \* the CPUs whose munmap freed a page
          shootdown_lock, shootdown_pending,
          ipi,        \* the CPUs with the interrupt pending
          abandoned   \* pages changed by calls that returned without a shootdown

call == <<pc, todo, done, prot, combined, freed>>
table == <<pte, accessed>>
sending == <<shootdown_lock, shootdown_pending, ipi>>
vars == <<table, tlb, irq, call, sending, abandoned>>

Perms == {"none", "ro", "rw"}
Places == {"idle", "protect", "unmap", "send", "locked"}
Nobody == "nobody"

Init ==
    /\ pte = [p \in Pages |-> "rw"] /\ accessed = {}
    /\ tlb = [c \in Cpus |-> [p \in Pages |-> "none"]]
    /\ pc = [c \in Cpus |-> "idle"] /\ irq = [c \in Cpus |-> "none"]
    /\ todo = [c \in Cpus |-> {}] /\ done = [c \in Cpus |-> {}]
    /\ prot = [c \in Cpus |-> "none"]
    /\ combined = {} /\ freed = {}
    /\ shootdown_lock = Nobody /\ shootdown_pending = {} /\ ipi = {}
    /\ abandoned = {}

\* The CPU loads an entry.
Fill(c, p) ==
    /\ pte[p] # "none" /\ tlb[c][p] = "none"
    /\ tlb' = [tlb EXCEPT ![c][p] = pte[p]]
    /\ accessed' = accessed \cup {p}
    /\ UNCHANGED <<pte, irq, call, sending, abandoned>>

\* The thread of c is at that place and not interrupted.
At(c, place) == pc[c] = place /\ irq[c] = "none"
Goto(c, place) == pc' = [pc EXCEPT ![c] = place]
\* The call returns, and its locals are gone.
Return(c) ==
    /\ Goto(c, "idle")
    /\ todo' = [todo EXCEPT ![c] = {}] /\ done' = [done EXCEPT ![c] = {}]
    /\ prot' = [prot EXCEPT ![c] = "none"]
    /\ combined' = combined \ {c} /\ freed' = freed \ {c}

\* The next page of the call.
IsNext(c, p) == p \in todo[c] /\ \A q \in todo[c] : p <= q
Advance(c, p) ==
    /\ todo' = [todo EXCEPT ![c] = @ \ {p}]
    /\ done' = [done EXCEPT ![c] = @ \cup {p}]
cpu_page_invalidate(c, p) == tlb' = [tlb EXCEPT ![c][p] = "none"]

mprotect(c, range, perm) ==
    /\ At(c, "idle") /\ Goto(c, "protect")
    /\ todo' = [todo EXCEPT ![c] = range]
    /\ prot' = [prot EXCEPT ![c] = perm]
    /\ UNCHANGED <<table, tlb, irq, done, combined, freed, sending, abandoned>>

ProtectPage(c, p) ==
    /\ At(c, "protect") /\ IsNext(c, p)
    /\ pte[p] # "none"
    /\ pte' = [pte EXCEPT ![p] = prot[c]]
    /\ cpu_page_invalidate(c, p)
    /\ Advance(c, p)
    /\ UNCHANGED <<accessed, irq, pc, prot, combined, freed, sending, abandoned>>

\* An entry of zero: mprotect returns -1, whatever it changed before.
ProtectFails(c, p) ==
    /\ At(c, "protect") /\ IsNext(c, p)
    /\ pte[p] = "none"
    /\ abandoned' = abandoned \cup done[c]
    /\ Return(c)
    /\ UNCHANGED <<table, tlb, irq, sending>>

ProtectDone(c) ==
    /\ At(c, "protect") /\ todo[c] = {}
    /\ Goto(c, "send")
    /\ UNCHANGED <<table, tlb, irq, todo, done, prot, combined, freed, sending, abandoned>>

munmap(c, range) ==
    /\ At(c, "idle") /\ Goto(c, "unmap")
    /\ todo' = [todo EXCEPT ![c] = range]
    /\ UNCHANGED <<table, tlb, irq, done, prot, combined, freed, sending, abandoned>>

\* Mutant: only the last entry decides whether a shootdown is needed.
UnmapPage_Last(c, p) ==
    /\ At(c, "unmap") /\ IsNext(c, p)
    /\ pte' = [pte EXCEPT ![p] = "none"]
    /\ accessed' = accessed \ {p}
    /\ combined' = IF p \in accessed THEN combined \cup {c} ELSE combined \ {c}
    /\ freed' = IF p \in Sysmem /\ pte[p] # "none" THEN freed \cup {c} ELSE freed
    /\ IF p \in accessed THEN cpu_page_invalidate(c, p) ELSE UNCHANGED tlb
    /\ Advance(c, p)
    /\ UNCHANGED <<irq, pc, prot, sending, abandoned>>

\* The exchange with zero returns the accessed bit as it was at that moment.
UnmapPage(c, p) ==
    /\ At(c, "unmap") /\ IsNext(c, p)
    /\ pte' = [pte EXCEPT ![p] = "none"]
    /\ accessed' = accessed \ {p}
    /\ combined' = IF p \in accessed THEN combined \cup {c} ELSE combined
    /\ freed' = IF p \in Sysmem /\ pte[p] # "none" THEN freed \cup {c} ELSE freed
    /\ IF p \in accessed THEN cpu_page_invalidate(c, p) ELSE UNCHANGED tlb
    /\ Advance(c, p)
    /\ UNCHANGED <<irq, pc, prot, sending, abandoned>>

\* free_batch.flush, and the shootdown where it is thought to be needed.
UnmapDone(c) ==
    /\ At(c, "unmap") /\ todo[c] = {}
    /\ \/ /\ c \in freed \cap combined
          /\ Goto(c, "send")
          /\ UNCHANGED <<todo, done, prot, combined, freed, abandoned>>
       \/ /\ c \notin freed \cap combined
          /\ Return(c)
          /\ abandoned' = IF c \in combined THEN abandoned \cup done[c] ELSE abandoned
    /\ UNCHANGED <<table, tlb, irq, sending>>

\* shootdown_lock is an irq_spinlock: interrupts are off from here on.
LockShootdown(c) ==
    /\ At(c, "send") /\ shootdown_lock = Nobody
    /\ shootdown_lock' = c
    /\ Goto(c, "locked")
    /\ UNCHANGED <<table, tlb, irq, todo, done, prot, combined, freed, shootdown_pending, ipi,
                   abandoned>>

\* Mutant: atom_or returns the value before.
Targets_Old(others) == shootdown_pending \cap others

\* mmu_send_tlb_shootdown, the CPUs that get the interrupt.  atom_or returns the new
\* value, so the test for "all others" is always true.
Targets(others) ==
    LET new_pending == shootdown_pending \cup others
        need_ipi == new_pending \cap others
    IN  IF need_ipi = others THEN others ELSE need_ipi \ new_pending

mmu_send_tlb_shootdown(c) ==
    /\ At(c, "locked")
    /\ shootdown_pending' = shootdown_pending \cup (Cpus \ {c})
    /\ ipi' = ipi \cup Targets(Cpus \ {c})
    /\ shootdown_lock' = Nobody
    /\ Return(c)
    /\ UNCHANGED <<table, tlb, irq, abandoned>>

\* The interrupt is taken, unless c has interrupts off.
IpiEnter(c) ==
    /\ c \in ipi /\ irq[c] = "none" /\ pc[c] \notin {"send", "locked"}
    /\ ipi' = ipi \ {c}
    /\ irq' = [irq EXCEPT ![c] = "clear"]
    /\ UNCHANGED <<table, tlb, call, shootdown_lock, shootdown_pending, abandoned>>

mmu_tlb_shootdown_handler(c) ==
    /\ irq[c] = "clear"
    /\ shootdown_pending' = shootdown_pending \ {c}
    /\ irq' = [irq EXCEPT ![c] = "flush"]
    /\ UNCHANGED <<table, tlb, call, shootdown_lock, ipi, abandoned>>

mmu_tlb_perform_shootdown(c) ==
    /\ irq[c] = "flush"
    /\ tlb' = [tlb EXCEPT ![c] = [p \in Pages |-> "none"]]
    /\ irq' = [irq EXCEPT ![c] = "none"]
    /\ UNCHANGED <<table, call, sending, abandoned>>

Call(c) ==
    \E range \in SUBSET Pages :
        range # {} /\ (munmap(c, range) \/ \E perm \in {"ro", "rw"} : mprotect(c, range, perm))

Step(c) ==
    \/ \E p \in Pages : Fill(c, p) \/ ProtectPage(c, p) \/ ProtectFails(c, p) \/ UnmapPage(c, p)
    \/ ProtectDone(c) \/ UnmapDone(c) \/ LockShootdown(c) \/ mmu_send_tlb_shootdown(c)
    \/ IpiEnter(c) \/ mmu_tlb_shootdown_handler(c) \/ mmu_tlb_perform_shootdown(c)

Next == \E c \in Cpus : Call(c) \/ Step(c)

Spec == Init /\ [][Next]_vars

-----------------------------------------------------------------------------
TypeOK ==
    /\ pte \in [Pages -> Perms] /\ accessed \subseteq Pages
    /\ tlb \in [Cpus -> [Pages -> Perms]]
    /\ pc \in [Cpus -> Places] /\ irq \in [Cpus -> {"none", "clear", "flush"}]
    /\ todo \in [Cpus -> SUBSET Pages] /\ done \in [Cpus -> SUBSET Pages]
    /\ prot \in [Cpus -> Perms]
    /\ combined \subseteq Cpus /\ freed \subseteq Cpus
    /\ shootdown_lock \in Cpus \cup {Nobody}
    /\ shootdown_pending \subseteq Cpus /\ ipi \subseteq Cpus
    /\ abandoned \subseteq Pages

Stale(c, p) == tlb[c][p] \notin {"none", pte[p]}

\* d changed the page and is on its way to tell the other CPUs.
WillSend(d, p) ==
    /\ p \in done[d]
    /\ pc[d] \in {"protect", "send", "locked"} \/ (pc[d] = "unmap" /\ d \in combined)

Flushes(c) == c \in ipi \/ irq[c] # "none"

Promised(c, p) == Flushes(c) \/ (\E d \in Cpus \ {c} : WillSend(d, p)) \/ p \in abandoned

\* A CPU that has an entry other than the page table's has the interrupt that flushes
\* it, or some other CPU is on its way to send it, through the bits that munmap looks
\* at to avoid shootdowns and the races of calls, loads and interrupts
\* (mmu.cc:1049-1140, 2654-2765, 2767-2870).  Excepted are pages left by the calls
\* that return without one: mprotect that meets an unmapped page (mmu.cc:2826), and
\* munmap of pages none of which is system memory (mmu.cc:2749).
StaleIsPromised == \A c \in Cpus, p \in Pages : Stale(c, p) => Promised(c, p)

\* What StaleIsPromised rests on: the accessed bit is set as long as a CPU has the
\* entry of a mapped page (mmu.cc:2749-2754 skips the shootdown on its account).
AccessedIsSeen ==
    \A c \in Cpus, p \in Pages :
        tlb[c][p] # "none" => (pte[p] # "none" /\ p \in accessed) \/ Promised(c, p)

\* No call returns without a shootdown.  Not satisfied, for those two reasons.
NothingAbandoned == abandoned = {}

\* A page that munmap has freed is in no TLB.  Not satisfied: the pages are freed
\* before the shootdown is sent (mmu.cc:2747-2751), and nobody waits for it.
FreedIsUnreachable ==
    \A c \in Cpus, p \in Pages :
        /\ pte[p] = "none" /\ tlb[c][p] # "none" => \E d \in Cpus : pc[d] = "unmap"
=============================================================================
