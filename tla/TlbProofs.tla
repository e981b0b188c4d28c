----------------------------- MODULE TlbProofs -----------------------------
(***************************************************************************)
(* The shootdown protocol for any number of CPUs and pages.  The inductive *)
(* invariant adds to StaleIsPromised what munmap relies on when it leaves  *)
(* the shootdown out: who has an entry that nobody is about to flush has   *)
(* left its trace in the accessed bit.                                     *)
(***************************************************************************)
EXTENDS TlbShootdown, TLAPS

IInv == TypeOK /\ StaleIsPromised /\ AccessedIsSeen

\* No variable of the model changes: neither does any of the three conjuncts.
LEMMA StutterKeeps ==
    ASSUME IInv, UNCHANGED vars
    PROVE  IInv'
  BY DEF IInv, TypeOK, StaleIsPromised, AccessedIsSeen, Stale, Promised, Flushes, WillSend,
         vars, table, call, sending

\* Every step of a call, of the handler and of the hardware keeps the types.
LEMMA StepTyped ==
    ASSUME TypeOK, NEW c \in Cpus, Call(c) \/ Step(c)
    PROVE  TypeOK'
<1> USE DEF TypeOK, Perms, Places, table, call, sending
<1>1. CASE Call(c)
  <2>1. PICK range \in SUBSET Pages :
            munmap(c, range) \/ \E perm \in {"ro", "rw"} : mprotect(c, range, perm)
    BY <1>1 DEF Call
  <2>2. CASE munmap(c, range)
    BY <2>2 DEF munmap, Goto
  <2>3. ASSUME NEW perm \in {"ro", "rw"}, mprotect(c, range, perm)
        PROVE  TypeOK'
    BY <2>3 DEF mprotect, Goto
  <2> QED
    BY <2>1, <2>2, <2>3
<1>2. ASSUME NEW p \in Pages, Fill(c, p)
      PROVE  TypeOK'
  BY <1>2 DEF Fill
<1>3. ASSUME NEW p \in Pages, ProtectPage(c, p)
      PROVE  TypeOK'
  BY <1>3 DEF ProtectPage, Advance, cpu_page_invalidate
<1>4. ASSUME NEW p \in Pages, ProtectFails(c, p)
      PROVE  TypeOK'
  BY <1>4 DEF ProtectFails, Return, Goto
<1>5. ASSUME NEW p \in Pages, UnmapPage(c, p)
      PROVE  TypeOK'
  <2>1. pte' \in [Pages -> Perms] /\ accessed' \subseteq Pages
    BY <1>5 DEF UnmapPage
  <2>2. tlb' \in [Cpus -> [Pages -> Perms]]
    <3>1. tlb' = IF p \in accessed THEN [tlb EXCEPT ![c][p] = "none"] ELSE tlb
      BY <1>5 DEF UnmapPage, cpu_page_invalidate
    <3> QED
      BY <3>1
  <2>3. combined' \subseteq Cpus /\ freed' \subseteq Cpus
    BY <1>5 DEF UnmapPage
  <2>4. todo' \in [Cpus -> SUBSET Pages] /\ done' \in [Cpus -> SUBSET Pages]
    BY <1>5 DEF UnmapPage, Advance
  <2>5. UNCHANGED <<irq, pc, prot, sending, abandoned>>
    BY <1>5 DEF UnmapPage
  <2> QED
    BY <2>1, <2>2, <2>3, <2>4, <2>5
<1>6. CASE ProtectDone(c)
  BY <1>6 DEF ProtectDone, Goto
<1>7. CASE UnmapDone(c)
  BY <1>7 DEF UnmapDone, Return, Goto
<1>8. CASE LockShootdown(c)
  BY <1>8 DEF LockShootdown, Goto
<1>9. CASE mmu_send_tlb_shootdown(c)
  BY <1>9 DEF mmu_send_tlb_shootdown, Targets, Return, Goto
<1>10. CASE IpiEnter(c)
  BY <1>10 DEF IpiEnter
<1>11. CASE mmu_tlb_shootdown_handler(c)
  BY <1>11 DEF mmu_tlb_shootdown_handler
<1>12. CASE mmu_tlb_perform_shootdown(c)
  BY <1>12 DEF mmu_tlb_perform_shootdown
<1> QED
  BY <1>1, <1>2, <1>3, <1>4, <1>5, <1>6, <1>7, <1>8, <1>9, <1>10, <1>11, <1>12 DEF Step

\* What was promised to a CPU stays so: a call that ends has sent the interrupt or left
\* its pages in abandoned, and an interrupt ends with the flush.
LEMMA PromiseKept ==
    ASSUME TypeOK, NEW c \in Cpus, Call(c) \/ Step(c), ~mmu_tlb_perform_shootdown(c),
           NEW b \in Cpus, NEW q \in Pages, Promised(b, q)
    PROVE  Promised(b, q)'
<1> USE DEF TypeOK, Perms, Places, Promised, Flushes, WillSend, table, call, sending
<1>1. CASE Call(c)
  BY <1>1 DEF Call, munmap, mprotect, At, Goto
<1>2. ASSUME NEW p \in Pages, Fill(c, p)
      PROVE  Promised(b, q)'
  BY <1>2 DEF Fill
<1>3. ASSUME NEW p \in Pages, ProtectPage(c, p)
      PROVE  Promised(b, q)'
  BY <1>3 DEF ProtectPage, Advance, At
<1>4. ASSUME NEW p \in Pages, ProtectFails(c, p)
      PROVE  Promised(b, q)'
  BY <1>4 DEF ProtectFails, Return, Goto, At
<1>5. ASSUME NEW p \in Pages, UnmapPage(c, p)
      PROVE  Promised(b, q)'
  BY <1>5 DEF UnmapPage, Advance, At
<1>6. CASE ProtectDone(c)
  BY <1>6 DEF ProtectDone, Goto, At
<1>7. CASE UnmapDone(c)
  BY <1>7 DEF UnmapDone, Return, Goto, At
<1>8. CASE LockShootdown(c)
  BY <1>8 DEF LockShootdown, Goto, At
<1>9. CASE mmu_send_tlb_shootdown(c)
  <2>1. ipi' = ipi \cup (Cpus \ {c})
    BY <1>9 DEF mmu_send_tlb_shootdown, Targets
  <2>2. CASE b = c
    BY <1>9, <2>1, <2>2 DEF mmu_send_tlb_shootdown, Return, Goto
  <2>3. CASE b # c
    BY <2>1, <2>3
  <2> QED
    BY <2>2, <2>3
<1>10. CASE IpiEnter(c)
  BY <1>10 DEF IpiEnter
<1>11. CASE mmu_tlb_shootdown_handler(c)
  BY <1>11 DEF mmu_tlb_shootdown_handler
<1> QED
  BY <1>1, <1>2, <1>3, <1>4, <1>5, <1>6, <1>7, <1>8, <1>9, <1>10, <1>11 DEF Step

\* A step leaves no CPU with an entry that differs from the page table's, or that is
\* missing from the accessed bits, without a promise.
LEMMA StepKeeps ==
    ASSUME IInv, NEW c \in Cpus, Call(c) \/ Step(c)
    PROVE  IInv'
<1>1. TypeOK'
  BY StepTyped DEF IInv
<1> SUFFICES ASSUME NEW b \in Cpus, NEW q \in Pages
             PROVE  /\ (Stale(b, q) => Promised(b, q))'
                    /\ (tlb[b][q] # "none" =>
                          (pte[q] # "none" /\ q \in accessed) \/ Promised(b, q))'
  BY <1>1 DEF IInv, StaleIsPromised, AccessedIsSeen
<1> DEFINE Bad == Stale(b, q) \/ (tlb[b][q] # "none" /\ ~(pte[q] # "none" /\ q \in accessed))
<1>2. Bad => Promised(b, q)
  BY DEF IInv, StaleIsPromised, AccessedIsSeen
<1>3. SUFFICES ASSUME Bad'
               PROVE  Promised(b, q)'
  OBVIOUS
<1> HIDE DEF Bad
<1>4. CASE mmu_tlb_perform_shootdown(c)
  <2>1. b # c
    BY <1>3, <1>4 DEF Bad, Stale, mmu_tlb_perform_shootdown, IInv, TypeOK
  <2>2. Bad
    BY <1>3, <1>4, <2>1 DEF Bad, Stale, mmu_tlb_perform_shootdown, IInv, TypeOK, table
  <2> QED
    BY <1>2, <1>4, <2>1, <2>2
       DEF mmu_tlb_perform_shootdown, Promised, Flushes, WillSend, IInv, TypeOK, call, sending
<1>5. CASE ~mmu_tlb_perform_shootdown(c)
  <2>1. Bad => Promised(b, q)'
    BY <1>2, <1>5, PromiseKept DEF IInv
  <2>2. SUFFICES ASSUME ~Bad PROVE Promised(b, q)'
    BY <2>1
  <2>3. ASSUME NEW p \in Pages, ProtectPage(c, p)
        PROVE  Promised(b, q)'
    <3>1. p = q /\ b # c
      BY <1>3, <2>2, <2>3 DEF Bad, Stale, ProtectPage, cpu_page_invalidate, IInv, TypeOK
    <3> QED
      BY <2>3, <3>1 DEF ProtectPage, Advance, At, Promised, WillSend, IInv, TypeOK
  <2>4. ASSUME NEW p \in Pages, UnmapPage(c, p)
        PROVE  Promised(b, q)'
    <3>1. p = q /\ p \in accessed
      BY <1>3, <2>2, <2>4 DEF Bad, Stale, UnmapPage, cpu_page_invalidate, IInv, TypeOK
    <3>2. b # c
      BY <1>3, <2>4, <3>1 DEF Bad, Stale, UnmapPage, cpu_page_invalidate, IInv, TypeOK
    <3> QED
      BY <2>4, <3>1, <3>2 DEF UnmapPage, Advance, At, Promised, WillSend, IInv, TypeOK
  <2>5. ASSUME NEW p \in Pages, Fill(c, p)
        PROVE  FALSE
    BY <1>3, <2>2, <2>5 DEF Bad, Stale, Fill, IInv, TypeOK
  <2>6. CASE UNCHANGED <<table, tlb>>
    BY <1>3, <2>2, <2>6 DEF Bad, Stale, table
  <2> QED
    BY <1>5, <2>3, <2>4, <2>5, <2>6
       DEF Step, Call, munmap, mprotect, ProtectFails, ProtectDone, UnmapDone, LockShootdown,
           mmu_send_tlb_shootdown, IpiEnter, mmu_tlb_shootdown_handler
<1> QED
  BY <1>4, <1>5

\* The types of the shootdown protocol are those that TypeOK says, and the inductive
\* invariant holds in every reachable state.
THEOREM Invariant == Spec => []IInv
<1>1. Init => IInv
  BY DEF Init, IInv, TypeOK, Perms, Places, StaleIsPromised, AccessedIsSeen, Stale
<1>2. IInv /\ [Next]_vars => IInv'
  BY StepKeeps, StutterKeeps DEF Next
<1> QED
  BY <1>1, <1>2, PTL DEF Spec

\* For any number of CPUs and pages: no CPU keeps an entry that is not the page table's
\* without an interrupt on its way (mmu.cc:1049-1140, 2656-2870).
THEOREM NoForgottenEntry == Spec => []StaleIsPromised
  BY Invariant, PTL DEF IInv
=============================================================================
