---------------------------- MODULE MutexProofs ----------------------------
(***************************************************************************)
(* The sleeping mutex for any set of threads: its invariants, and that it  *)
(* implements FifoLock.                                                    *)
(*                                                                         *)
(* The four invariants together are inductive: that the owner of a handed  *)
(* over mutex is asleep and off the chain (OwnershipAccounted) is kept     *)
(* because the chain lists sleeping threads, each once (ChainIsWaiters),   *)
(* and the chain keeps to that because only spinning threads join it.      *)
(***************************************************************************)
EXTENDS Mutex, SequenceTheorems, TLAPS

\* Inductive: owner, chain, sleepers and the unlocker agree.
IInv == TypeOK /\ MutualExclusion /\ OwnershipAccounted /\ ChainIsWaiters

USE OwnerAssumption, SpinAssumption

\* mutex_init establishes the invariant.
LEMMA InitIInv == Init => IInv
<1> SUFFICES ASSUME Init PROVE IInv
  OBVIOUS
<1>1. SpinMin + (SpinMax - SpinMin) \div 2 \in SpinFloor .. SpinMax
  OBVIOUS
<1>2. TypeOK
  BY <1>1 DEF Init, TypeOK
<1> QED
  BY <1>2 DEF Init, IInv, MutualExclusion, OwnershipAccounted, ChainIsWaiters

\* Taking the first element off a sequence and adding one at its end.
LEMMA TailElements ==
    ASSUME NEW S, NEW s \in Seq(S), s # <<>>
    PROVE  /\ Head(s) = s[1] /\ Head(s) \in S
           /\ Tail(s) \in Seq(S)
           /\ 1 \in DOMAIN s
           /\ \A i \in DOMAIN Tail(s) : i + 1 \in DOMAIN s /\ i + 1 # 1 /\ Tail(s)[i] = s[i + 1]
OBVIOUS

LEMMA AppendElements ==
    ASSUME NEW S, NEW s \in Seq(S), NEW e \in S
    PROVE  /\ Append(s, e) \in Seq(S)
           /\ \A i \in DOMAIN Append(s, e) : \/ i \in DOMAIN s /\ Append(s, e)[i] = s[i]
                                             \/ i = Len(s) + 1 /\ Append(s, e)[i] = e
           /\ Len(s) + 1 \notin DOMAIN s
OBVIOUS

\* Every step of every thread keeps the invariant.
LEMMA NextIInv == IInv /\ [Next]_vars => IInv'
<1> SUFFICES ASSUME IInv, [Next]_vars PROVE IInv'
  OBVIOUS
<1> USE DEF IInv, TypeOK, MutualExclusion, OwnershipAccounted, ChainIsWaiters, Goto
<1>1. ASSUME NEW t \in Threads, Call(t) PROVE IInv'
  BY <1>1 DEF Call
<1>2. ASSUME NEW t \in Threads, Spin(t) PROVE IInv'
  BY <1>2 DEF Spin
<1>3. ASSUME NEW t \in Threads, Acquire(t) PROVE IInv'
  BY <1>3 DEF Acquire
<1>4. ASSUME NEW t \in Threads, Enqueue(t) PROVE IInv'
  <2> USE <1>4 DEF Enqueue
  <2>1. TypeOK'
    BY AppendElements DEF Decreased
  <2>2. MutualExclusion' /\ OwnershipAccounted'
    OBVIOUS
  <2>3. ChainIsWaiters'
    <3>1. /\ \A i \in DOMAIN chain' : \/ i \in DOMAIN chain /\ chain'[i] = chain[i]
                                      \/ i = Len(chain) + 1 /\ chain'[i] = t
      BY AppendElements
    <3>2. \A i \in DOMAIN chain : chain[i] # t /\ chain[i] \in Threads
      OBVIOUS
    <3>3. Len(chain) + 1 \notin DOMAIN chain
      BY AppendElements
    <3>4. pc'[t] = "sleep" /\ t # owner'
      OBVIOUS
    <3>5. \A i \in DOMAIN chain : pc'[chain[i]] = "sleep" /\ chain[i] # owner'
      BY <3>2
    <3>6. \A i \in DOMAIN chain' : pc'[chain'[i]] = "sleep" /\ chain'[i] # owner'
      BY <3>1, <3>4, <3>5
    <3>7. ASSUME NEW i \in DOMAIN chain', NEW j \in DOMAIN chain', chain'[i] = chain'[j]
          PROVE  i = j
      BY <3>1, <3>2, <3>7
    <3> QED
      BY <3>6, <3>7
  <2> QED
    BY <2>1, <2>2, <2>3
<1>5. ASSUME NEW t \in Threads, mutex_try_lock(t) PROVE IInv'
  BY <1>5 DEF mutex_try_lock
<1>6. ASSUME NEW t \in Threads, TimeoutSpin(t) PROVE IInv'
  BY <1>6 DEF TimeoutSpin
<1>7. ASSUME NEW t \in Threads, mutex_unlock(t) PROVE IInv'
  <2>1. CASE chain = <<>>
    BY <1>7, <2>1 DEF mutex_unlock
  <2>2. CASE chain # <<>>
    <3>1. \A i \in DOMAIN Tail(chain) : /\ i + 1 \in DOMAIN chain /\ i + 1 # 1
                                       /\ Tail(chain)[i] = chain[i + 1]
      BY <2>2, TailElements
    <3>2. /\ Head(chain) = chain[1] /\ 1 \in DOMAIN chain
          /\ Head(chain) \in Threads /\ Tail(chain) \in Seq(Threads)
      BY <2>2, TailElements
    <3>3. /\ pc[t] = "in" /\ owner' = Head(chain) /\ chain' = Tail(chain)
          /\ wake' = [wake EXCEPT ![t] = Head(chain)]
          /\ pc' = [pc EXCEPT ![t] = "resume"]
          /\ spin_count' = spin_count /\ spin' = spin
      BY <1>7, <2>2 DEF mutex_unlock
    <3>4. pc[Head(chain)] = "sleep" /\ Head(chain) # t /\ owner = t
      BY <3>2, <3>3
    <3>5. \A u \in Threads : pc[u] # "resume" /\ (pc[u] = "in" => u = t)
      BY <3>3, <3>4
    <3>6. TypeOK'
      BY <3>2, <3>3
    <3>7. MutualExclusion'
      BY <3>3, <3>5
    <3>8. pc'[owner'] = "sleep" /\ owner' # NoOwner /\ pc'[t] = "resume" /\ wake'[t] = owner'
      BY <3>2, <3>3, <3>4
    <3>9. \A u \in Threads : pc'[u] = "resume" => u = t
      BY <3>3, <3>5
    <3>10. OwnershipAccounted'
      BY <3>8, <3>9
    <3>11. \A i \in DOMAIN chain' : pc'[chain'[i]] = "sleep" /\ chain'[i] # owner'
      BY <3>1, <3>2, <3>3
    <3>12. \A i, j \in DOMAIN chain' : chain'[i] = chain'[j] => i = j
      BY <3>1, <3>3
    <3> QED
      BY <3>6, <3>7, <3>10, <3>11, <3>12
  <2> QED
    BY <2>1, <2>2
<1>8. ASSUME NEW t \in Threads, thread_resume(t) PROVE IInv'
  <2> USE <1>8 DEF thread_resume
  <2>1. wake[t] = owner /\ owner \in Threads /\ pc[owner] = "sleep" /\ owner # t
    OBVIOUS
  <2>2. TypeOK'
    BY <2>1
  <2>3. MutualExclusion' /\ OwnershipAccounted'
    BY <2>1
  <2>4. \A i \in DOMAIN chain : chain[i] # t /\ chain[i] # owner /\ chain[i] \in Threads
    BY <2>1
  <2>5. ChainIsWaiters'
    BY <2>1, <2>4
  <2> QED
    BY <2>2, <2>3, <2>5
<1>9. CASE UNCHANGED vars
  BY <1>9 DEF vars
<1> QED
  BY <1>1, <1>2, <1>3, <1>4, <1>5, <1>6, <1>7, <1>8, <1>9 DEF Next, Lock

\* The invariant holds in every reachable state.
THEOREM Invariance == Spec => []IInv
<1> QED
  BY InitIInv, NextIInv, PTL DEF Spec

\* Type correctness of the mutex.
THEOREM TypeCorrect == Spec => []TypeOK
<1>1. IInv => TypeOK
  BY DEF IInv
<1> QED
  BY Invariance, <1>1, PTL

\* Whoever is between lock and unlock is the owner, so mutex_unlock's assertion
\* holds and two threads are never inside.
THEOREM Exclusion == Spec => []MutualExclusion
<1>1. IInv => MutualExclusion
  BY DEF IInv
<1> QED
  BY Invariance, <1>1, PTL

\* Handing over never loses the mutex: its owner is inside, or asleep with one
\* unlocker on its way to resume it.
THEOREM NoLostOwnership == Spec => []OwnershipAccounted
<1>1. IInv => OwnershipAccounted
  BY DEF IInv
<1> QED
  BY Invariance, <1>1, PTL

\* The wait chain never holds a thread that does not wait, or one twice.
THEOREM ChainCorrect == Spec => []ChainIsWaiters
<1>1. IInv => ChainIsWaiters
  BY DEF IInv
<1> QED
  BY Invariance, <1>1, PTL

----------------------------------------------------------------------------
\* The queue of the refinement mapping, in front of a chain of waiters.
Line(o, s) == <<o>> \o s

\* What the abstract lock does to its queue, in terms of owner and chain.
LEMMA LineProperties ==
    ASSUME NEW o \in Threads, NEW s \in Seq(Threads)
    PROVE  /\ Line(o, s) \in Seq(Threads) /\ Line(o, s) # <<>>
           /\ Head(Line(o, s)) = o
           /\ Tail(Line(o, s)) = s
           /\ \A t \in Threads : Line(o, Append(s, t)) = Append(Line(o, s), t)
           /\ \A i \in 1 .. Len(Line(o, s)) : Line(o, s)[i] = o \/ \E j \in DOMAIN s : Line(o, s)[i] = s[j]
<1> DEFINE q == <<o>> \o s
<1>1. <<o>> \in Seq(Threads) /\ Len(<<o>>) = 1 /\ <<o>>[1] = o
  OBVIOUS
<1>2. /\ q \in Seq(Threads) /\ Len(q) = 1 + Len(s)
      /\ \A i \in 1 .. 1 + Len(s) : q[i] = IF i <= 1 THEN o ELSE s[i - 1]
  BY <1>1, ConcatProperties
<1>3. q # <<>> /\ Head(q) = o
  BY <1>2
<1>4. /\ Tail(q) \in Seq(Threads) /\ Len(Tail(q)) = Len(s)
      /\ \A i \in 1 .. Len(s) : Tail(q)[i] = s[i]
  BY <1>2, <1>3, HeadTailProperties
<1>5. Tail(q) = s
  BY <1>4, SeqEqual
<1>6. ASSUME NEW t \in Threads PROVE <<o>> \o Append(s, t) = Append(q, t)
  <2>1. Append(s, t) = s \o <<t>> /\ Append(q, t) = q \o <<t>> /\ <<t>> \in Seq(Threads)
    BY <1>2, AppendIsConcat
  <2> QED
    BY <1>1, <2>1, ConcatAssociative
<1>7. \A i \in 1 .. Len(q) : q[i] = o \/ \E j \in DOMAIN s : q[i] = s[j]
  <2> SUFFICES ASSUME NEW i \in 1 .. Len(q), i > 1 PROVE q[i] = s[i - 1] /\ i - 1 \in DOMAIN s
    BY <1>2
  <2> QED
    BY <1>2
<1> QED
  BY <1>2, <1>3, <1>5, <1>6, <1>7 DEF Line

\* A sequence is its first element in front of the others.
LEMMA HeadTailLine ==
    ASSUME NEW s \in Seq(Threads), s # <<>>
    PROVE  Line(Head(s), Tail(s)) = s
<1>1. /\ Head(s) \in Threads /\ Tail(s) \in Seq(Threads) /\ Len(Tail(s)) = Len(s) - 1
      /\ \A i \in 1 .. Len(Tail(s)) : Tail(s)[i] = s[i + 1]
  BY HeadTailProperties
<1> DEFINE q == <<Head(s)>> \o Tail(s)
<1>2. <<Head(s)>> \in Seq(Threads) /\ Len(<<Head(s)>>) = 1 /\ <<Head(s)>>[1] = s[1]
  BY <1>1
<1>3. /\ q \in Seq(Threads) /\ Len(q) = 1 + Len(Tail(s))
      /\ \A i \in 1 .. 1 + Len(Tail(s)) : q[i] = IF i <= 1 THEN s[1] ELSE Tail(s)[i - 1]
  BY <1>1, <1>2, ConcatProperties
<1>4. Len(q) = Len(s) /\ \A i \in 1 .. Len(q) : q[i] = s[i]
  BY <1>1, <1>3
<1> QED
  BY <1>3, <1>4, SeqEqual DEF Line

Queue == IF owner = NoOwner THEN <<>> ELSE Line(owner, chain)
Inside == {t \in Threads : pc[t] = "in"}

\* The variables of the abstract lock, as the refinement mapping gives them.
LEMMA Mapping ==
    /\ Fifo!Init <=> Queue = <<>> /\ Inside = {}
    /\ Fifo!vars = <<Queue, Inside>>
    /\ \A t : Fifo!Queued(t) <=> \E i \in 1 .. Len(Queue) : Queue[i] = t
BY DEF Fifo!Init, Fifo!vars, Fifo!Queued, Queue, Inside, Line

\* Every step of the mutex is a step of the abstract lock or changes nothing it
\* can see.
LEMMA StepRefines == IInv /\ [Next]_vars => [Fifo!Next]_Fifo!vars
<1> SUFFICES ASSUME IInv, [Next]_vars PROVE Fifo!Next \/ UNCHANGED <<Queue, Inside>>
  BY DEF Fifo!vars, Queue, Inside, Line
<1> USE DEF IInv, TypeOK, Goto
<1>1. ASSUME NEW t \in Threads, Call(t) \/ Spin(t) \/ TimeoutSpin(t)
      PROVE  UNCHANGED <<Queue, Inside>>
  BY <1>1 DEF Call, Spin, TimeoutSpin, Queue, Inside
<1>2. ASSUME NEW t \in Threads, Acquire(t) \/ mutex_try_lock(t) PROVE Fifo!EnterFree(t)
  <2>1. owner = NoOwner /\ owner' = t /\ chain = <<>> /\ chain' = <<>> /\ pc' = [pc EXCEPT ![t] = "in"]
    BY <1>2 DEF Acquire, mutex_try_lock, OwnershipAccounted
  <2>2. Queue = <<>> /\ Queue' = <<t>>
    BY <2>1 DEF Queue, Line
  <2>3. Inside' = {t}
    BY <2>1 DEF Inside, MutualExclusion
  <2> QED
    BY <2>2, <2>3 DEF Fifo!EnterFree, Queue, Inside, Line
<1>3. ASSUME NEW t \in Threads, Enqueue(t) PROVE Fifo!Arrive(t)
  <2>1. /\ owner # NoOwner /\ owner' = owner /\ chain' = Append(chain, t)
        /\ pc[t] = "spin" /\ pc' = [pc EXCEPT ![t] = "sleep"]
    BY <1>3 DEF Enqueue
  <2>2. Queue = Line(owner, chain) /\ Queue' = Line(owner, Append(chain, t)) /\ owner \in Threads
    BY <2>1 DEF Queue
  <2>3. Queue' = Append(Queue, t)
    BY <2>2, LineProperties
  <2>4. Inside' = Inside
    BY <2>1 DEF Inside
  <2>5. t # owner /\ \A j \in DOMAIN chain : chain[j] # t
    BY <2>1 DEF OwnershipAccounted, ChainIsWaiters
  <2>6. \A i \in 1 .. Len(Queue) : Queue[i] # t
    <3>1. \A i \in 1 .. Len(Line(owner, chain)) :
             Line(owner, chain)[i] = owner \/ \E j \in DOMAIN chain : Line(owner, chain)[i] = chain[j]
      BY <2>2, LineProperties
    <3> QED
      BY <2>2, <2>5, <3>1
  <2> QED
    BY <2>3, <2>4, <2>6, Mapping DEF Fifo!Arrive, Queue, Inside, Line
<1>4. ASSUME NEW t \in Threads, mutex_unlock(t) PROVE Fifo!Leave(t)
  <2>1. pc[t] = "in" /\ owner = t /\ owner # NoOwner
    BY <1>4 DEF mutex_unlock, MutualExclusion
  <2>2. Inside = {t}
    BY <2>1 DEF Inside, MutualExclusion
  <2>3. pc' = [pc EXCEPT ![t] = IF chain = <<>> THEN "out" ELSE "resume"]
    BY <1>4 DEF mutex_unlock
  <2>4. Inside' = {}
    BY <2>2, <2>3 DEF Inside
  <2>5. Tail(Queue) = chain
    BY <2>1, LineProperties DEF Queue
  <2>6. CASE chain = <<>>
    <3>1. Queue' = <<>>
      BY <1>4, <2>6 DEF mutex_unlock, Queue
    <3> QED
      BY <2>2, <2>4, <2>5, <2>6, <3>1 DEF Fifo!Leave, Queue, Inside, Line
  <2>7. CASE chain # <<>>
    <3>1. owner' = Head(chain) /\ chain' = Tail(chain)
      BY <1>4, <2>7 DEF mutex_unlock
    <3>2. Head(chain) \in Threads /\ Tail(chain) \in Seq(Threads)
      BY <2>7, HeadTailProperties
    <3>3. Queue' = Line(Head(chain), Tail(chain))
      BY <3>1, <3>2 DEF Queue
    <3>4. Line(Head(chain), Tail(chain)) = chain
      BY <2>7, HeadTailLine
    <3> QED
      BY <2>2, <2>4, <2>5, <3>3, <3>4 DEF Fifo!Leave, Queue, Inside, Line
  <2> QED
    BY <2>6, <2>7
<1>5. ASSUME NEW t \in Threads, thread_resume(t) PROVE \E u \in Threads : Fifo!Enter(u)
  <2>1. /\ wake[t] = owner /\ owner \in Threads /\ owner # NoOwner /\ pc[owner] = "sleep"
        /\ owner' = owner /\ chain' = chain /\ pc[t] = "resume"
        /\ pc' = [pc EXCEPT ![t] = "out", ![owner] = "in"]
    BY <1>5 DEF thread_resume, OwnershipAccounted
  <2>2. Queue' = Queue /\ Queue # <<>> /\ Head(Queue) = owner
    BY <2>1, LineProperties DEF Queue
  <2>3. Inside = {} /\ Inside' = {owner}
    BY <2>1 DEF Inside, MutualExclusion
  <2> QED
    BY <2>1, <2>2, <2>3 DEF Fifo!Enter, Queue, Inside, Line
<1>6. CASE UNCHANGED vars
  BY <1>6 DEF vars, Queue, Inside
<1>7. ASSUME Next PROVE Fifo!Next \/ UNCHANGED <<Queue, Inside>>
  <2> PICK t \in Threads : \/ Call(t) \/ Lock(t) \/ mutex_try_lock(t) \/ TimeoutSpin(t)
                           \/ mutex_unlock(t) \/ thread_resume(t)
    BY <1>7 DEF Next
  <2>1. CASE Call(t) \/ Spin(t) \/ TimeoutSpin(t)
    BY <1>1, <2>1
  <2>2. CASE Acquire(t) \/ mutex_try_lock(t)
    BY <1>2, <2>2 DEF Fifo!Next
  <2>3. CASE Enqueue(t)
    BY <1>3, <2>3 DEF Fifo!Next
  <2>4. CASE mutex_unlock(t)
    BY <1>4, <2>4 DEF Fifo!Next
  <2>5. CASE thread_resume(t)
    BY <1>5, <2>5 DEF Fifo!Next
  <2> QED
    BY <2>1, <2>2, <2>3, <2>4, <2>5 DEF Lock
<1> QED
  BY <1>6, <1>7

\* The sleeping mutex implements the abstract FIFO lock: threads get it one at
\* a time, in the order in which mutex_lock queued them.
THEOREM Refinement == Spec => RefinesFifo
<1>1. Init => Fifo!Init
  BY Mapping DEF Init, Queue, Inside
<1> QED
  BY <1>1, StepRefines, Invariance, PTL DEF Spec, RefinesFifo, Fifo!Spec
============================================================================
