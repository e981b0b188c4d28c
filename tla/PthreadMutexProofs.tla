------------------------- MODULE PthreadMutexProofs -------------------------
(***************************************************************************)
(* The POSIX mutex for any number of threads.  Exclusion is inductive once *)
(* it is known that a wake, which writes the places of other threads, only *)
(* finds sleeping ones on the list.                                        *)
(***************************************************************************)
EXTENDS PthreadMutex, SequenceTheorems, TLAPS

Places == {"idle", "spin", "futex", "queue", "asleep", "woken", "inside", "wake"}

TypeOK ==
    /\ word \in Threads \cup {Unowned}
    /\ pc \in [Threads -> Places]
    /\ sleepers \in Seq(Threads)

\* futex_wake finds only threads that are in FUTEX_WAIT, and each of them once.
ListSleeps ==
    /\ \A i \in 1 .. Len(sleepers) : pc[sleepers[i]] = "asleep"
    /\ \A i, j \in 1 .. Len(sleepers) : sleepers[i] = sleepers[j] => i = j

IInv == TypeOK /\ ListSleeps /\ Exclusion

\* The lengths in RestOfList and in futex_wake, of a list that is not empty.
LEMMA Lengths ==
    ASSUME NEW n \in Nat, n # 0
    PROVE  /\ (IF 2 <= n THEN n - 2 + 1 ELSE 0) = n - 1
           /\ (IF 1 < n THEN 1 ELSE n) = 1
  OBVIOUS

\* What futex_wake leaves on the list when it takes the oldest.
LEMMA RestOfList ==
    ASSUME NEW S, NEW s \in Seq(S), Len(s) # 0
    PROVE  /\ SubSeq(s, 2, Len(s)) \in Seq(S)
           /\ Len(SubSeq(s, 2, Len(s))) = Len(s) - 1
           /\ \A i \in 1 .. Len(s) - 1 : SubSeq(s, 2, Len(s))[i] = s[i + 1]
<1>1. Len(s) \in Nat /\ \A i \in 2 .. Len(s) : s[i] \in S
  OBVIOUS
<1>2. /\ SubSeq(s, 2, Len(s)) \in Seq(S)
      /\ Len(SubSeq(s, 2, Len(s))) = IF 2 <= Len(s) THEN Len(s) - 2 + 1 ELSE 0
      /\ \A i \in 1 .. Len(s) - 2 + 1 : SubSeq(s, 2, Len(s))[i] = s[2 + i - 1]
  BY <1>1, SubSeqProperties
<1>3. \A i \in 1 .. Len(s) - 1 : i \in 1 .. Len(s) - 2 + 1 /\ 2 + i - 1 = i + 1
  BY <1>1
<1>4. ASSUME NEW i \in 1 .. Len(s) - 1
      PROVE  SubSeq(s, 2, Len(s))[i] = s[i + 1]
  BY <1>2, <1>3
<1>5. (IF 2 <= Len(s) THEN Len(s) - 2 + 1 ELSE 0) = Len(s) - 1
  BY <1>1, Lengths, Zenon
<1> QED
  BY <1>2, <1>4, <1>5, Zenon

\* Each operation of the mutex and of the futex under it keeps the invariant.
LEMMA StepKeeps ==
    ASSUME Unowned \notin Threads, IInv, NEW t \in Threads,
           Step(t) \/ pthread_mutex_lock(t) \/ pthread_mutex_trylock(t) \/ pthread_mutex_unlock(t)
    PROVE  IInv'
<1> USE DEF IInv, TypeOK, Places, ListSleeps, Exclusion, futex, Goto, SetValue
<1>1. CASE SpinExchange(t)
  BY <1>1 DEF SpinExchange
<1>2. CASE SpinLoad(t)
  BY <1>2 DEF SpinLoad
<1>3. CASE SpinGiveUp(t)
  BY <1>3 DEF SpinGiveUp
<1>4. CASE FutexCompare(t, "idle")
  BY <1>4 DEF FutexCompare
<1>5. CASE futex_wait(t)
  <2>1. sleepers' = sleepers \/ sleepers' = Append(sleepers, t)
    BY <1>5 DEF futex_wait
  <2>2. pc[t] = "queue" /\ word' = word /\ pc' = [pc EXCEPT ![t] = "asleep"]
    BY <1>5 DEF futex_wait
  <2>3. ASSUME sleepers' = Append(sleepers, t)
        PROVE  ListSleeps'
    <3>1. Len(sleepers') = Len(sleepers) + 1 /\ sleepers'[Len(sleepers) + 1] = t
      BY <2>3
    <3>2. \A i \in 1 .. Len(sleepers) : sleepers'[i] = sleepers[i] /\ sleepers[i] # t
      BY <2>2, <2>3
    <3>3. \A i \in 1 .. Len(sleepers) : sleepers[i] \in Threads /\ pc[sleepers[i]] = "asleep"
      OBVIOUS
    <3> QED
      BY <2>2, <3>1, <3>2, <3>3
  <2> QED
    BY <2>1, <2>2, <2>3
<1>6. CASE FutexReturn(t)
  BY <1>6 DEF FutexReturn
<1>7. CASE futex_wake(t, 1)
  <2>1. pc[t] = "wake" /\ word' = word
    BY <1>7 DEF futex_wake
  <2>2. CASE pc' = [pc EXCEPT ![t] = "idle"] /\ sleepers' = sleepers
    BY <2>1, <2>2
  <2>3. CASE Len(sleepers) = 0
    <3>1. sleepers' = sleepers
      BY <1>7, <2>3 DEF futex_wake
    <3>2. pc' = [pc EXCEPT ![t] = "idle"]
      BY <1>7, <2>3 DEF futex_wake
    <3> QED
      BY <2>2, <3>1, <3>2
  <2>4. CASE /\ Len(sleepers) # 0
             /\ sleepers' = SubSeq(sleepers, 2, Len(sleepers))
             /\ pc' = [u \in Threads |-> IF u = t THEN "idle"
                                         ELSE IF u = sleepers[1] THEN "woken" ELSE pc[u]]
    <3>1. /\ sleepers[1] \in Threads /\ pc[sleepers[1]] = "asleep"
          /\ Len(sleepers) \in Nat /\ 1 \in 1 .. Len(sleepers)
      BY <2>4
    <3>2. Len(sleepers') = Len(sleepers) - 1 /\ sleepers' \in Seq(Threads)
      BY <2>4, <3>1, RestOfList
    <3>3. \A i \in 1 .. Len(sleepers') :
             i + 1 \in 1 .. Len(sleepers) /\ sleepers'[i] = sleepers[i + 1]
      BY <2>4, <3>1, <3>2, RestOfList
    <3>4. ListSleeps'
      <4>1. \A i \in 1 .. Len(sleepers') : pc'[sleepers'[i]] = "asleep"
        <5> TAKE i \in 1 .. Len(sleepers')
        <5>1. sleepers[i + 1] # sleepers[1] /\ sleepers[i + 1] # t /\ sleepers[i + 1] \in Threads
          BY <2>1, <3>1, <3>3
        <5> QED
          BY <2>4, <3>3, <5>1
      <4>2. \A i, j \in 1 .. Len(sleepers') : sleepers'[i] = sleepers'[j] => i = j
        <5> TAKE i, j \in 1 .. Len(sleepers')
        <5>1. sleepers[i + 1] = sleepers[j + 1] => i + 1 = j + 1
          BY <3>3
        <5> QED
          BY <3>1, <3>2, <3>3, <5>1
      <4> QED
        BY <4>1, <4>2
    <3> QED
      BY <2>1, <2>4, <3>1, <3>2, <3>4
  <2>5. CASE Len(sleepers) # 0
    <3> DEFINE k == IF 1 < Len(sleepers) THEN 1 ELSE Len(sleepers)
               woken == {sleepers[i] : i \in 1 .. k}
               wakes == [u \in Threads |-> IF u = t THEN "idle"
                                           ELSE IF u \in woken THEN "woken" ELSE pc[u]]
    <3>1. \/ sleepers' = SubSeq(sleepers, k + 1, Len(sleepers)) /\ pc' = wakes
          \/ pc' = [pc EXCEPT ![t] = "idle"] /\ sleepers' = sleepers
      <4>1. PICK found \in lookup :
                IF found /\ tab = "live"
                THEN sleepers' = SubSeq(sleepers, k + 1, Len(sleepers)) /\ pc' = wakes
                ELSE Goto(t, "idle") /\ UNCHANGED sleepers
        BY <1>7, Zenon DEF futex_wake
      <4> QED
        BY <4>1
    <3>2. k = 1
      <4>1. Len(sleepers) \in Nat
        OBVIOUS
      <4> QED
        BY <2>5, <4>1, Lengths, Zenon
    <3>3. k + 1 = 2 /\ woken = {sleepers[1]}
      BY <3>2
    <3> QED
      BY <2>2, <2>4, <2>5, <3>1, <3>3
  <2> QED
    BY <2>3, <2>5
<1>8. CASE pthread_mutex_lock(t)
  BY <1>8 DEF pthread_mutex_lock, vars
<1>9. CASE pthread_mutex_trylock(t)
  BY <1>9 DEF pthread_mutex_trylock
<1>10. CASE pthread_mutex_unlock(t)
  BY <1>10 DEF pthread_mutex_unlock
<1> QED
  BY <1>1, <1>2, <1>3, <1>4, <1>5, <1>6, <1>7, <1>8, <1>9, <1>10 DEF Step

\* No variable changes: neither does the invariant.
LEMMA StutterKeeps ==
    ASSUME IInv, UNCHANGED vars
    PROVE  IInv'
  BY DEF IInv, TypeOK, ListSleeps, Exclusion, vars

\* Whoever is between pthread_mutex_lock or trylock and pthread_mutex_unlock is the
\* owner that the word names, so at most one thread is, for any set of threads and
\* whatever the futex loses (libc/src/pthread).
THEOREM MutualExclusion ==
    ASSUME Unowned \notin Threads
    PROVE  Spec => []Exclusion
<1>1. Init => IInv
  BY DEF Init, FutexInit, IInv, TypeOK, Places, ListSleeps, Exclusion
<1>2. IInv /\ [Next]_vars => IInv'
  BY StepKeeps, StutterKeeps DEF Next
<1>3. IInv => Exclusion
  BY DEF IInv
<1> QED
  BY <1>1, <1>2, <1>3, PTL DEF Spec
=============================================================================
