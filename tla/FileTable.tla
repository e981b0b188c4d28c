---------------------------- MODULE FileTable ----------------------------
(***************************************************************************)
(* Descriptors and open files: the descriptor allocator of a process       *)
(* (kernel/lib/desc_alloc.cc), its table from descriptors to file ids      *)
(* (kernel/lib/process.h), the system's table of open files with reference *)
(* counts (kernel/lib/fileio.cc), and the system calls that open, copy and *)
(* close descriptors (kernel/syscall/sys_fd.cc).                           *)
(*                                                                         *)
(* The allocator and the file table have a lock each, and the table of ids *)
(* has none: each critical section is one action.  The threads of the      *)
(* process use a descriptor only while it is theirs.  A failed assertion   *)
(* halts the machine.                                                      *)
(***************************************************************************)
EXTENDS Naturals, FiniteSets

CONSTANTS Threads,
          Main,         \* the thread process_t::run starts
          Words, Bits,  \* level0 has Words bits, each word of level1 Bits (64 and 64)
          MaxFiles,     \* capacity of the file table
          Overwrites    \* do threads call dup2 on descriptors that are not open?

VARIABLES level0, level1,          \* full words; taken bits of each word
          ids,                     \* descriptor -> file id
          file_count, refcount, next_free, file_table_ff,
          open,                    \* ids of which the file system has an open file
          pc, fd, id, src,         \* per thread: where it is, newfd, the id to
                                   \* open or close and the id to copy
          owns,                    \* per thread: the descriptors it may use
          halted                   \* a failed assertion, or "no"

alloc == <<level0, level1>>
table == <<file_count, refcount, next_free, file_table_ff, open>>
locals == <<pc, fd, id, src>>
vars == <<alloc, ids, table, locals, owns, halted>>

Fds == 0 .. Words * Bits - 1
Ids == 0 .. MaxFiles - 1
Nil == MaxFiles
Word(f) == f \div Bits
Bit(f) == f % Bits
AllBits == 0 .. Bits - 1
Lowest(S) == CHOOSE x \in S : \A y \in S : x <= y

\* process_t::run has opened files 0 and 1 for descriptors 0 and 1, has taken
\* descriptor 2 as well, and has opened and closed the executable.
Init ==
    /\ level0 = {}
    /\ level1 = [w \in 0 .. Words - 1 |-> IF w = 0 THEN {0, 1, 2} ELSE {}]
    /\ ids = [f \in Fds |-> IF f = 1 THEN 1 ELSE 0]
    /\ file_count = 3
    /\ refcount = [i \in Ids |-> IF i < 2 THEN 1 ELSE 0]
    /\ next_free = [i \in Ids |-> Nil] /\ file_table_ff = 2
    /\ open = {0, 1}
    /\ pc = [t \in Threads |-> "user"]
    /\ fd = [t \in Threads |-> 0] /\ id = [t \in Threads |-> Nil]
    /\ src = [t \in Threads |-> Nil]
    /\ owns = [t \in Threads |-> IF t = Main THEN {0, 1} ELSE {}]
    /\ halted = "no"

Goto(t, to) == pc' = [pc EXCEPT ![t] = to]

\* The end of a call; its locals are gone.
Return(t) ==
    /\ Goto(t, "user")
    /\ fd' = [fd EXCEPT ![t] = 0]
    /\ id' = [id EXCEPT ![t] = Nil] /\ src' = [src EXCEPT ![t] = Nil]

-----------------------------------------------------------------------------
\* desc_alloc_t::alloc, the first half of sys_openat (also creatat, opendirat)
\* and of sys_dup.  The bit of a word that has become full is cleared in
\* level0, where it is not set.
DescAlloc(t, to) ==
    LET w == Lowest((0 .. Words - 1) \ level0)
    IN  IF level0 = 0 .. Words - 1
        THEN Goto(t, "user") /\ UNCHANGED <<alloc, fd, halted>>
        ELSE IF level1[w] = AllBits
        THEN halted' = "desc_alloc" /\ UNCHANGED <<alloc, fd, pc>>
        ELSE LET b == Lowest(AllBits \ level1[w])
             IN  /\ level1' = [level1 EXCEPT ![w] = @ \cup {b}]
                 /\ level0' = IF level1'[w] = AllBits THEN level0 \ {w} ELSE level0
                 /\ fd' = [fd EXCEPT ![t] = w * Bits + b]
                 /\ Goto(t, to)
                 /\ UNCHANGED halted

sys_openat(t) ==
    /\ pc[t] = "user"
    /\ DescAlloc(t, "new")
    /\ UNCHANGED <<ids, table, id, owns, src>>

\* desc_alloc_t::free, after a failure.
DescFree(t) ==
    /\ pc[t] = "free"
    /\ level1' = [level1 EXCEPT ![Word(fd[t])] = @ \ {Bit(fd[t])}]
    /\ level0' = level0 \ {Word(fd[t])}
    /\ Return(t)
    /\ UNCHANGED <<ids, table, owns, halted>>

-----------------------------------------------------------------------------
\* file_openat starts with an entry of the file table: a freed one, a new one,
\* or ENFILE.
file_new_filetab(t) ==
    /\ pc[t] = "new"
    /\ LET i == IF file_table_ff # Nil THEN file_table_ff ELSE file_count
       IN  IF i = MaxFiles
           THEN Goto(t, "free") /\ UNCHANGED <<table, id, halted>>
           ELSE IF refcount[i] # 0
           THEN halted' = "new_filetab" /\ UNCHANGED <<table, id, pc>>
           ELSE /\ file_table_ff' = IF file_table_ff # Nil THEN next_free[i] ELSE Nil
                /\ next_free' = [next_free EXCEPT ![i] = Nil]
                /\ file_count' = IF file_table_ff # Nil THEN file_count ELSE file_count + 1
                /\ refcount' = [refcount EXCEPT ![i] = 1]
                /\ id' = [id EXCEPT ![t] = i]
                /\ Goto(t, "fs")
                /\ UNCHANGED <<open, halted>>
    /\ UNCHANGED <<alloc, ids, fd, owns, src>>

\* The file system opens the file, and the descriptor is its caller's; or it
\* fails, and both tables are restored.
FsOpen(t) ==
    /\ pc[t] = "fs"
    /\ \/ /\ open' = open \cup {id[t]}
          /\ ids' = [ids EXCEPT ![fd[t]] = id[t]]
          /\ owns' = [owns EXCEPT ![t] = @ \cup {fd[t]}]
          /\ Return(t)
       \/ Goto(t, "undo") /\ UNCHANGED <<open, ids, owns, fd, id, src>>
    /\ UNCHANGED <<alloc, file_count, refcount, next_free, file_table_ff, halted>>

\* Mutant: an entry with references left goes to the free list.
DelFiletab_Shared(i) ==
    /\ refcount' = [refcount EXCEPT ![i] = @ - 1]
    /\ next_free' = [next_free EXCEPT ![i] = file_table_ff]
    /\ file_table_ff' = i

\* file_del_filetab: the last reference puts the entry on the free list.
DelFiletab(i) ==
    /\ refcount' = [refcount EXCEPT ![i] = @ - 1]
    /\ IF refcount[i] = 1
       THEN next_free' = [next_free EXCEPT ![i] = file_table_ff] /\ file_table_ff' = i
       ELSE UNCHANGED <<next_free, file_table_ff>>

Undo(t) ==
    /\ pc[t] = "undo"
    /\ DelFiletab(id[t])
    /\ Goto(t, "free")
    /\ UNCHANGED <<alloc, ids, file_count, open, fd, id, owns, halted, src>>

-----------------------------------------------------------------------------
\* sys_close looks the id up, and file_fh_from_id asserts that it is in use;
\* the descriptor stays taken and keeps its id.
sys_close(t, f) ==
    /\ pc[t] = "user" /\ f \in owns[t]
    /\ owns' = [owns EXCEPT ![t] = @ \ {f}]
    /\ IF refcount[ids[f]] = 0
       THEN halted' = "zero_refcount" /\ UNCHANGED <<pc, id>>
       ELSE id' = [id EXCEPT ![t] = ids[f]] /\ Goto(t, "close") /\ UNCHANGED halted
    /\ UNCHANGED <<alloc, ids, table, fd, src>>

\* file_close: drop the reference, and release the file with the last one.
file_close(t) ==
    /\ pc[t] \in {"close", "overwrite"}
    /\ IF refcount[id[t]] = 0
       THEN halted' = "zero_refcount" /\ UNCHANGED <<table, pc>>
       ELSE /\ DelFiletab(id[t])
            /\ open' = IF refcount[id[t]] = 1 THEN open \ {id[t]} ELSE open
            /\ Goto(t, IF pc[t] = "close" THEN "user" ELSE "ref")
            /\ UNCHANGED <<file_count, halted>>
    /\ id' = [id EXCEPT ![t] = Nil]
    /\ UNCHANGED <<alloc, ids, fd, owns, src>>

\* sys_dup: the id of the old descriptor is read, a new one allocated ...
sys_dup(t, old) ==
    /\ pc[t] = "user" /\ old \in owns[t]
    /\ src' = [src EXCEPT ![t] = ids[old]]
    /\ DescAlloc(t, "ref")
    /\ UNCHANGED <<ids, table, id, owns>>

\* ... and file_ref_filetab, which asserts that the file is open, counts it.
\* The copy may be for another thread.
file_ref_filetab(t) ==
    /\ pc[t] = "ref"
    /\ IF refcount[src[t]] = 0
       THEN halted' = "ref_filetab" /\ UNCHANGED <<ids, refcount, owns, locals>>
       ELSE /\ refcount' = [refcount EXCEPT ![src[t]] = @ + 1]
            /\ ids' = [ids EXCEPT ![fd[t]] = src[t]]
            /\ \E u \in Threads : owns' = [owns EXCEPT ![u] = @ \cup {fd[t]}]
            /\ Return(t)
            /\ UNCHANGED halted
    /\ UNCHANGED <<alloc, file_count, next_free, file_table_ff, open>>

\* sys_dup3 from one descriptor of the thread to another; or, with
\* Overwrites, to itself or to one that is not open.  The id of one that is
\* not open is 0 or stale and never negative, so it is closed too and the
\* descriptor is not taken.
sys_dup3(t, old, new) ==
    /\ pc[t] = "user" /\ old \in owns[t]
    /\ new \in IF Overwrites THEN Fds \ UNION {owns[u] \ {old} : u \in Threads \ {t}}
              ELSE owns[t] \ {old}
    /\ owns' = [owns EXCEPT ![t] = @ \ {new}]
    /\ fd' = [fd EXCEPT ![t] = new]
    /\ src' = [src EXCEPT ![t] = ids[old]] /\ id' = [id EXCEPT ![t] = ids[new]]
    /\ Goto(t, "overwrite")
    /\ UNCHANGED <<alloc, ids, table, halted>>

Next ==
    /\ halted = "no"
    /\ \E t \in Threads :
        \/ sys_openat(t) \/ DescFree(t) \/ file_new_filetab(t) \/ FsOpen(t) \/ Undo(t)
        \/ file_close(t) \/ file_ref_filetab(t)
        \/ \E f \in Fds : sys_close(t, f) \/ sys_dup(t, f)
                        \/ \E g \in Fds : sys_dup3(t, f, g)

Spec == Init /\ [][Next]_vars

-----------------------------------------------------------------------------
\* The references to a file: descriptors in use, and calls under way.
References(i) ==
    Cardinality({f \in Fds : ids[f] = i /\ \E t \in Threads : f \in owns[t]})
    + Cardinality({t \in Threads : id[t] = i /\ pc[t] \in {"fs", "undo", "close", "overwrite"}})

\* The reference count of a file is the number of its references, so that the
\* file system has it open as long as a descriptor refers to it, and no longer
\* (fileio.cc:126-180, 238-258).
RefcountsExact ==
    /\ \A i \in Ids : refcount[i] = References(i)
    /\ \A f \in Fds, t \in Threads : f \in owns[t] => ids[f] \in open
    /\ \A i \in open : refcount[i] > 0

\* The free list holds exactly the entries without references.
FreeListExact ==
    LET chain[n \in 0 .. MaxFiles] ==
            IF n = 0 THEN file_table_ff
            ELSE IF chain[n - 1] = Nil THEN Nil ELSE next_free[chain[n - 1]]
    IN  {chain[n] : n \in 0 .. MaxFiles} \ {Nil} = {i \in 0 .. file_count - 1 : refcount[i] = 0}

\* A descriptor belongs to one thread at most, and one in use is taken.
DescriptorsDistinct ==
    /\ \A t, u \in Threads : t # u => owns[t] \cap owns[u] = {}
    /\ \A t \in Threads : \A f \in owns[t] : Bit(f) \in level1[Word(f)]

\* "Should be impossible due to level0 value" (desc_alloc.cc:17), and the
\* assertion after it.
AllocFindsFree == halted # "desc_alloc"

\* A descriptor that is taken is in use or about to be.
NoDescriptorLeak ==
    \A f \in Fds : Bit(f) \in level1[Word(f)] /\ f # 2 =>
        \E t \in Threads : f \in owns[t] \/ (pc[t] # "user" /\ fd[t] = f)
                           \/ (pc[t] = "close" /\ ids[f] = id[t])
=============================================================================
