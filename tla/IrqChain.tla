----------------------------- MODULE IrqChain -----------------------------
(***************************************************************************)
(* The interrupt handler chains of kernel/lib/irq.cc.  Each vector has a   *)
(* list of handlers in one table of entries.  intr_hook and intr_unhook    *)
(* change the lists under a lock; irq_invoke and intr_invoke walk them on  *)
(* any CPU without it.                                                     *)
(*                                                                         *)
(* A CPU runs one of these operations at a time, since all of them have    *)
(* interrupts disabled.  Names and end-of-interrupt kinds are left out.    *)
(***************************************************************************)
EXTENDS Integers, FiniteSets

CONSTANTS Cpus, Vectors, Handlers,
          Line,       \* Line[h]: the vector that handler h is for
          MaxEntries, \* entries of the table, MAX_INTR_HANDLERS
          MaxRefs,    \* a bound on an entry's refcount
          MaxHooks    \* the most times a handler is hooked at once

VARIABLES intr_first, intr_first_free, intr_handlers_count,
          next, refcount, intr, handler,    \* the fields of intr_handlers
          lock,
          cpu,       \* what each CPU does: [op, v, h, e]
          hooks,     \* history: how often each handler is hooked by now
          due,       \* history: handlers hooked when the walk of a CPU began
          called     \* history: how often the walk has called each handler

links == <<intr_first, intr_first_free, intr_handlers_count>>
entries == <<next, refcount, intr, handler>>
history == <<hooks, due, called>>
vars == <<links, entries, lock, cpu, history>>

Entry == 0 .. MaxEntries - 1
Nil == -1
Idle == [op |-> "idle", v |-> "none", h |-> "none", e |-> Nil]
None == [h \in Handlers |-> 0]

\* Static storage: zero, which is an index, not the end of a list.
Init ==
    /\ intr_first = [v \in Vectors |-> 0] /\ intr_first_free = 0 /\ intr_handlers_count = 0
    /\ next = [e \in Entry |-> 0] /\ refcount = [e \in Entry |-> 0]
    /\ intr = [e \in Entry |-> "none"] /\ handler = [e \in Entry |-> "none"]
    /\ lock = FALSE /\ cpu = [c \in Cpus |-> Idle]
    /\ hooks = None
    /\ due = [c \in Cpus |-> {}] /\ called = [c \in Cpus |-> None]

Set(c, op, v, h, e) == cpu' = [cpu EXCEPT ![c] = [op |-> op, v |-> v, h |-> h, e |-> e]]

\* The entries of the list of v, from the first: Walk[k] is the k-th, or Nil.
Walk(v) ==
    LET w[k \in 0 .. MaxEntries] ==
            IF k = 0 THEN intr_first[v] ELSE IF w[k - 1] = Nil THEN Nil ELSE next[w[k - 1]]
    IN  w
OnList(v) == {Walk(v)[k] : k \in 0 .. MaxEntries} \ {Nil}
Found(v, h) == {e \in OnList(v) : intr[e] = v /\ handler[e] = h}

\* intr_hook: the lock, and the first-time initialization.
HookLock(c, v, h) ==
    /\ cpu[c] = Idle /\ ~lock /\ hooks[h] < MaxHooks
    /\ \A e \in Entry : handler[e] = h => refcount[e] < MaxRefs
    /\ lock' = TRUE /\ Set(c, "hook", v, h, Nil)
    /\ IF intr_handlers_count = 0
       THEN intr_first' = [w \in Vectors |-> Nil] /\ intr_first_free' = Nil
       ELSE UNCHANGED <<intr_first, intr_first_free>>
    /\ UNCHANGED <<intr_handlers_count, entries, history>>

\* intr_hook: the handler is there already.
HookAgain(c) ==
    LET v == cpu[c].v  h == cpu[c].h
    IN  /\ cpu[c].op = "hook"
        /\ \E e \in Found(v, h) :
             /\ refcount' = [refcount EXCEPT ![e] = @ + 1]
             /\ hooks' = [hooks EXCEPT ![h] = @ + 1]
        /\ lock' = FALSE /\ Set(c, "idle", "none", "none", Nil)
        /\ UNCHANGED <<links, next, intr, handler, due, called>>

\* intr_alloc: the entry, a new one while the free list is empty.
Fresh == intr_handlers_count = 0 \/ intr_first_free = Nil
intr_alloc ==
    /\ Fresh => intr_handlers_count < MaxEntries
    /\ IF Fresh THEN intr_handlers_count' = intr_handlers_count + 1 /\ UNCHANGED intr_first_free
                ELSE intr_first_free' = next[intr_first_free] /\ UNCHANGED intr_handlers_count
Allocated == IF Fresh THEN intr_handlers_count ELSE intr_first_free


\* intr_hook: a new entry is filled, still unreachable.
HookFill(c) ==
    LET v == cpu[c].v  h == cpu[c].h  e == Allocated
    IN  /\ cpu[c].op = "hook" /\ Found(v, h) = {}
        /\ intr_alloc
        /\ next' = [next EXCEPT ![e] = Nil] /\ refcount' = [refcount EXCEPT ![e] = 1]
        /\ intr' = [intr EXCEPT ![e] = v] /\ handler' = [handler EXCEPT ![e] = h]
        /\ Set(c, "publish", v, h, e)
        /\ UNCHANGED <<intr_first, lock, history>>

\* intr_hook: atomic_st_rel of the link that ended the list.
HookPublish(c) ==
    LET v == cpu[c].v  e == cpu[c].e
    IN  /\ cpu[c].op = "publish"
        /\ IF intr_first[v] = Nil
           THEN intr_first' = [intr_first EXCEPT ![v] = e] /\ UNCHANGED next
           ELSE \E last \in OnList(v) : next[last] = Nil /\ next' = [next EXCEPT ![last] = e]
                                        /\ UNCHANGED intr_first
        /\ hooks' = [hooks EXCEPT ![cpu[c].h] = @ + 1]
        /\ lock' = FALSE /\ Set(c, "idle", "none", "none", Nil)
        /\ UNCHANGED <<intr_first_free, intr_handlers_count, refcount, intr, handler,
                       due, called>>

\* What intr_unhook's walk sees before it stops at index 0: the loop ends there,
\* not at the end of the list.
Visible(v) == {Walk(v)[k] : k \in {j \in 0 .. MaxEntries : \A i \in 0 .. j : Walk(v)[i] \notin {0, Nil}}}

\* intr_unhook of a handler that is hooked and that the walk finds, or misses because it
\* stops at entry 0.  intr_delete runs when the count does not become 0.
intr_unhook(v, h) ==
    /\ ~lock /\ hooks[h] > 0
    /\ hooks' = [hooks EXCEPT ![h] = @ - 1]
    /\ IF Found(v, h) \cap Visible(v) = {}
       THEN UNCHANGED <<links, entries>>
       ELSE LET e == CHOOSE x \in Found(v, h) : TRUE
            IN  /\ refcount' = [refcount EXCEPT ![e] = @ - 1]
                /\ IF refcount[e] = 1 THEN UNCHANGED <<intr_first, intr_first_free, next>>
                   ELSE /\ intr_first' = [intr_first EXCEPT ![v] = IF @ = e THEN next[e] ELSE @]
                        /\ next' = [x \in Entry |-> IF x = e THEN intr_first_free
                                                    ELSE IF next[x] = e /\ x \in OnList(v)
                                                    THEN next[e] ELSE next[x]]
                        /\ intr_first_free' = e
                /\ UNCHANGED <<intr_handlers_count, intr, handler>>
    /\ UNCHANGED <<lock, cpu, due, called>>

\* irq_invoke: intr_has_handler, and the head of the list.
irq_invoke(c, v) ==
    /\ cpu[c] = Idle /\ intr_handlers_count > 0 /\ intr_first[v] >= 0
    /\ Set(c, "walk", v, "none", intr_first[v])
    /\ due' = [due EXCEPT ![c] = {h \in Handlers : Line[h] = v /\ hooks[h] > 0}]
    /\ UNCHANGED <<links, entries, lock, hooks, called>>

\* One handler of the list.  The link is read after the handler has run.
InvokeOne(c) ==
    /\ cpu[c].op = "walk" /\ cpu[c].e # Nil
    /\ called' = [called EXCEPT ![c][handler[cpu[c].e]] = @ + 1]
    /\ Set(c, "walk", cpu[c].v, "none", next[cpu[c].e])
    /\ UNCHANGED <<links, entries, lock, hooks, due>>

InvokeDone(c) ==
    /\ cpu[c].op = "walk" /\ cpu[c].e = Nil
    /\ Set(c, "idle", "none", "none", Nil)
    /\ due' = [due EXCEPT ![c] = {}] /\ called' = [called EXCEPT ![c] = None]
    /\ UNCHANGED <<links, entries, lock, hooks>>

Next ==
    \/ \E c \in Cpus : \/ \E v \in Vectors : irq_invoke(c, v)
                       \/ \E h \in Handlers : HookLock(c, Line[h], h)
    \/ \E c \in Cpus : HookAgain(c) \/ HookFill(c) \/ HookPublish(c)
                       \/ InvokeOne(c) \/ InvokeDone(c)
    \/ \E h \in Handlers : intr_unhook(Line[h], h)

Spec == Init /\ [][Next]_vars

-----------------------------------------------------------------------------
=============================================================================
