------------------------------ MODULE Iocp ------------------------------
(***************************************************************************)
(* The I/O completion object of kernel/device/iocp.h, as a value.  A       *)
(* driver may split one request into several commands that share one       *)
(* object; the callback runs once, when `expect` commands have completed.  *)
(* Every operator is the body of the method of the same name: it runs      *)
(* under the object's lock, except set_result, which the drivers call from *)
(* one completion handler at a time.  The callback of the blocking object  *)
(* (set done, wake the waiter) is the increment of `calls`.                *)
(***************************************************************************)
EXTENDS Naturals

\* A constructed or reset object: the callback is armed.
NewIocp == [expect_count |-> 0, done_count |-> 0, result_count |-> 0,
            result |-> "OK", armed |-> TRUE, calls |-> 0]

\* The callback pointer is taken, so that it is called at most once.
invoke_once(o) ==
    IF o.armed THEN [o EXCEPT !.armed = FALSE, !.calls = @ + 1] ELSE o

\* Mutant: commands that completed before the count was known are ignored.
set_expect_Late(o, n) == [o EXCEPT !.expect_count = n]

set_expect(o, n) ==
    LET p == [o EXCEPT !.expect_count = n]
    IN  IF p.done_count >= n THEN invoke_once(p) ELSE p

\* Mutant: the last command decides.
set_result_Last(o, res) ==
    [o EXCEPT !.result_count = @ + 1, !.result = res]

\* The first result is stored, and after it only failures.
set_result(o, res) ==
    [o EXCEPT !.result_count = @ + 1,
              !.result = IF o.result_count = 0 \/ res # "OK" THEN res ELSE @]

\* Until set_expect has run, expect_count is 0 and nothing is called.
invoke(o) ==
    LET p == [o EXCEPT !.done_count = @ + 1]
    IN  IF p.done_count >= p.expect_count /\ p.expect_count # 0
        THEN invoke_once(p)
        ELSE p
=============================================================================
