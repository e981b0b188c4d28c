----------------------------- MODULE MCCondVar -----------------------------
(***************************************************************************)
(* Instances of CondVar for TLC.                                           *)
(***************************************************************************)
EXTENDS CondVar, TLC

CONSTANTS w1, w2, w3, n1, n2

\* The first notifier uses condvar_wake_one, the second condvar_wake_n with 2
\* or, as there are three waiters, condvar_wake_all.
OneAndTwo == (n1 :> 1) @@ (n2 :> 2)
OneAndAll == (n1 :> 1) @@ (n2 :> 3)
Single == (n1 :> 1)
============================================================================
