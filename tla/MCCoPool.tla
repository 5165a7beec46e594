------------------------------ MODULE MCCoPool ------------------------------
(* TLC instances of CoPool. *)
EXTENDS CoPool

CONSTANTS k1, k2, w1

\* Release in a thread with one worker, in a coroutine with two.
Usual == {<<1, "thread">>, <<2, "coroutine">>}
\* Release in a coroutine of the only worker.
OneWorker == {<<1, "coroutine">>}
=============================================================================
