----------------------------- MODULE MCCoWaiter -----------------------------
(* TLC instance of CoWaiter: one coroutine, narrow waits with a deadline. *)
EXTENDS CoWaiter

CONSTANTS c1, e1, p1

NarrowCall == {<<"narrow", TRUE>>}
=============================================================================
