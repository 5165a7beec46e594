---------------------------- MODULE MCDnsResolver ----------------------------
(* TLC instance of DnsResolver: the coroutine of a plain Await is cancelled. *)
EXTENDS DnsResolver

CONSTANTS a1, b1
=============================================================================
