------------------------------ MODULE MCWakeups ------------------------------
(***************************************************************************)
(* Waits that a close or a cancel has to end: those of CoPollEvent, and    *)
(* those of channels and select.  One behaviour is one of the two parts:   *)
(* it is chosen in the initial state, the variables of the other stay as   *)
(* they are.                                                               *)
(***************************************************************************)
EXTENDS CoPollEvent, CoSelect, TLC

CONSTANTS c1, e1, e2, k1, fd1, rd, wr, sl, one, two, zero

\* A read and a Notify wait without any timer.
ReadAndNotify == {<<fd1, {"READY"}>>, <<NoFd, {"CUSTOM"}>>}

-----------------------------------------------------------------------------
(* Channels: a buffered one, one with two places, an unbuffered one.        *)

MCMax == (one :> 1) @@ (two :> 2) @@ (zero :> 0)
MCCases == sl :> <<<<"read", one>>, <<"write", two>>>>
ChanCalls(c, ops, ch) == {<<c, o, ch>> : o \in ops}

\* Two writers, one timed and one that may be cancelled, a reader, a close.
Contention ==
    ChanCalls(wr, {"Write", "RequestCancel"}, one)
    \cup ChanCalls(sl, {"TryWrite(ms)", "Write"}, one)
    \cup ChanCalls(rd, Reads \cup {"Close"}, one)

\* Several places and a reader that takes them all at once.
Batch ==
    ChanCalls(wr, {"Write"}, two) \cup ChanCalls(sl, {"TryWrite(ms)"}, two)
    \cup ChanCalls(rd, {"ReadAll", "RequestCancel", "Close"}, two)

\* The unbuffered channel, with the tries it inherits.
Rendezvous ==
    ChanCalls(wr, {"Write", "RequestCancel"}, zero)
    \cup ChanCalls(sl, {"Write", "TryWrite(ms)", "Close"}, zero)
    \cup ChanCalls(rd, {"Read", "TryRead(ms)"}, zero)

\* A select between reading one and writing two, the other ends, closes.
Selecting ==
    ChanCalls(sl, Selects \cup {"RequestCancel"}, one)
    \cup ChanCalls(wr, {"TryWrite", "Close"}, one)
    \cup ChanCalls(rd, {"Read", "Close"}, two)

MCScenarios == {Contention, Batch, Rendezvous, Selecting}

-----------------------------------------------------------------------------
VARIABLE part
wakeupVars == <<part, vars, selectAll>>

WakeupInit ==
    /\ part \in {"event", "chan"}
    /\ Init
    /\ SelectInit /\ (part # "chan" => uses = Batch)

InEvent(A) == part = "event" /\ A /\ UNCHANGED <<part, selectAll>>
InChan(A) == part = "chan" /\ A /\ UNCHANGED <<part, vars>>

WakeupNext == InEvent(Next) \/ InChan(SelectNext)

\* In the other part nothing that the fairness of a part asks for is enabled.
WakeupSpec == WakeupInit /\ [][WakeupNext]_wakeupVars /\ Fairness /\ SelectFairness
=============================================================================
