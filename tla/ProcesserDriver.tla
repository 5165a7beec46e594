--------------------------- MODULE ProcesserDriver ---------------------------
(***************************************************************************)
(* The driver slot of one Processer: binding, generations, callback leases *)
(* and synchronous unbinding; the worker's Tick, Wait and its own sleep;   *)
(* the wakes other threads send it, possibly put off by a                  *)
(* DriverWakeDeferral.  The driver is external: it remembers a Wake that   *)
(* comes before Wait blocks, and its Wake and OnTick return.  Timeouts end *)
(* a wait at any time; no property relies on them.                         *)
(***************************************************************************)
EXTENDS Integers, Sequences, FiniteSets

CONSTANTS Controls,  \* threads that bind and unbind drivers
          Givers,    \* those of them that hand out work, also inside a deferral
          MaxGeneration, MaxTasks

Generations == 1 .. MaxGeneration

ASSUME ProcesserDriverAssumption ==
    IsFiniteSet(Controls) /\ Givers \subseteq Controls /\ MaxGeneration \in Nat /\ MaxTasks \in Nat

VARIABLES
    bound,     \* generation of m_driver_binding; 0: none
    lastGen,   \* m_driver_next_generation
    binding,   \* per generation: m_state, m_inflight, m_terminal_wake_reserved, m_detached
    memo,      \* per generation: the Wake its driver remembers
    tasks, given,  \* runnable coroutines; how many were handed out (bound)
    quiet,     \* m_run_cond_notify: TRUE is no notification
    wpc, wgen, \* the worker and the binding it has in hand
    cpc, cgen, \* the control threads likewise
    pending,   \* the threads inside a deferral, and whether a Wake is due
    asked, gone \* history: generations with an Unregister, and one that returned Ok

driverVars == <<bound, lastGen, binding, memo, tasks, given, quiet, wpc, wgen, cpc, cgen,
                pending, asked, gone>>

States == {"Unbound", "Bound", "Failed", "Detaching"}
InTick == "tick"
InWait == "waiting"

DriverTypeOK ==
    /\ bound \in {0} \cup Generations /\ lastGen \in 0 .. MaxGeneration
    /\ binding \in [Generations -> [state : States, inflight : Nat,
                                    reserved : BOOLEAN, detached : BOOLEAN]]
    /\ memo \in [Generations -> BOOLEAN]
    /\ tasks \in 0 .. MaxTasks /\ given \in 0 .. MaxTasks /\ quiet \in BOOLEAN
    /\ pending \in [Controls -> {"none", "guard", "due"}]
    /\ asked \subseteq Generations /\ gone \subseteq Generations

DriverInit ==
    /\ bound = 0 /\ lastGen = 0 /\ tasks = 0 /\ given = 0 /\ quiet = TRUE
    /\ binding = [g \in Generations |->
         [state |-> "Unbound", inflight |-> 0, reserved |-> FALSE, detached |-> FALSE]]
    /\ memo = [g \in Generations |-> FALSE]
    /\ wpc = "tickRead" /\ wgen = 0
    /\ cpc = [t \in Controls |-> "out"] /\ cgen = [t \in Controls |-> 0]
    /\ pending = [t \in Controls |-> "none"]
    /\ asked = {} /\ gone = {}

-----------------------------------------------------------------------------
(* DriverCallbackLease.                                                     *)

LateGrant(g) == ~binding[g].detached  \* mutant
Granted(g) == ~binding[g].detached /\ binding[g].state = "Bound"
Lease(g) == binding' = [binding EXCEPT ![g].inflight = @ + 1]
Unlease(g) == binding' = [binding EXCEPT ![g].inflight = @ - 1]

\* A Tick or Wait that failed: _DriverFail, then the lease ends.
FailAndUnlease(g) ==
    binding' = [binding EXCEPT ![g].inflight = @ - 1,
                               ![g].state = IF @ = "Bound" THEN "Failed" ELSE @]

-----------------------------------------------------------------------------
(* The worker thread.                                                       *)

WorkerTo(label) == wpc' = label
WorkerKeeps == UNCHANGED <<bound, lastGen, given, cpc, cgen, pending, asked, gone>>

\* _DriverOnTick: read the slot, take the lease, call.
TickRead ==
    /\ wpc = "tickRead"
    /\ wgen' = bound
    /\ WorkerTo(IF bound = 0 THEN "run" ELSE "tickLease")
    /\ UNCHANGED <<binding, memo, tasks, quiet>> /\ WorkerKeeps
TickLease ==
    /\ wpc = "tickLease"
    /\ IF Granted(wgen) THEN Lease(wgen) /\ WorkerTo(InTick) /\ UNCHANGED wgen
                        ELSE UNCHANGED binding /\ WorkerTo("run") /\ wgen' = 0
    /\ UNCHANGED <<memo, tasks, quiet>> /\ WorkerKeeps
OnTick ==
    /\ wpc = InTick
    /\ Unlease(wgen) \/ FailAndUnlease(wgen)
    /\ WorkerTo("run") /\ wgen' = 0
    /\ UNCHANGED <<memo, tasks, quiet>> /\ WorkerKeeps

\* One turn of the scheduling loop.
RunTask ==
    /\ wpc = "run"
    /\ IF tasks > 0 THEN tasks' = tasks - 1 /\ WorkerTo("tickRead")
                    ELSE UNCHANGED tasks /\ WorkerTo("waitRead")
    /\ UNCHANGED <<binding, memo, quiet, wgen>> /\ WorkerKeeps

\* _WaitForWork.
WaitRead ==
    /\ wpc = "waitRead"
    /\ wgen' = bound
    /\ WorkerTo(IF bound = 0 THEN "plain" ELSE "waitLease")
    /\ UNCHANGED <<binding, memo, tasks, quiet>> /\ WorkerKeeps
WaitLease ==
    /\ wpc = "waitLease"
    /\ IF Granted(wgen) THEN Lease(wgen) /\ WorkerTo("recheck") /\ UNCHANGED wgen
                        ELSE UNCHANGED binding /\ WorkerTo("plain") /\ wgen' = 0
    /\ UNCHANGED <<memo, tasks, quiet>> /\ WorkerKeeps
Recheck ==
    /\ wpc = "recheck"
    /\ IF tasks = 0 /\ quiet
       THEN WorkerTo(InWait) /\ UNCHANGED <<binding, quiet, wgen>>
       ELSE WorkerTo("tickRead") /\ quiet' = TRUE /\ Unlease(wgen) /\ wgen' = 0
    /\ UNCHANGED <<memo, tasks>> /\ WorkerKeeps

\* The driver's Wait returns, is over time, fails or throws.
WaitReturns ==
    /\ wpc = InWait
    /\ memo' = [memo EXCEPT ![wgen] = FALSE]
    /\ Unlease(wgen) \/ FailAndUnlease(wgen)
    /\ WorkerTo("tickRead") /\ wgen' = 0
    /\ UNCHANGED <<tasks, quiet>> /\ WorkerKeeps

\* Without a driver: the last look and the condition variable, under its lock.
PlainWait ==
    /\ wpc = "plain"
    /\ IF tasks = 0 /\ quiet THEN WorkerTo("asleep") /\ UNCHANGED quiet
                             ELSE WorkerTo("tickRead") /\ quiet' = TRUE
    /\ UNCHANGED <<binding, memo, tasks, wgen>> /\ WorkerKeeps
PlainWakes ==
    /\ wpc = "asleep"
    /\ quiet' = TRUE
    /\ WorkerTo("tickRead")
    /\ UNCHANGED <<binding, memo, tasks, wgen>> /\ WorkerKeeps

Worker == TickRead \/ TickLease \/ OnTick \/ RunTask \/ WaitRead \/ WaitLease \/ Recheck
          \/ WaitReturns \/ PlainWait \/ PlainWakes
WorkerMoves == Worker /\ (wpc = InWait => memo[wgen]) /\ (wpc = "asleep" => ~quiet)

-----------------------------------------------------------------------------
(* Control threads.                                                         *)

ControlTo(t, label) == cpc' = [cpc EXCEPT ![t] = label]
Hand(t, g) == cgen' = [cgen EXCEPT ![t] = g]
ControlKeeps == UNCHANGED <<wpc, wgen>>

\* A coroutine is made runnable: queued here, published next.
Enqueue(t) ==
    /\ cpc[t] = "out" /\ given < MaxTasks
    /\ tasks' = tasks + 1 /\ given' = given + 1
    /\ ControlTo(t, "publish")
    /\ UNCHANGED <<bound, lastGen, binding, memo, quiet, cgen, pending, asked, gone>>
    /\ ControlKeeps

\* _PublishRunnable.
Publish(t) ==
    /\ cpc[t] \in {"publish", "leaderPublish"}
    /\ quiet' = FALSE
    /\ ControlTo(t, IF cpc[t] = "publish" THEN "wakeRead" ELSE "leaderDone")
    /\ UNCHANGED <<bound, lastGen, binding, memo, tasks, given, cgen, pending, asked, gone>>
    /\ ControlKeeps

\* A DriverWakeDeferral is constructed; destroyed, with the Wake that is due.
GuardEnter(t) ==
    /\ cpc[t] = "out" /\ pending[t] = "none"
    /\ pending' = [pending EXCEPT ![t] = "guard"]
    /\ UNCHANGED <<bound, lastGen, binding, memo, tasks, given, quiet, cpc, cgen, asked, gone>>
    /\ ControlKeeps
ForgetDeferred(t) ==  \* mutant
    /\ cpc[t] = "out" /\ pending[t] # "none"
    /\ pending' = [pending EXCEPT ![t] = "none"]
    /\ UNCHANGED <<bound, lastGen, binding, memo, tasks, given, quiet, cpc, cgen, asked, gone>>
    /\ ControlKeeps
GuardExit(t) ==
    /\ cpc[t] = "out" /\ pending[t] # "none"
    /\ pending' = [pending EXCEPT ![t] = "none"]
    /\ ControlTo(t, IF pending[t] = "due" THEN "wakeRead" ELSE "out")
    /\ UNCHANGED <<bound, lastGen, binding, memo, tasks, given, quiet, cgen, asked, gone>>
    /\ ControlKeeps

\* _WakeDriver: put off inside a guard; else read the slot, take the lease, call.
WakeRead(t) ==
    /\ cpc[t] = "wakeRead"
    /\ IF pending[t] # "none"
       THEN /\ pending' = [pending EXCEPT ![t] = "due"]
            /\ ControlTo(t, "out") /\ UNCHANGED cgen
       ELSE /\ Hand(t, bound)
            /\ ControlTo(t, IF bound = 0 THEN "out" ELSE "wakeLease")
            /\ UNCHANGED pending
    /\ UNCHANGED <<bound, lastGen, binding, memo, tasks, given, quiet, asked, gone>>
    /\ ControlKeeps
WakeLease(t) ==
    /\ cpc[t] = "wakeLease"
    /\ IF Granted(cgen[t])
       THEN Lease(cgen[t]) /\ ControlTo(t, "wake") /\ UNCHANGED cgen
       ELSE UNCHANGED binding /\ ControlTo(t, "out") /\ Hand(t, 0)
    /\ UNCHANGED <<bound, lastGen, memo, tasks, given, quiet, pending, asked, gone>>
    /\ ControlKeeps

\* Wake, also the terminal one of an unbinding, has left its mark; it returns.
Wake(t) ==
    /\ cpc[t] \in {"wake", "leaderWake"}
    /\ memo' = [memo EXCEPT ![cgen[t]] = TRUE]
    /\ ControlTo(t, IF cpc[t] = "wake" THEN "woke" ELSE "leaderWoke")
    /\ UNCHANGED <<bound, lastGen, binding, tasks, given, quiet, cgen, pending, asked, gone>>
    /\ ControlKeeps
WakeReturns(t) ==
    /\ cpc[t] \in {"woke", "leaderWoke"}
    /\ Unlease(cgen[t])
    /\ IF cpc[t] = "woke" THEN ControlTo(t, "out") /\ Hand(t, 0)
                          ELSE ControlTo(t, "leaderWait") /\ UNCHANGED cgen
    /\ UNCHANGED <<bound, lastGen, memo, tasks, given, quiet, pending, asked, gone>>
    /\ ControlKeeps

\* RegisterProcesserDriver and _BindDriver; an occupied slot is refused.
Register(t) ==
    /\ cpc[t] = "out" /\ bound = 0 /\ lastGen < MaxGeneration
    /\ lastGen' = lastGen + 1 /\ bound' = lastGen + 1
    /\ binding' = [binding EXCEPT ![lastGen + 1].state = "Bound"]
    /\ ControlTo(t, "publish")
    /\ UNCHANGED <<memo, tasks, given, quiet, cgen, pending, asked, gone>>
    /\ ControlKeeps

-----------------------------------------------------------------------------
(* _UnregisterDriver.                                                       *)

HoldsLease(t, g) == cpc[t] \in {"wake", "woke", "leaderWake", "leaderWoke"} /\ cgen[t] = g

\* The binding is read from the slot; refused: a token of another generation, a
\* caller inside a deferral or inside a callback of this generation (the
\* worker's own thread and coroutines are refused before that).  Then, under the
\* binding's lock, the leader moves it to Detaching and reserves the terminal
\* lease, a later caller joins.
NeverSelf(t, g) == FALSE  \* mutant
SelfDetach(t, g) == pending[t] # "none" \/ HoldsLease(t, g)
AnyToken(g) == g <= lastGen  \* mutant
TokenFits(g) == bound = g
Unregister(t, g) ==
    /\ cpc[t] \in {"out", "wake", "woke", "leaderWoke"}
    /\ bound # 0 /\ TokenFits(g) /\ ~SelfDetach(t, bound)
    /\ asked' = asked \cup {g}
    /\ Hand(t, bound)
    /\ ControlTo(t, "unregister")
    /\ UNCHANGED <<bound, lastGen, binding, memo, tasks, given, quiet, pending, gone>>
    /\ ControlKeeps
LeadOrJoin(t) ==
    /\ cpc[t] = "unregister"
    /\ IF binding[cgen[t]].reserved
       THEN ControlTo(t, "join") /\ UNCHANGED binding
       ELSE /\ binding' = [binding EXCEPT ![cgen[t]].state = "Detaching", ![cgen[t]].reserved = TRUE,
                                          ![cgen[t]].inflight = @ + 1]
            /\ ControlTo(t, "leaderWake")
    /\ UNCHANGED <<bound, lastGen, memo, tasks, given, quiet, cgen, pending, asked, gone>>
    /\ ControlKeeps

\* A stale binding is not the leader's any more: the slot is compared.
LeaderClear(t) ==
    /\ cpc[t] = "leaderWait" /\ binding[cgen[t]].inflight = 0
    /\ bound' = IF bound = cgen[t] THEN 0 ELSE bound
    /\ ControlTo(t, "leaderDetach")
    /\ UNCHANGED <<lastGen, binding, memo, tasks, given, quiet, cgen, pending, asked, gone>>
    /\ ControlKeeps
LeaderDetach(t) ==
    /\ cpc[t] = "leaderDetach"
    /\ binding' = [binding EXCEPT ![cgen[t]].detached = TRUE]
    /\ ControlTo(t, "leaderPublish")
    /\ UNCHANGED <<bound, lastGen, memo, tasks, given, quiet, cgen, pending, asked, gone>>
    /\ ControlKeeps

UnregisterReturns(t) ==
    /\ \/ cpc[t] = "join" /\ binding[cgen[t]].detached
       \/ cpc[t] = "leaderDone"
    /\ gone' = gone \cup {cgen[t]}
    /\ ControlTo(t, "out") /\ Hand(t, 0)
    /\ UNCHANGED <<bound, lastGen, binding, memo, tasks, given, quiet, pending, asked>>
    /\ ControlKeeps

\* What a control goes on with by itself.
ControlMoves(t) ==
    \/ Publish(t) \/ GuardExit(t) \/ WakeRead(t) \/ WakeLease(t) \/ Wake(t) \/ WakeReturns(t)
    \/ LeadOrJoin(t) \/ LeaderClear(t) \/ LeaderDetach(t) \/ UnregisterReturns(t)

DriverNext ==
    \/ Worker
    \/ \E t \in Controls :
          \/ ControlMoves(t) \/ Register(t)
          \/ t \in Givers /\ (Enqueue(t) \/ GuardEnter(t))
          \/ \E g \in Generations : Unregister(t, g)

DriverSpec == DriverInit /\ [][DriverNext]_driverVars

\* Threads run; callbacks return, Wait when it has been woken.
DriverFairness ==
    /\ WF_driverVars(WorkerMoves)
    /\ \A t \in Controls : WF_driverVars(ControlMoves(t))

-----------------------------------------------------------------------------
(* Properties.                                                              *)

\* Once any Unregister of a generation has returned Ok, leader's or joiner's,
\* the slot is free of it and no thread is, or will be, inside one of its
\* driver's callbacks: the caller may destroy the driver.
QuietAfterUnregister ==
    \A g \in gone :
        /\ bound # g
        /\ ~(wgen = g /\ wpc \in {InTick, "recheck", InWait})
        /\ \A t \in Controls : ~HoldsLease(t, g)

\* A token detaches its own generation only: none is detached, or off the slot,
\* unless it was asked for by number.
OnlyAskedDetach ==
    \A g \in Generations : g <= lastGen /\ g \notin asked =>
        bound = g /\ binding[g].state \in {"Bound", "Failed"}

\* Unregister comes back, whatever the worker and the other threads do at the
\* time: also from inside callbacks and with several callers.
UnregisterEnds ==
    \A t \in Controls : []<>(cpc[t] \notin {"leaderWait", "join"})

\* The worker does not sleep on work, be it in the driver's Wait or in its own,
\* with a driver bound, failing or being removed meanwhile.
WorkIsRun == []<>(tasks = 0)

\* Unregistering a driver (Processer::_UnregisterDriver): no callback of it runs
\* afterwards, and no token detaches another driver than its own.
DriverSafe == DriverTypeOK /\ QuietAfterUnregister /\ OnlyAskedDetach

\* An unregistration returns and work given to a driven worker is run, whatever
\* the driver's callbacks do and however its wakes are put off.
DriverReturns == UnregisterEnds /\ WorkIsRun
=============================================================================
