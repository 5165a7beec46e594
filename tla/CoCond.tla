------------------------------- MODULE CoCond -------------------------------
(***************************************************************************)
(* sync/CoCond: a queue of CoWaiters.  A waiter enters the queue in the    *)
(* callback that runs after its coroutine was switched out, so a notify    *)
(* before that does not reach it.  NotifyOne pops under the lock until a   *)
(* Notify succeeds; NotifyAll pops one entry per lock section and notifies *)
(* it outside, and several threads may be in it.  An entry is Gone once    *)
(* its wait has ended otherwise.                                           *)
(***************************************************************************)
EXTENDS Integers, Sequences, FiniteSets

CONSTANTS CondCos,  \* the coroutines that may wait
          Notifiers,\* the threads that may call NotifyAll
          Gone,     \* an entry whose Notify returns -1
          MaxCondQueue \* bound: entries (those of ended waits pile up)

ASSUME CoCondAssumption == Gone \notin CondCos /\ IsFiniteSet(CondCos)

VARIABLES
    condQueue,  \* m_waiter_queue
    condState,  \* out, bound (switched out, callback to come), queued
    condWake,   \* what decided the wait
    condHand    \* of each notifier: what it has popped and not yet notified

condVars == <<condQueue, condState, condWake, condHand>>

\* Of each notifier: its NotifyAll is under way; those the call found queued and
\* that still wait (history).
VARIABLES allOn, allFrom
condAll == <<allFrom, allOn>>

CondTypeOK ==
    /\ condQueue \in Seq(CondCos \cup {Gone})
    /\ condState \in [CondCos -> {"out", "bound", "queued"}]
    /\ condWake \in [CondCos -> {"none", "notify", "timeout", "cancel"}]
    /\ condHand \in [Notifiers -> CondCos \cup {Gone}]

CondInit ==
    /\ condQueue = <<>>
    /\ condState = [c \in CondCos |-> "out"]
    /\ condWake = [c \in CondCos |-> "none"]
    /\ condHand = [n \in Notifiers |-> Gone]
CondAllInit ==
    /\ allOn = [n \in Notifiers |-> FALSE]
    /\ allFrom = [n \in Notifiers |-> {}]

\* Wait and WaitFor up to the switch.
CondWait(c) ==
    /\ condState[c] = "out"
    /\ condState' = [condState EXCEPT ![c] = "bound"]
    /\ condWake' = [condWake EXCEPT ![c] = "none"]
    /\ UNCHANGED <<condQueue, condHand>>

\* Their callback.
CondEnqueue(c) ==
    /\ condState[c] = "bound"
    /\ condState' = [condState EXCEPT ![c] = "queued"]
    /\ condQueue' = Append(condQueue, IF condWake[c] = "none" THEN c ELSE Gone)
    /\ UNCHANGED <<condWake, condHand>>

\* A timer or RequestCancel ends the wait; the entry stays.
CondEnd(c, by) ==
    /\ condState[c] # "out" /\ condWake[c] = "none"
    /\ condWake' = [condWake EXCEPT ![c] = by]
    /\ condQueue' = [i \in DOMAIN condQueue |-> IF condQueue[i] = c THEN Gone ELSE condQueue[i]]
    /\ condHand' = [n \in Notifiers |-> IF condHand[n] = c THEN Gone ELSE condHand[n]]
    /\ UNCHANGED condState

\* The wait is decided and the callback has run: the coroutine may go on.
CondAwake(c) == condState[c] = "queued" /\ condWake[c] # "none"
CondReturn(c) ==
    /\ CondAwake(c)
    /\ condState' = [condState EXCEPT ![c] = "out"]
    /\ UNCHANGED <<condQueue, condWake, condHand>>

\* _NotifyOne; it returns 0 iff there is a live entry.
CondLive == {i \in DOMAIN condQueue : condQueue[i] # Gone}
CondNotifyOne ==
    LET first == CHOOSE i \in CondLive : \A j \in CondLive : i <= j
    IN  /\ IF CondLive = {} THEN condQueue' = <<>> /\ UNCHANGED condWake
           ELSE /\ condQueue' = SubSeq(condQueue, first + 1, Len(condQueue))
                /\ condWake' = [condWake EXCEPT ![condQueue[first]] = "notify"]
        /\ UNCHANGED <<condState, condHand>>

\* One turn of the NotifyAll of n: pop, then notify.
CondPop(n) ==
    /\ condQueue # <<>>
    /\ condHand' = [condHand EXCEPT ![n] = Head(condQueue)]
    /\ condQueue' = Tail(condQueue)
    /\ UNCHANGED <<condState, condWake>>
CondNotifyHand(n) ==
    /\ condWake' = IF condHand[n] = Gone THEN condWake
                   ELSE [condWake EXCEPT ![condHand[n]] = "notify"]
    /\ condHand' = [condHand EXCEPT ![n] = Gone]
    /\ UNCHANGED <<condQueue, condState>>

-----------------------------------------------------------------------------
(* The condition by itself: waits that a timer or a cancel may end, NotifyOne *)
(* and NotifyAll from any thread.                                           *)

CondAllBegin(n) ==
    /\ ~allOn[n]
    /\ allOn' = [allOn EXCEPT ![n] = TRUE]
    /\ allFrom' = [allFrom EXCEPT ![n] = {condQueue[i] : i \in CondLive}]
    /\ UNCHANGED condVars

AllSnapshot(n) ==  \* mutant
    /\ allOn[n] /\ condHand[n] = Gone
    /\ IF condQueue = <<>> \/ Head(condQueue) = Gone
       THEN allOn' = [allOn EXCEPT ![n] = FALSE] /\ UNCHANGED condVars
       ELSE CondPop(n) /\ UNCHANGED allOn
CondAllTurn(n) ==
    /\ allOn[n] /\ condHand[n] = Gone
    /\ IF condQueue = <<>>
       THEN allOn' = [allOn EXCEPT ![n] = FALSE] /\ UNCHANGED condVars
       ELSE CondPop(n) /\ UNCHANGED allOn

CondUse ==
    \/ \E c \in CondCos :
          \/ Len(condQueue) < MaxCondQueue /\ CondWait(c)
          \/ CondEnqueue(c) \/ CondReturn(c)
          \/ \E by \in {"timeout", "cancel"} : CondEnd(c, by)
    \/ CondNotifyOne
    \/ \E n \in Notifiers : condHand[n] # Gone /\ CondNotifyHand(n)

\* Whose wait has been decided is not waited for any more.
StillWaiting == [n \in Notifiers |-> {c \in allFrom[n] : condWake'[c] = "none"}]

CondNext ==
    \/ \E n \in Notifiers : CondAllBegin(n)
    \/ /\ (CondUse /\ UNCHANGED allOn) \/ \E n \in Notifiers : CondAllTurn(n)
       /\ allFrom' = StillWaiting

CondSpec == CondInit /\ CondAllInit /\ [][CondNext]_<<condVars, condAll>>

\* Whoever was queued when a NotifyAll was called has been woken when it returns,
\* although it takes the lock anew for each entry, meets entries of ended waits,
\* and other notifies and new waiters come in between; except those that another
\* NotifyAll, still under way, has taken off the queue and is about to notify.
CondAllReached ==
    /\ CondTypeOK
    /\ \A n \in Notifiers : \A c \in allFrom[n] :
          allOn[n] \/ \E m \in Notifiers : allOn[m] /\ condHand[m] = c
=============================================================================
